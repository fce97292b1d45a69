------------------------- MODULE MemoryStoreProofs -------------------------
(****************************************************************************)
(* Proofs about MemoryStore, for any processes, ids, texts and bounds: the  *)
(* manifest, old texts, and what a dream deletes.                           *)
(****************************************************************************)
EXTENDS MemoryStore, SequenceTheorems, FiniteSetTheorems, TLAPS

\* Induction over the numbers.
Numbers == INSTANCE TranscriptProofs

\* A process has changed the entries and not yet rewritten the manifest.
Mid(p) ==
    \/ pc[p] \in {"write", "scan", "replace"}
    \/ pc[p] \in {"lookjson", "unlinkjson"} /\ removed[p]

\* While nothing has overlapped, whoever works is alone; alone, what it has scanned
\* is what there is; and outside the middle of an operation the manifest tells it.
ManifestInv ==
    /\ \A p \in Procs : solo = p => \A q \in Procs \ {p} : ~Active(q)
    /\ \A p \in Procs : ~tainted /\ Active(p) => solo = p
    /\ \A p \in Procs : pc[p] = "replace" /\ solo = p => listing[p] = Listed
    /\ ~tainted /\ (\A p \in Procs : ~Mid(p)) => manifest = Listed

\* An old text that has lost its .md file is about to be looked up or unlinked.
LegacyInv ==
    ~broken => \A i \in (superseded \cap Legacy) \ Present :
                  \E p \in Procs : pc[p] \in {"lookjson", "unlinkjson"} /\ job[p].id = i

-----------------------------------------------------------------------------
\* A job stays a job with another id and text.
LEMMA Rewritten ==
    ASSUME TypeOK, NEW p \in Procs, pc[p] \notin {"idle", "dead"}, NEW i \in Ids, NEW t \in Texts
    PROVE  LET j == [job EXCEPT ![p].id = i, ![p].text = t]
           IN  /\ j \in [Procs -> Jobs \cup {None}] /\ j[p] \in Jobs
               /\ \A q \in Procs \ {p} : j[q] = job[q]
<1> DEFINE j == [job EXCEPT ![p].id = i, ![p].text = t]
<1>1. job[p] \in Jobs /\ job \in [Procs -> Jobs \cup {None}]
      BY DEF TypeOK
<1>2. j = [job EXCEPT ![p] = [job[p] EXCEPT !.id = i, !.text = t]]
      BY <1>1
<1>3. [job[p] EXCEPT !.id = i, !.text = t] \in Jobs
      BY <1>1 DEF Jobs
<1>. QED
     BY <1>1, <1>2, <1>3

\* A migration changes the job of its own process only, and only to another job.
LEMMA MigrateEffect ==
    ASSUME TypeOK, NEW p \in Procs, Migrate(p)
    PROVE  /\ pc[p] = "migrate" /\ \E s \in {"idle", "migrate", "truncate"} : pc' = [pc EXCEPT ![p] = s]
           /\ job' \in [Procs -> Jobs \cup {None}] /\ job'[p] \in Jobs
           /\ \A q \in Procs \ {p} : job'[q] = job[q]
           /\ todo' \in [Procs -> SUBSET Ids]
<1>1. job \in [Procs -> Jobs \cup {None}] /\ job[p] \in Jobs /\ pc[p] = "migrate"
      BY DEF TypeOK, Migrate
<1>2. CASE todo[p] = {} /\ Goto(p, "idle") /\ UNCHANGED <<job, todo>>
      BY <1>1, <1>2 DEF TypeOK, Goto
<1>3. ASSUME NEW i \in todo[p], todo' = [todo EXCEPT ![p] = @ \ {i}],
             IF i \in Present \/ i \notin Legacy
             THEN Goto(p, "migrate") /\ UNCHANGED job
             ELSE /\ Goto(p, "truncate")
                  /\ job' = [job EXCEPT ![p].id = i, ![p].text = json[i]]
      PROVE  /\ \E s \in {"idle", "migrate", "truncate"} : pc' = [pc EXCEPT ![p] = s]
             /\ job' \in [Procs -> Jobs \cup {None}] /\ job'[p] \in Jobs
             /\ \A q \in Procs \ {p} : job'[q] = job[q]
             /\ todo' \in [Procs -> SUBSET Ids]
  <2>1. i \in Ids /\ todo' \in [Procs -> SUBSET Ids]
        BY <1>3 DEF TypeOK
  <2>2. CASE i \in Present \/ i \notin Legacy
        BY <1>1, <1>3, <2>1, <2>2 DEF Goto
  <2>3. CASE ~(i \in Present \/ i \notin Legacy)
    <3>1. json[i] \in Texts
          BY <2>1, <2>3 DEF Legacy, TypeOK
    <3>2. job' = [job EXCEPT ![p].id = i, ![p].text = json[i]] /\ pc' = [pc EXCEPT ![p] = "truncate"]
          BY <1>3, <2>3 DEF Goto
    <3>3. /\ job' \in [Procs -> Jobs \cup {None}] /\ job'[p] \in Jobs
          /\ \A q \in Procs \ {p} : job'[q] = job[q]
          BY <1>1, <2>1, <3>1, <3>2, Rewritten, ZenonT(60)
    <3>. QED
         BY <2>1, <3>2, <3>3
  <2>. QED
       BY <2>2, <2>3
<1>. QED
     BY <1>1, <1>2, <1>3 DEF Migrate

\* Only a dream's two listings and the plan made of them touch what it has seen.
LEMMA SeenKept ==
    ASSUME NEW p \in Procs,
           \/ Begin(p) \/ Load(p) \/ Migrate(p) \/ Truncate(p) \/ Write(p) \/ Scan(p) \/ Replace(p)
           \/ Look(p) \/ Unlink(p) \/ LookJson(p) \/ UnlinkJson(p) \/ UnlinkRaces(p) \/ Purge(p)
           \/ Ask(p) \/ Dispatch(p) \/ Fails(p) \/ Dies(p)
    PROVE  UNCHANGED seen
BY DEF Begin, Load, Migrate, Truncate, Write, Scan, Replace, Look, Unlink, LookJson, UnlinkJson,
       UnlinkRaces, Purge, Ask, Dispatch, Fails, Dies, seen

LEMMA SeenTypeInductive ==
    ASSUME TypeOK, [Next]_vars
    PROVE  SeenTypeOK'
<1>1. SeenTypeOK /\ md \in [Ids -> Entry]
      BY DEF TypeOK
<1>2. ASSUME UNCHANGED seen PROVE SeenTypeOK'
      BY <1>1, <1>2 DEF SeenTypeOK, seen
<1>3. ASSUME NEW p \in Procs, ListHeaders(p) \/ ReadEntries(p) PROVE SeenTypeOK'
  <2>1. /\ [i \in Ids |-> IF i \in Present THEN md[i].at ELSE None] \in [Ids -> Nat \cup {None}]
        /\ [i \in Ids |-> md[i].text] \in [Ids -> Texts \cup {Torn, None}]
        BY <1>1 DEF Entry
  <2>. QED
       BY <1>1, <1>3, <2>1 DEF ListHeaders, ReadEntries, SeenTypeOK
<1>4. ASSUME NEW p \in Procs, Plan(p) PROVE SeenTypeOK'
      BY <1>1, <1>4 DEF Plan, Nothing, SeenTypeOK
<1>5. CASE Rest \/ UNCHANGED vars
      BY <1>2, <1>5 DEF Rest, vars, locals
<1>. QED
     BY <1>2, <1>3, <1>4, <1>5, SeenKept DEF Next, Step

\* Every variable keeps its type: no step of an operation, of a failure or of a
\* death leaves the state the directory and its processes can be in.
LEMMA TypeInductive == TypeOK /\ [Next]_vars => TypeOK'
<1> SUFFICES ASSUME TypeOK, [Next]_vars PROVE TypeOK'
    OBVIOUS
<1>0. SeenTypeOK'
      BY SeenTypeInductive
<1> USE <1>0, Names, Bounds, Begins
<1> USE DEF TypeOK, Stages, SaveStages, DeleteStages, Goto, files, seen, locals, history
<1>1. ASSUME NEW p \in Procs, Begin(p) PROVE TypeOK'
  <2>1. PICK r \in Requests : /\ job' = [job EXCEPT ![p] = r] /\ Goto(p, First(r.kind))
                              /\ todo' = [todo EXCEPT ![p] = IF r.kind = "migrate" THEN Legacy
                                                             ELSE {}]
        BY <1>1 DEF Begin
  <2>2. r \in Jobs /\ First(r.kind) \in Stages
        BY DEF First
  <2>3. job' \in [Procs -> Jobs \cup {None}] /\ job'[p] \in Jobs /\ pc' \in [Procs -> Stages]
        BY <2>1, <2>2
  <2>4. todo' \in [Procs -> SUBSET Ids]
        BY <2>1 DEF Legacy
  <2>. QED
       BY <1>1, <2>1, <2>3, <2>4 DEF Begin
<1>2. ASSUME NEW p \in Procs, Load(p) PROVE TypeOK'
      BY <1>2 DEF Load
<1>3. ASSUME NEW p \in Procs, Migrate(p) PROVE TypeOK'
  <2>1. UNCHANGED <<files, begun, removed, listing, seen, turn, batch, history>>
        BY <1>3 DEF Migrate
  <2>. QED
       BY <1>3, <2>1, MigrateEffect
<1>4. ASSUME NEW p \in Procs, Truncate(p) PROVE TypeOK'
  <2>1. [at |-> clock + 1, text |-> Torn] \in Entry /\ job[p] \in Jobs /\ job[p].id \in Ids
        BY <1>4 DEF Truncate, Entry, Jobs
  <2>. QED
       BY <1>4, <2>1 DEF Truncate, Stamped
<1>5. ASSUME NEW p \in Procs, Write(p) PROVE TypeOK'
  <2>1. [at |-> clock + 1, text |-> job[p].text] \in Entry /\ job[p] \in Jobs /\ job[p].id \in Ids
        BY <1>5 DEF Write, Entry, Jobs
  <2>. QED
       BY <1>5, <2>1 DEF Write, Stamped
<1>6. ASSUME NEW p \in Procs, Scan(p) PROVE TypeOK'
      BY <1>6 DEF Scan, Listed, Newest, Present
<1>7. ASSUME NEW p \in Procs, Replace(p) PROVE TypeOK'
      BY <1>7 DEF Replace, Return, Back
<1>8. ASSUME NEW p \in Procs, Look(p) \/ Unlink(p) PROVE TypeOK'
  <2>1. [at |-> 0, text |-> None] \in Entry
        BY DEF Entry
  <2>2. job[p] \in Jobs /\ job[p].id \in Ids
        BY <1>8 DEF Look, Unlink, Jobs
  <2>3. CASE Look(p)
        BY <2>3 DEF Look
  <2>4. CASE Unlink(p)
        BY <2>1, <2>2, <2>4 DEF Unlink
  <2>. QED
       BY <1>8, <2>3, <2>4
<1>9. ASSUME NEW p \in Procs, LookJson(p) \/ UnlinkJson(p) PROVE TypeOK'
      BY <1>9 DEF LookJson, UnlinkJson, Return, Back
<1>10. ASSUME NEW p \in Procs, UnlinkRaces(p) PROVE TypeOK'
       BY <1>10 DEF UnlinkRaces, Return, Back
<1>11. ASSUME NEW p \in Procs, ListHeaders(p) \/ ReadEntries(p) PROVE TypeOK'
       BY <1>11 DEF ListHeaders, ReadEntries
<1>18. ASSUME NEW p \in Procs, Plan(p) PROVE TypeOK'
  <2>1. PICK order \in Orders(p) : todo' = [todo EXCEPT ![p] = Doomed(p, order)]
        BY <1>18 DEF Plan
  <2>2. Doomed(p, order) \subseteq Ids
        BY DEF Doomed, Known, AsRead, Headed, Legacy
  <2>. QED
       BY <1>18, <2>1, <2>2 DEF Plan
<1>12. ASSUME NEW p \in Procs, Purge(p) PROVE TypeOK'
  <2>1. job[p] \in Jobs /\ job \in [Procs -> Jobs \cup {None}]
        BY <1>12 DEF Purge
  <2>2. CASE todo[p] = {} /\ Goto(p, "idle") /\ UNCHANGED <<job, removed, todo>>
        BY <1>12, <2>2 DEF Purge
  <2>3. ASSUME NEW i \in todo[p], todo' = [todo EXCEPT ![p] = @ \ {i}],
               job' = [job EXCEPT ![p].id = i], removed' = [removed EXCEPT ![p] = FALSE],
               Goto(p, "look")
        PROVE  TypeOK'
    <3>1. i \in Ids /\ [job[p] EXCEPT !.id = i] \in Jobs /\ todo' \in [Procs -> SUBSET Ids]
          BY <2>1, <2>3 DEF Jobs
    <3>2. job' = [job EXCEPT ![p] = [job[p] EXCEPT !.id = i]]
          BY <2>1, <2>3
    <3>3. job' \in [Procs -> Jobs \cup {None}] /\ job'[p] \in Jobs
          BY <2>1, <3>1, <3>2
    <3>4. UNCHANGED <<files, begun, listing, seen, turn, batch, history>>
          BY <1>12 DEF Purge
    <3>. QED
         BY <2>3, <3>1, <3>2, <3>3, <3>4
  <2>. QED
       BY <1>12, <2>2, <2>3 DEF Purge
<1>13. ASSUME NEW p \in Procs, Ask(p) PROVE TypeOK'
       BY <1>13 DEF Ask
<1>14. ASSUME NEW p \in Procs, Dispatch(p) PROVE TypeOK'
  <2>2. ASSUME NEW r \in Requests, job' = [job EXCEPT ![p].id = r.id, ![p].text = r.text]
        PROVE  job' \in [Procs -> Jobs \cup {None}] /\ job'[p] \in Jobs
    <3>1. r.id \in Ids /\ r.text \in Texts
          BY DEF Jobs
    <3>. QED
         BY <1>14, <2>2, <3>1, Rewritten DEF Dispatch
  <2>3. job' \in [Procs -> Jobs \cup {None}]
        BY <1>14, <2>2 DEF Dispatch
  <2>4. pc[p] = "dispatch" /\ job[p] \in Jobs
        BY <1>14 DEF Dispatch
  <2>5. job'[p] \in Jobs /\ \A q \in Procs \ {p} : job'[q] = job[q]
        BY <1>14, <2>2, <2>4 DEF Dispatch
  <2>6. batch' \in [Procs -> Nat]
        BY <1>14 DEF Dispatch
  <2>7. \E s \in Stages : pc' = [pc EXCEPT ![p] = s]
        BY <1>14 DEF Dispatch
  <2>8. UNCHANGED <<files, begun, removed, todo, listing, seen, turn, history>>
        BY <1>14 DEF Dispatch
  <2>. QED
       BY <2>3, <2>4, <2>5, <2>6, <2>7, <2>8
<1>15. ASSUME NEW p \in Procs, Fails(p) PROVE TypeOK'
       BY <1>15 DEF Fails, Return, Back
<1>16. ASSUME NEW p \in Procs, Dies(p) PROVE TypeOK'
       BY <1>16 DEF Dies
<1>17. CASE Rest \/ UNCHANGED vars
       BY <1>17 DEF Rest, vars
<1>. QED
     BY <1>1, <1>2, <1>3, <1>4, <1>5, <1>6, <1>7, <1>8, <1>9, <1>10, <1>11, <1>12, <1>13,
        <1>14, <1>15, <1>16, <1>17, <1>18 DEF Next, Step

LEMMA TypeInit == Init => TypeOK
<1> SUFFICES ASSUME Init PROVE TypeOK
    OBVIOUS
<1>1. md \in [Ids -> Entry] /\ json \in [Ids -> Texts \cup {None}] /\ clock \in Nat
      BY Begins DEF Init
<1>2. manifest \subseteq Ids /\ superseded \subseteq Ids
      BY DEF Init, Listed, Newest, Present, Legacy
<1>. QED
     BY <1>1, <1>2 DEF Init, TypeOK, SeenTypeOK, Stages, Nothing

\* The type invariant of MemoryStore, for any number of processes and entries.
THEOREM TypeCorrect == Spec => []TypeOK
<1>1. Init => TypeOK
      BY TypeInit
<1>2. TypeOK /\ [Next]_vars => TypeOK'
      BY TypeInductive
<1>. QED
     BY <1>1, <1>2, PTL DEF Spec

-----------------------------------------------------------------------------
(* The manifest *)

\* What the manifest ought to list depends on the .md files alone.
LEMMA ListedKept == UNCHANGED md => Listed' = Listed
<1> DEFINE There(m) == {i \in Ids : m[i].text # None}
           Times(m) == [i \in Ids |-> m[i].at]
<1>1. /\ Listed = Newest(Times(md), There(md), MaxLines)
      /\ Listed' = Newest(Times(md'), There(md'), MaxLines)
      BY DEF Listed, Present, Newest
<1>. QED
     BY <1>1

LEMMA ManifestInductive ==
    ASSUME TypeOK, ManifestInv, [Next]_vars
    PROVE  ManifestInv'
<1> USE Names
<1> USE DEF TypeOK, ManifestInv, Mid, Active, Others, Stages, SaveStages, DeleteStages,
            Goto, files, seen, locals, history
<1>1. ASSUME NEW p \in Procs, Begin(p) PROVE ManifestInv'
  <2>1. /\ UNCHANGED <<md, manifest, listing>> /\ removed' = [removed EXCEPT ![p] = FALSE]
        /\ pc[p] = "idle" /\ solo' = IF Others(p) THEN None ELSE p
        /\ tainted' = (tainted \/ Others(p))
        BY <1>1 DEF Begin
  <2>2. PICK s \in {"truncate", "look", "load", "migrate", "headers", "ask"} : pc' = [pc EXCEPT ![p] = s]
        BY <1>1 DEF Begin, First
  <2>3. CASE Others(p)
    <3>1. tainted' /\ solo' \notin Procs
          BY <2>1, <2>3
    <3>. QED
         BY <3>1
  <2>4. CASE ~Others(p)
        BY <2>1, <2>2, <2>4, ListedKept
  <2>. QED
       BY <2>3, <2>4
<1>2. ASSUME NEW p \in Procs, Load(p) PROVE ManifestInv'
      BY <1>2, ListedKept DEF Load
<1>12. ASSUME NEW p \in Procs, Migrate(p) PROVE ManifestInv'
  <2>1. UNCHANGED <<md, manifest, removed, listing, solo, tainted>>
        BY <1>12 DEF Migrate
  <2>. QED
       BY <1>12, <2>1, MigrateEffect, ListedKept
<1>3. ASSUME NEW p \in Procs, Truncate(p) \/ Write(p) PROVE ManifestInv'
      BY <1>3, ZenonT(60) DEF Truncate, Write, Stamped
<1>4. ASSUME NEW p \in Procs, Scan(p) PROVE ManifestInv'
      BY <1>4, ListedKept DEF Scan
<1>5. ASSUME NEW p \in Procs, Replace(p) PROVE ManifestInv'
      BY <1>5, ListedKept DEF Replace, Return, Back
<1>6. ASSUME NEW p \in Procs, Look(p) \/ LookJson(p) \/ UnlinkJson(p) \/ UnlinkRaces(p)
      PROVE  ManifestInv'
      BY <1>6, ListedKept DEF Look, LookJson, UnlinkJson, UnlinkRaces, Return, Back
<1>7. ASSUME NEW p \in Procs, Unlink(p) PROVE ManifestInv'
      BY <1>7 DEF Unlink
<1>8. ASSUME NEW p \in Procs, ListHeaders(p) \/ ReadEntries(p) \/ Plan(p) \/ Purge(p)
      PROVE  ManifestInv'
      BY <1>8, ListedKept DEF ListHeaders, ReadEntries, Plan, Purge
<1>9. ASSUME NEW p \in Procs, Ask(p) \/ Dispatch(p) PROVE ManifestInv'
      BY <1>9, ListedKept DEF Ask, Dispatch
<1>10. ASSUME NEW p \in Procs, Fails(p) \/ Dies(p) PROVE ManifestInv'
       BY <1>10, ListedKept DEF Fails, Dies, Return, Back
<1>11. CASE Rest \/ UNCHANGED vars
       BY <1>11, ListedKept DEF Rest, vars
<1>. QED
     BY <1>1, <1>2, <1>3, <1>4, <1>5, <1>6, <1>7, <1>8, <1>9, <1>10, <1>11, <1>12
        DEF Next, Step

\* At rest MEMORY.md is the listing of the directory, unless operations overlapped,
\* broke off or migrated since one last ran alone to its end.
THEOREM ManifestIsTrue == Spec => []ManifestTellsEntries
<1>1. Init => ManifestInv
      BY Names DEF Init, ManifestInv, Active, Mid
<1>2. TypeOK /\ ManifestInv /\ [Next]_vars => ManifestInv'
      BY ManifestInductive
<1>3. ManifestInv => ManifestTellsEntries
      BY DEF ManifestInv, ManifestTellsEntries, Quiet, Active, Mid
<1>. QED
     BY <1>1, <1>2, <1>3, TypeCorrect, PTL DEF Spec

-----------------------------------------------------------------------------
(* Old texts *)

LEMMA LegacyInductive ==
    ASSUME TypeOK, LegacyInv, [Next]_vars
    PROVE  LegacyInv'
<1> USE Names
<1> USE DEF TypeOK, LegacyInv, Legacy, Present, Goto, files, seen, locals, history
<1>1. ASSUME NEW p \in Procs, Begin(p) PROVE LegacyInv'
      BY <1>1 DEF Begin, First
<1>2. ASSUME NEW p \in Procs, Load(p) PROVE LegacyInv'
      BY <1>2 DEF Load
<1>11. ASSUME NEW p \in Procs, Migrate(p) PROVE LegacyInv'
  <2>1. UNCHANGED <<md, json, superseded, broken>>
        BY <1>11 DEF Migrate
  <2>. QED
       BY <1>11, <2>1, MigrateEffect
<1>3. ASSUME NEW p \in Procs, Truncate(p) \/ Write(p) PROVE LegacyInv'
      BY <1>3, SMTT(30) DEF Truncate, Write, Stamped, Entry, Jobs
<1>4. ASSUME NEW p \in Procs, Scan(p) \/ Replace(p) PROVE LegacyInv'
      BY <1>4 DEF Scan, Replace, Return, Back
<1>5. ASSUME NEW p \in Procs, Look(p) \/ Unlink(p) PROVE LegacyInv'
      BY <1>5 DEF Look, Unlink
<1>6. ASSUME NEW p \in Procs, LookJson(p) \/ UnlinkJson(p) \/ UnlinkRaces(p) PROVE LegacyInv'
      BY <1>6 DEF LookJson, UnlinkJson, UnlinkRaces, Return, Back
<1>7. ASSUME NEW p \in Procs, ListHeaders(p) \/ ReadEntries(p) \/ Plan(p) \/ Purge(p)
      PROVE  LegacyInv'
      BY <1>7 DEF ListHeaders, ReadEntries, Plan, Purge
<1>8. ASSUME NEW p \in Procs, Ask(p) PROVE LegacyInv'
      BY <1>8 DEF Ask
<1>12. ASSUME NEW p \in Procs, Dispatch(p) PROVE LegacyInv'
  <2>1. /\ \E s \in Stages : pc' = [pc EXCEPT ![p] = s]
        /\ UNCHANGED <<md, json, superseded, broken>>
        /\ pc[p] = "dispatch"
        BY <1>12 DEF Dispatch, Stages, SaveStages
  <2>2. \A q \in Procs \ {p} : job'[q] = job[q]
        BY <1>12, ZenonT(60) DEF Dispatch
  <2>. QED
       BY <2>1, <2>2
<1>9. ASSUME NEW p \in Procs, Fails(p) \/ Dies(p) PROVE LegacyInv'
      BY <1>9 DEF Fails, Dies
<1>10. CASE Rest \/ UNCHANGED vars
       BY <1>10 DEF Rest, vars
<1>. QED
     BY <1>1, <1>2, <1>3, <1>4, <1>5, <1>6, <1>7, <1>8, <1>9, <1>10, <1>11, <1>12
        DEF Next, Step

\* A legacy file is gone at rest once its entry has been rewritten and deleted: the
\* delete that takes the .md away is on its way to the .json until that is gone.
THEOREM OldTextsStayDead == Spec => []SupersededStaysDead
<1>1. Init => LegacyInv
      BY DEF Init, LegacyInv
<1>2. TypeOK /\ LegacyInv /\ [Next]_vars => LegacyInv'
      BY LegacyInductive
<1>3. LegacyInv => SupersededStaysDead
      BY DEF LegacyInv, SupersededStaysDead, Quiet, Active
<1>. QED
     BY <1>1, <1>2, <1>3, TypeCorrect, PTL DEF Spec

-----------------------------------------------------------------------------
(* What a dream decides to delete *)

\* A finite set has an element with no greater one, in whatever order R is.
LEMMA GreatestExists ==
    ASSUME NEW S, IsFiniteSet(S), S # {}, NEW R,
           \A x \in S : <<x, x>> \notin R,
           \A x, y, z \in S : <<x, y>> \in R /\ <<y, z>> \in R => <<x, z>> \in R
    PROVE  \E m \in S : \A x \in S : <<m, x>> \notin R
<1> DEFINE Above(x) == {y \in S : <<x, y>> \in R}
           N == {Cardinality(Above(x)) : x \in S}
<1>1. \A x \in S : Above(x) \in SUBSET S /\ IsFiniteSet(Above(x)) /\ Cardinality(Above(x)) \in Nat
  <2> TAKE x \in S
  <2>1. Above(x) \in SUBSET S
        OBVIOUS
  <2>. HIDE DEF Above
  <2>. QED
       BY <2>1, FS_Subset, FS_CardinalityType
<1>. HIDE DEF Above
<1>2. N \subseteq Nat /\ N # {}
      BY <1>1
<1>3. PICK n \in N : \A y \in N : n <= y
      BY <1>2, Numbers!LeastNumber
<1>4. PICK m \in S : n = Cardinality(Above(m))
      BY <1>3
<1>5. ASSUME NEW x \in S, <<m, x>> \in R PROVE FALSE
  <2>1. Above(x) \in SUBSET Above(m) /\ x \in Above(m) /\ x \notin Above(x)
        BY <1>5 DEF Above
  <2>2. Cardinality(Above(m)) <= Cardinality(Above(x))
        BY <1>3, <1>4, <1>5
  <2>3. Cardinality(Above(x)) <= Cardinality(Above(m)) /\ Cardinality(Above(x)) # Cardinality(Above(m))
        BY <1>1, <2>1, FS_Subset
  <2>. QED
       BY <1>1, <1>5, <2>2, <2>3
<1>. QED
     BY <1>5

\* What is cut off has n newer ones that are not, when the times are numbers.
LEMMA NewerAreKept ==
    ASSUME NEW at, NEW S, S \subseteq Ids, \A x \in S : at[x] \in Nat, NEW n \in Nat,
           NEW i \in S \ Newest(at, S, n)
    PROVE  Cardinality({j \in Newest(at, S, n) : at[j] > at[i]}) >= n
<1> DEFINE Newer(x) == {j \in S : at[j] > at[x]}
           kept == Newest(at, S, n)
           cut == {x \in Newer(i) \cup {i} : x \notin kept}
           R == {r \in Ids \X Ids : at[r[2]] > at[r[1]]}
<1>1. IsFiniteSet(S) /\ \A x \in S : at[x] \in Nat
      BY Finite, FS_Subset
<1>2. \A x \in S : IsFiniteSet(Newer(x)) /\ Cardinality(Newer(x)) \in Nat
  <2> TAKE x \in S
  <2>1. Newer(x) \in SUBSET S
        OBVIOUS
  <2>. HIDE DEF Newer
  <2>. QED
       BY <1>1, <2>1, FS_Subset, FS_CardinalityType
<1>3. \E x \in cut : \A y \in cut : <<x, y>> \notin R
  <2>1. cut \in SUBSET S /\ cut # {}
        OBVIOUS
  <2>2. IsFiniteSet(cut)
        BY <1>1, <2>1, FS_Subset
  <2>3. /\ \A x \in cut : <<x, x>> \notin R
        /\ \A x, y, z \in cut : <<x, y>> \in R /\ <<y, z>> \in R => <<x, z>> \in R
        BY <1>1, <2>1
  <2>. HIDE DEF cut, R
  <2>. QED
       BY <2>1, <2>2, <2>3, GreatestExists
<1>4. PICK x \in cut : \A y \in cut : <<x, y>> \notin R
      BY <1>3
<1>5. x \in S /\ x \notin kept /\ at[x] >= at[i]
      BY <1>1
<1>6. Cardinality(Newer(x)) >= n
      BY <1>2, <1>5 DEF Newest
<1>7. Newer(x) \subseteq {j \in kept : at[j] > at[i]}
  <2> SUFFICES ASSUME NEW y \in S, at[y] > at[x]
               PROVE  y \in kept /\ at[y] > at[i]
      OBVIOUS
  <2>1. at[y] > at[i]
        BY <1>1, <1>5
  <2>2. <<x, y>> \in R
        BY <1>5
  <2>3. y \notin cut
        BY <1>4, <2>2
  <2>. QED
       BY <2>1, <2>3
<1>8. /\ IsFiniteSet({j \in kept : at[j] > at[i]})
      /\ Cardinality({j \in kept : at[j] > at[i]}) \in Nat
  <2>1. {j \in kept : at[j] > at[i]} \in SUBSET S
        BY DEF Newest
  <2>. HIDE DEF kept
  <2>. QED
       BY <1>1, <2>1, FS_Subset, FS_CardinalityType
<1>9. Cardinality(Newer(x)) <= Cardinality({j \in kept : at[j] > at[i]})
  <2>. HIDE DEF kept, Newer
  <2>. QED
       BY <1>7, <1>8, FS_Subset
<1>. QED
     BY <1>2, <1>5, <1>6, <1>8, <1>9

\* f is what step makes of base, one number after the other.
Iterates(f, n, D, base, step) ==
    /\ f \in [0..n -> D]
    /\ \A k \in 0..n : f[k] = IF k = 0 THEN base ELSE step[k][f[k - 1]]

LEMMA RecursionExists ==
    ASSUME NEW D, NEW base \in D, NEW step \in [Nat -> [D -> D]], NEW n \in Nat
    PROVE  \E f : Iterates(f, n, D, base, step)
<1> DEFINE Runs(f, m) == Iterates(f, m, D, base, step)
           S == {m \in Nat : \E f : Runs(f, m)}
<1>. USE DEF Iterates
<1>1. 0 \in S
  <2>1. Runs([k \in 0..0 |-> base], 0)
        OBVIOUS
  <2>. QED
       BY <2>1
<1>2. ASSUME NEW m \in Nat, m \in S PROVE m + 1 \in S
  <2>1. PICK f : Runs(f, m)
        BY <1>2
  <2> DEFINE g == [k \in 0..(m + 1) |-> IF k = m + 1 THEN step[k][f[m]] ELSE f[k]]
  <2>2. f[m] \in D /\ m + 1 \in Nat
        BY <2>1
  <2>3. \A k \in 0..m : g[k] = f[k] /\ f[k] \in D
        BY <2>1
  <2>4. g[m + 1] = step[m + 1][f[m]] /\ g[m + 1] \in D
        BY <2>2
  <2>5. g = [k \in 0..(m + 1) |-> g[k]]
        OBVIOUS
  <2>. HIDE DEF g
  <2>6. \A k \in 0..(m + 1) : k \in 0..m \/ k = m + 1
        OBVIOUS
  <2>7. g \in [0..(m + 1) -> D]
        BY <2>3, <2>4, <2>5, <2>6
  <2>8. \A k \in 0..(m + 1) : g[k] = IF k = 0 THEN base ELSE step[k][g[k - 1]]
    <3> TAKE k \in 0..(m + 1)
    <3>1. CASE k \in 0..m
      <4>1. k = 0 \/ k - 1 \in 0..m
            BY <3>1
      <4>2. g[k] = f[k] /\ (k # 0 => g[k - 1] = f[k - 1])
            BY <2>3, <3>1, <4>1
      <4>. QED
           BY <2>1, <3>1, <4>2
    <3>2. CASE k = m + 1
          BY <2>3, <2>4, <3>2
    <3>. QED
         BY <2>6, <3>1, <3>2
  <2>. QED
       BY <2>7, <2>8
<1>. HIDE DEF S
<1>3. Nat \subseteq S
      BY <1>1, <1>2, Numbers!SetInduction
<1>. QED
     BY <1>3 DEF S

\* Times are numbers, that of a legacy entry too.
LEMMA Times ==
    ASSUME TypeOK, NEW p \in Procs, NEW k \in Ids
    PROVE  TimeOf(p, k) \in Nat
BY DEF TypeOK, SeenTypeOK, TimeOf, Headed

\* A listing of a set has each of its elements once.
LEMMA SeqsOfSet ==
    ASSUME NEW A, Cardinality(A) \in Nat, NEW s \in SetToSeqs(A)
    PROVE  /\ s \in Seq(A) /\ Len(s) = Cardinality(A)
           /\ \A k, l \in 1..Len(s) : s[k] = s[l] => k = l
<1>1. /\ s \in [1..Cardinality(A) -> A]
      /\ \A k, l \in 1..Cardinality(A) : k # l => s[k] # s[l]
      BY DEF SetToSeqs
<1>. QED
     BY <1>1

\* What is listed is there, and is listed once.
LEMMA OrderShape ==
    ASSUME TypeOK, NEW p \in Procs, NEW order \in Orders(p)
    PROVE  /\ Len(order) \in Nat
           /\ \A k \in 1..Len(order) : order[k] \in Known(p)
           /\ \A k, l \in 1..Len(order) : order[k] = order[l] => k = l
<1>1. PICK a \in SetToSeqs(AsRead(p)), b \in SetToSeqs(Legacy \ AsRead(p)) : order = a \o b
  <2> DEFINE A == SetToSeqs(AsRead(p))
             B == SetToSeqs(Legacy \ AsRead(p))
  <2>1. Orders(p) = {a \o b : a \in A, b \in B}
        BY DEF Orders
  <2>. HIDE DEF A, B
  <2>2. \E a \in A, b \in B : order = a \o b
        BY <2>1
  <2>. QED
       BY <2>2 DEF A, B
<1>2. /\ AsRead(p) \in SUBSET Ids /\ Legacy \ AsRead(p) \in SUBSET Ids
      BY DEF Known, AsRead, Legacy
<1>3. /\ Cardinality(AsRead(p)) \in Nat /\ Cardinality(Legacy \ AsRead(p)) \in Nat
      BY <1>2, Finite, FS_Subset, FS_CardinalityType
<1>4. /\ a \in Seq(AsRead(p)) /\ Len(a) = Cardinality(AsRead(p))
      /\ \A k, l \in 1..Len(a) : a[k] = a[l] => k = l
      BY <1>1, <1>3, SeqsOfSet
<1>5. /\ b \in Seq(Legacy \ AsRead(p)) /\ Len(b) = Cardinality(Legacy \ AsRead(p))
      /\ \A k, l \in 1..Len(b) : b[k] = b[l] => k = l
      BY <1>1, <1>3, SeqsOfSet
<1>6. /\ Len(order) = Len(a) + Len(b)
      /\ \A k \in 1..(Len(a) + Len(b)) : order[k] = IF k <= Len(a) THEN a[k] ELSE b[k - Len(a)]
  <2>1. a \in Seq(Ids) /\ b \in Seq(Ids)
        BY <1>2, <1>4, <1>5
  <2>2. Len(a \o b) = Len(a) + Len(b)
        BY <2>1, ConcatProperties
  <2>3. \A k \in 1..(Len(a) + Len(b)) : (a \o b)[k] = IF k <= Len(a) THEN a[k] ELSE b[k - Len(a)]
        BY <2>1, ConcatProperties
  <2>. QED
       BY <1>1, <2>2, <2>3
<1>7. /\ \A k \in 1..Len(a) : a[k] \in AsRead(p)
      /\ \A k \in 1..Len(b) : b[k] \in Legacy \ AsRead(p)
      BY <1>4, <1>5
<1>8. Len(a) \in Nat /\ Len(b) \in Nat
      BY <1>3, <1>4, <1>5
<1>9. \A k \in 1..Len(order) :
          \/ k \in 1..Len(a) /\ order[k] = a[k] /\ order[k] \in AsRead(p)
          \/ /\ k - Len(a) \in 1..Len(b) /\ order[k] = b[k - Len(a)]
             /\ order[k] \in Legacy \ AsRead(p)
      BY <1>6, <1>7, <1>8
<1>10. ASSUME NEW k \in 1..Len(order), NEW l \in 1..Len(order), order[k] = order[l]
       PROVE  k = l
  <2>1. CASE order[k] \in AsRead(p)
        BY <1>4, <1>9, <1>10, <2>1
  <2>2. CASE order[k] \notin AsRead(p)
    <3>1. k - Len(a) = l - Len(a)
          BY <1>5, <1>9, <1>10, <2>2
    <3>. QED
         BY <1>6, <1>8, <3>1
  <2>. QED
       BY <2>1, <2>2
<1>11. \A k \in 1..Len(order) : order[k] \in Known(p)
       BY <1>9 DEF Known
<1>. QED
     BY <1>6, <1>8, <1>10, <1>11

\* Whatever is dead has a duplicate that is newer, or as old and further behind.
Covered(p, order, dead) ==
    /\ dead \subseteq Known(p)
    /\ \A x \in dead : \E k \in 1..Len(order) : order[k] = x
    /\ \A k \in 1..Len(order) : order[k] \in dead =>
          \E l \in 1..Len(order) :
             /\ Replaces(p, order[k], order[l])
             /\ TimeOf(p, order[k]) = TimeOf(p, order[l]) => k < l

\* One comparison keeps it so: the loser is covered by the other.
LEMMA CompareCovers ==
    ASSUME TypeOK, NEW p \in Procs, NEW order \in Orders(p), NEW dead, Covered(p, order, dead),
           NEW i \in 1..Len(order), NEW j \in 1..Len(order), i < j
    PROVE  Covered(p, order, Compare(p, order, dead, i, j))
<1> DEFINE x == order[i]
           y == order[j]
<1>1. /\ Len(order) \in Nat /\ x \in Known(p) /\ y \in Known(p)
      /\ x # y
      /\ \A k \in 1..Len(order) : (order[k] = x => k = i) /\ (order[k] = y => k = j)
      BY OrderShape
<1>2. TimeOf(p, x) \in Nat /\ TimeOf(p, y) \in Nat
  <2>1. x \in Ids /\ y \in Ids
        BY <1>1 DEF Known, AsRead, Legacy
  <2>. QED
       BY <2>1, Times
<1>3. CASE y \in dead \/ <<TextOf(p, x), TextOf(p, y)>> \notin Alike
      BY <1>3 DEF Compare
<1>4. CASE ~(y \in dead \/ <<TextOf(p, x), TextOf(p, y)>> \notin Alike)
  <2>1. Compare(p, order, dead, i, j) = dead \cup {Loser(p, x, y)}
        BY <1>4 DEF Compare
  <2>2. <<TextOf(p, x), TextOf(p, y)>> \in Alike /\ <<TextOf(p, y), TextOf(p, x)>> \in Alike
        BY <1>4, Mutual
  <2>3. CASE TimeOf(p, x) <= TimeOf(p, y)
    <3>1. Loser(p, x, y) = x /\ Replaces(p, x, y)
          BY <1>1, <2>2, <2>3 DEF Loser, Replaces
    <3>2. \A k \in 1..Len(order) : order[k] = x =>
              Replaces(p, order[k], order[j]) /\ (TimeOf(p, order[k]) = TimeOf(p, order[j]) => k < j)
          BY <1>1, <3>1
    <3>. QED
         BY <1>1, <2>1, <3>1, <3>2 DEF Covered
  <2>4. CASE ~(TimeOf(p, x) <= TimeOf(p, y))
    <3>1. Loser(p, x, y) = y /\ Replaces(p, y, x) /\ TimeOf(p, x) # TimeOf(p, y)
          BY <1>1, <1>2, <2>2, <2>4 DEF Loser, Replaces
    <3>2. \A k \in 1..Len(order) : order[k] = y =>
              Replaces(p, order[k], order[i]) /\ (TimeOf(p, order[k]) = TimeOf(p, order[i]) => k < i)
          BY <1>1, <3>1
    <3>. QED
         BY <1>1, <2>1, <3>1, <3>2 DEF Covered
  <2>. QED
       BY <2>3, <2>4
<1>. QED
     BY <1>3, <1>4

\* One entry against all behind it.
LEMMA CompareRestCovers ==
    ASSUME TypeOK, NEW p \in Procs, NEW order \in Orders(p), NEW dead, Covered(p, order, dead), NEW i \in 1..Len(order)
    PROVE  Covered(p, order, CompareRest(p, order, dead, i))
<1> DEFINE n == Len(order)
           D == SUBSET (Known(p))
           step == [a \in Nat |-> [d \in D |-> IF a <= i THEN dead
                                            ELSE IF a <= n THEN Compare(p, order, d, i, a) ELSE d]]
           Runs(f) == f = [j \in 0..n |-> IF j <= i THEN dead ELSE Compare(p, order, f[j - 1], i, j)]
<1>1. n \in Nat /\ i \in Nat /\ dead \in D
      BY OrderShape DEF Covered
<1>2. \A d \in D : \A j \in 1..n : Compare(p, order, d, i, j) \in D
      BY OrderShape DEF Compare, Loser
<1>3. step \in [Nat -> [D -> D]]
      BY <1>1, <1>2
<1>4. \E f : Runs(f)
  <2>1. PICK f \in [0..n -> D] :
            \A k \in 0..n : f[k] = IF k = 0 THEN dead ELSE step[k][f[k - 1]]
    <3>1. \E f : Iterates(f, n, D, dead, step)
      <4>. HIDE DEF step, n, D
      <4>. QED
           BY <1>1, <1>3, RecursionExists
    <3>. QED
         BY <3>1, Zenon DEF Iterates
  <2>2. \A k \in 0..n : f[k] = IF k <= i THEN dead ELSE Compare(p, order, f[k - 1], i, k)
    <3> TAKE k \in 0..n
    <3>1. CASE k = 0
      <4>1. 0 <= i /\ f[0] = dead
        <5>. HIDE DEF step, D
        <5>. QED
             BY <1>1, <2>1, <3>1
      <4>. QED
           BY <3>1, <4>1
    <3>2. CASE k # 0
      <4>1. k \in Nat /\ k - 1 \in 0..n /\ f[k - 1] \in D
            BY <1>1, <2>1, <3>2
      <4>2. f[k] = step[k][f[k - 1]]
            BY <2>1, <3>2
      <4>3. k \in Nat /\ f[k - 1] \in D /\ k <= n
            BY <1>1, <4>1
      <4>. HIDE DEF D
      <4>. QED
           BY <4>2, <4>3
    <3>. QED
         BY <3>1, <3>2
  <2>3. Runs(f)
        BY <2>1, <2>2
  <2>. QED
       BY <2>3
<1> DEFINE f == CHOOSE g : Runs(g)
<1>5. Runs(f)
      BY <1>4, Zenon
<1>6. CompareRest(p, order, dead, i) = IF order[i] \in dead THEN dead ELSE f[n]
      BY Zenon DEF CompareRest
<1>. HIDE DEF f
<1>7. \A j \in 0..n : f[j] = IF j <= i THEN dead ELSE Compare(p, order, f[j - 1], i, j)
      BY <1>5
<1> DEFINE S == {j \in Nat : j <= n => Covered(p, order, f[j])}
<1>8. 0 \in S
      BY <1>1, <1>7
<1>9. ASSUME NEW j \in Nat, j \in S PROVE j + 1 \in S
  <2> SUFFICES ASSUME j + 1 <= n PROVE Covered(p, order, f[j + 1])
      OBVIOUS
  <2>1. Covered(p, order, f[j]) /\ j + 1 \in 0..n /\ (j + 1) - 1 = j /\ j + 1 \in 1..n
        BY <1>1, <1>9
  <2>2. f[j + 1] = IF j + 1 <= i THEN dead ELSE Compare(p, order, f[j], i, j + 1)
        BY <1>7, <2>1
  <2>3. CASE j + 1 <= i
        BY <2>2, <2>3
  <2>4. CASE ~(j + 1 <= i)
    <3>1. i < j + 1
          BY <1>1, <2>4
    <3>. QED
         BY <2>1, <2>2, <2>4, <3>1, CompareCovers
  <2>. QED
       BY <2>3, <2>4
<1>. HIDE DEF S
<1>10. Nat \subseteq S
       BY <1>8, <1>9, Numbers!SetInduction
<1>11. Covered(p, order, f[n])
       BY <1>1, <1>10 DEF S
<1>. QED
     BY <1>6, <1>11

\* So it is when all have been compared.
LEMMA TwinsAreCovered ==
    ASSUME TypeOK, NEW p \in Procs, NEW order \in Orders(p)
    PROVE  Covered(p, order, Twins(p, order))
<1> DEFINE n == Len(order)
           D == SUBSET (Known(p))
           step == [a \in Nat |-> [d \in D |->
                       IF a \in 1..n /\ Covered(p, order, d) THEN CompareRest(p, order, d, a) ELSE {}]]
           Runs(f) == f = [i \in 0..n |-> IF i = 0 THEN {} ELSE CompareRest(p, order, f[i - 1], i)]
<1>1. n \in Nat /\ {} \in D
      BY OrderShape
<1>2. Covered(p, order, {})
      BY DEF Covered
<1>3. \A d \in D : \A i \in 1..n : Covered(p, order, d) => Covered(p, order, CompareRest(p, order, d, i))
      BY CompareRestCovers
<1>4. step \in [Nat -> [D -> D]]
  <2>1. \A d \in D : \A i \in 1..n : Covered(p, order, d) => CompareRest(p, order, d, i) \in D
        BY <1>3 DEF Covered
  <2>. QED
       BY <2>1
<1>5. PICK g \in [0..n -> D] :
          \A k \in 0..n : g[k] = IF k = 0 THEN {} ELSE step[k][g[k - 1]]
  <2>1. \E g : Iterates(g, n, D, {}, step)
    <3>. HIDE DEF step, n, D
    <3>. QED
         BY <1>1, <1>4, RecursionExists
  <2>. QED
       BY <2>1, Zenon DEF Iterates
<1> DEFINE S == {k \in Nat : k <= n => Covered(p, order, g[k])}
<1>6. 0 \in S
  <2>1. g[0] = {}
    <3>. HIDE DEF step, D
    <3>. QED
         BY <1>1, <1>5
  <2>. QED
       BY <1>2, <2>1
<1>7. ASSUME NEW k \in Nat, Covered(p, order, g[k]), k + 1 <= n
      PROVE  g[k + 1] = CompareRest(p, order, g[k], k + 1)
  <2>1. k + 1 \in 0..n /\ k + 1 # 0 /\ (k + 1) - 1 = k /\ k + 1 \in 1..n /\ g[k] \in D
        BY <1>1, <1>5, <1>7
  <2>2. g[k + 1] = step[k + 1][g[k]] /\ k + 1 \in Nat
    <3>. HIDE DEF step, D
    <3>. QED
         BY <1>5, <2>1
  <2>. HIDE DEF D
  <2>. QED
       BY <1>7, <2>1, <2>2
<1>8. ASSUME NEW k \in Nat, k \in S PROVE k + 1 \in S
  <2> SUFFICES ASSUME k + 1 <= n PROVE Covered(p, order, g[k + 1])
      OBVIOUS
  <2>1. Covered(p, order, g[k]) /\ g[k] \in D /\ k + 1 \in 1..n
        BY <1>1, <1>5, <1>8
  <2>. QED
       BY <1>3, <1>7, <2>1
<1>. HIDE DEF S
<1>9. Nat \subseteq S
      BY <1>6, <1>8, Numbers!SetInduction
<1>10. \A k \in 0..n : Covered(p, order, g[k])
       BY <1>1, <1>9 DEF S
<1>11. \A k \in 0..n : g[k] = IF k = 0 THEN {} ELSE CompareRest(p, order, g[k - 1], k)
  <2> TAKE k \in 0..n
  <2>1. CASE k = 0
        BY <1>5, <2>1
  <2>2. CASE k # 0
    <3>1. k - 1 \in Nat /\ k - 1 \in 0..n /\ (k - 1) + 1 = k /\ (k - 1) + 1 <= n
          BY <1>1, <2>2
    <3>. QED
         BY <1>7, <1>10, <2>2, <3>1
  <2>. QED
       BY <2>1, <2>2
<1>12. Runs(g)
       BY <1>5, <1>11
<1> DEFINE f == CHOOSE h : Runs(h)
<1>13. Runs(f)
       BY <1>12, Zenon
<1>14. Twins(p, order) = f[n]
       BY Zenon DEF Twins
<1>. HIDE DEF f
<1>15. \A k \in 0..n : f[k] = IF k = 0 THEN {} ELSE CompareRest(p, order, f[k - 1], k)
       BY <1>13
<1> DEFINE T == {k \in Nat : k <= n => f[k] = g[k]}
<1>16. 0 \in T
  <2>1. 0 \in 0..n /\ f[0] = {} /\ g[0] = {}
        BY <1>1, <1>11, <1>15
  <2>. QED
       BY <2>1
<1>17. ASSUME NEW k \in Nat, k \in T PROVE k + 1 \in T
  <2> SUFFICES ASSUME k + 1 <= n PROVE f[k + 1] = g[k + 1]
      OBVIOUS
  <2>1. f[k] = g[k] /\ k + 1 \in 0..n /\ (k + 1) - 1 = k /\ k + 1 # 0
        BY <1>1, <1>17
  <2>. QED
       BY <1>11, <1>15, <2>1
<1>. HIDE DEF T
<1>18. Nat \subseteq T
       BY <1>16, <1>17, Numbers!SetInduction
<1>19. f[n] = g[n]
       BY <1>1, <1>18 DEF T
<1>. QED
     BY <1>1, <1>10, <1>14, <1>19

\* An entry leads to itself, and with an entry to whatever may stand for it.
LEMMA LeadsOn ==
    ASSUME NEW p, NEW i \in Known(p)
    PROVE  /\ i \in Leads(p, i) /\ Leads(p, i) \subseteq Known(p)
           /\ \A k \in Leads(p, i), l \in Known(p) : Replaces(p, k, l) => l \in Leads(p, i)
<1> DEFINE K == Known(p)
           Closed(S) == i \in S /\ \A x \in S, y \in K : Replaces(p, x, y) => y \in S
<1>1. Leads(p, i) = {k \in K : \A S \in SUBSET K : Closed(S) => k \in S}
      BY DEF Leads
<1>2. ASSUME NEW k \in Leads(p, i), NEW l \in K, Replaces(p, k, l) PROVE l \in Leads(p, i)
  <2>1. ASSUME NEW S \in SUBSET K, Closed(S) PROVE l \in S
    <3>1. k \in S
          BY <1>1, <2>1
    <3>. QED
         BY <1>2, <2>1, <3>1
  <2>. QED
       BY <1>1, <2>1
<1>. QED
     BY <1>1, <1>2

\* Nothing an entry leads to is older.
LEMMA LeadsToNewer ==
    ASSUME TypeOK, NEW p \in Procs, NEW i \in Known(p), NEW k \in Leads(p, i)
    PROVE  TimeOf(p, i) <= TimeOf(p, k)
<1> DEFINE K == Known(p)
           S == {x \in K : TimeOf(p, i) <= TimeOf(p, x)}
<1>1. \A x \in K : TimeOf(p, x) \in Nat
      BY Times DEF Known, AsRead, Legacy
<1>2. i \in S /\ \A x \in S, y \in K : Replaces(p, x, y) => y \in S
      BY <1>1 DEF Replaces
<1>3. k \in S
  <2>1. S \in SUBSET K
        OBVIOUS
  <2>. HIDE DEF S
  <2>. QED
       BY <1>2, <2>1 DEF Leads
<1>. QED
     BY <1>3

\* At the end of a chain of the dead is an entry that is not a dead twin.
LEMMA ChainEnds ==
    ASSUME TypeOK, NEW p \in Procs, NEW order \in Orders(p), NEW i \in Twins(p, order)
    PROVE  \E k \in Leads(p, i) : k \notin Twins(p, order)
<1> DEFINE dead == Twins(p, order)
           n == Len(order)
           S == {k \in 1..n : order[k] \in Leads(p, i)}
           R == {r \in (1..n) \X (1..n) :
                    \/ TimeOf(p, order[r[1]]) < TimeOf(p, order[r[2]])
                    \/ TimeOf(p, order[r[1]]) = TimeOf(p, order[r[2]]) /\ r[1] < r[2]}
<1> SUFFICES ASSUME Leads(p, i) \subseteq dead PROVE FALSE
    OBVIOUS
<1>1. Covered(p, order, dead) /\ i \in Known(p)
      BY TwinsAreCovered DEF Covered
<1>2. /\ n \in Nat /\ \A k \in 1..n : order[k] \in Known(p)
      BY OrderShape
<1>3. \A k \in 1..n : TimeOf(p, order[k]) \in Nat
      BY <1>2, Times DEF Known, AsRead, Legacy
<1>4. ASSUME NEW k \in 1..n, order[k] \in Leads(p, i)
      PROVE  \E l \in 1..n : order[l] \in Leads(p, i) /\ <<k, l>> \in R
  <2>1. PICK l \in 1..n : /\ Replaces(p, order[k], order[l])
                          /\ TimeOf(p, order[k]) = TimeOf(p, order[l]) => k < l
        BY <1>1, <1>4 DEF Covered
  <2>2. order[l] \in Leads(p, i)
        BY <1>1, <1>2, <1>4, <2>1, LeadsOn
  <2>3. TimeOf(p, order[k]) <= TimeOf(p, order[l])
        BY <2>1 DEF Replaces
  <2>4. TimeOf(p, order[k]) < TimeOf(p, order[l]) \/ (TimeOf(p, order[k]) = TimeOf(p, order[l]) /\ k < l)
        BY <1>3, <2>1, <2>3
  <2>5. <<k, l>> \in R
        BY <2>4
  <2>. QED
       BY <2>2, <2>5
<1>5. S # {} /\ IsFiniteSet(S)
  <2>1. S \in SUBSET (1..n) /\ IsFiniteSet(1..n)
        BY <1>2, FS_Interval
  <2>2. IsFiniteSet(S)
    <3>. HIDE DEF S
    <3>. QED
         BY <2>1, FS_Subset
  <2>3. \E k \in 1..n : order[k] = i
        BY <1>1 DEF Covered
  <2>4. i \in Leads(p, i)
        BY <1>1, LeadsOn
  <2>. QED
       BY <2>2, <2>3, <2>4
<1>6. /\ \A x \in S : <<x, x>> \notin R
      /\ \A x, y, z \in S : <<x, y>> \in R /\ <<y, z>> \in R => <<x, z>> \in R
  <2>1. \A x \in S : x \in 1..n /\ x \in Nat /\ TimeOf(p, order[x]) \in Nat
        BY <1>2, <1>3
  <2>2. \A x, y \in S : <<x, y>> \in R <=>
            \/ TimeOf(p, order[x]) < TimeOf(p, order[y])
            \/ TimeOf(p, order[x]) = TimeOf(p, order[y]) /\ x < y
        BY <2>1
  <2>. HIDE DEF R, S
  <2>. QED
       BY <2>1, <2>2
<1>7. \E m \in S : \A x \in S : <<m, x>> \notin R
  <2>. HIDE DEF R, S
  <2>. QED
       BY <1>5, <1>6, GreatestExists
<1>. QED
  <2>. HIDE DEF R
  <2>. QED
       BY <1>4, <1>7

\* So what is deleted leads to an entry that stays, or MaxLines newer ones stay.
LEMMA DoomedAreSpared ==
    ASSUME TypeOK, NEW p \in Procs, NEW order \in Orders(p), NEW i \in Doomed(p, order)
    PROVE  \/ \E k \in Leads(p, i) : k \notin Doomed(p, order) /\ TimeOf(p, i) <= TimeOf(p, k)
           \/ Cardinality({k \in Headed(p) \ Doomed(p, order) : TimeOf(p, k) > TimeOf(p, i)}) >= MaxLines
<1> DEFINE dead == Twins(p, order)
           left == Headed(p) \ dead
           kept == Newest(headers[p], left, MaxLines)
           gone == Doomed(p, order)
           many == {k \in Headed(p) \ gone : TimeOf(p, k) > TimeOf(p, i)}
<1>1. gone = {j \in Known(p) \cup Headed(p) : j \in dead \/ j \in left \ kept}
      BY DEF Doomed
<1>2. /\ \A j \in Headed(p) : TimeOf(p, j) = headers[p][j]
      /\ \A j \in Ids : TimeOf(p, j) \in Nat
      /\ i \in Ids /\ Headed(p) \subseteq Ids
      BY <1>1, Times DEF TimeOf, Known, AsRead, Headed, Legacy
<1>3. ASSUME NEW k \in left \ kept, TimeOf(p, i) <= TimeOf(p, k) PROVE Cardinality(many) >= MaxLines
  <2> DEFINE few == {j \in kept : headers[p][j] > headers[p][k]}
  <2>1. Cardinality(few) >= MaxLines
    <3>1. left \subseteq Ids /\ (\A x \in left : headers[p][x] \in Nat) /\ MaxLines \in Nat
          BY <1>2, Bounds
    <3>. HIDE DEF left
    <3>. QED
         BY <1>3, <3>1, NewerAreKept
  <2>2. kept \subseteq Headed(p) \ gone /\ kept \subseteq left
        BY <1>1 DEF Newest
  <2>3. few \in SUBSET many /\ many \in SUBSET Ids
    <3>1. left \subseteq Headed(p)
          OBVIOUS
    <3>. HIDE DEF kept, gone, left
    <3>. QED
         BY <1>2, <1>3, <2>2, <3>1
  <2>4. IsFiniteSet(many) /\ Cardinality(few) <= Cardinality(many)
        /\ Cardinality(few) \in Nat /\ Cardinality(many) \in Nat
    <3>. HIDE DEF few, many
    <3>. QED
         BY <2>3, Finite, FS_Subset, FS_CardinalityType
  <2>. HIDE DEF few, many
  <2>. QED
       BY <2>1, <2>4, Bounds
<1>4. CASE i \in left \ kept
      BY <1>2, <1>3, <1>4
<1>5. CASE i \in dead
  <2>1. i \in Known(p)
        BY <1>5, TwinsAreCovered DEF Covered
  <2>2. PICK k \in Leads(p, i) : k \notin dead
        BY <1>5, ChainEnds
  <2>3. TimeOf(p, i) <= TimeOf(p, k) /\ k \in Known(p)
        BY <2>1, LeadsOn, LeadsToNewer
  <2>. QED
       BY <1>1, <1>3, <2>2, <2>3
<1>. QED
     BY <1>1, <1>4, <1>5

\* No file is from the future, and none is older than a listing has it.
SeenInv ==
    /\ \A i \in Present : md[i].at <= clock
    /\ \A p \in Procs : \A i \in Headed(p) :
          headers[p][i] <= clock /\ (i \in Present => headers[p][i] <= md[i].at)

LEMMA SeenInductive ==
    ASSUME TypeOK, SeenInv, [Next]_vars
    PROVE  SeenInv'
<1>1. /\ md \in [Ids -> Entry] /\ clock \in Nat /\ SeenTypeOK
      /\ \A i \in Ids : md[i].at \in Nat
      BY DEF TypeOK, Entry
<1>2. ASSUME UNCHANGED <<md, clock, headers>> PROVE SeenInv'
      BY <1>2 DEF SeenInv, Present, Headed
<1>3. ASSUME NEW p \in Procs, NEW t, Stamped(p, t), UNCHANGED headers PROVE SeenInv'
  <2>1. /\ clock' = clock + 1
        /\ \A i \in Ids : md'[i] = md[i] \/ md'[i].at = clock + 1
        BY <1>1, <1>3 DEF Stamped
  <2>2. \A i \in Present' : (i \in Present /\ md'[i] = md[i]) \/ md'[i].at = clock + 1
        BY <2>1 DEF Present
  <2>3. \A q \in Procs : \A i \in Headed(q) : headers[q][i] \in Nat /\ i \in Ids
        BY <1>1 DEF SeenTypeOK, Headed
  <2>4. \A i \in Present' : md'[i].at <= clock'
        BY <1>1, <2>1, <2>2 DEF SeenInv, Present
  <2>5. ASSUME NEW q \in Procs, NEW i \in Headed(q)
        PROVE  headers[q][i] <= clock' /\ (i \in Present' => headers[q][i] <= md'[i].at)
    <3>1. headers[q][i] <= clock /\ headers[q][i] \in Nat
          BY <2>3 DEF SeenInv
    <3>. QED
         BY <1>1, <2>1, <2>2, <3>1 DEF SeenInv
  <2>. QED
       BY <1>3, <2>4, <2>5 DEF SeenInv, Headed
<1>4. ASSUME NEW p \in Procs, Unlink(p) PROVE SeenInv'
  <2>1. /\ UNCHANGED <<clock, headers>>
        /\ \A i \in Ids : md'[i] = md[i] \/ md'[i].text = None
        BY <1>1, <1>4 DEF Unlink, seen
  <2>2. \A i \in Present' : i \in Present /\ md'[i] = md[i]
        BY <2>1 DEF Present
  <2>. QED
       BY <2>1, <2>2 DEF SeenInv, Headed
<1>5. ASSUME NEW p \in Procs, ListHeaders(p) \/ Plan(p) PROVE SeenInv'
  <2>1. UNCHANGED <<md, clock>> /\ Present' = Present
        BY <1>5 DEF ListHeaders, Plan, files, Present
  <2>2. \A q \in Procs : \A i \in Ids :
            \/ headers'[q][i] = headers[q][i]
            \/ headers'[q][i] = None
            \/ i \in Present /\ headers'[q][i] = md[i].at
        BY <1>1, <1>5 DEF ListHeaders, Plan, SeenTypeOK, Nothing
  <2>3. \A i \in Present : md[i].at <= md[i].at
        BY <1>1 DEF Present
  <2>. QED
       BY <2>1, <2>2, <2>3 DEF SeenInv, Headed
<1>6. ASSUME NEW p \in Procs,
             \/ Begin(p) \/ Load(p) \/ Migrate(p) \/ Scan(p) \/ Replace(p) \/ Look(p)
             \/ LookJson(p) \/ UnlinkJson(p) \/ UnlinkRaces(p) \/ ReadEntries(p) \/ Purge(p)
             \/ Ask(p) \/ Dispatch(p) \/ Fails(p) \/ Dies(p)
      PROVE  UNCHANGED <<md, clock, headers>>
      BY <1>6 DEF Begin, Load, Migrate, Scan, Replace, Look, LookJson, UnlinkJson, UnlinkRaces,
                  ReadEntries, Purge, Ask, Dispatch, Fails, Dies, files, seen
<1>7. ASSUME NEW p \in Procs, Truncate(p) \/ Write(p)
      PROVE  UNCHANGED headers /\ \E t : Stamped(p, t)
      BY <1>7 DEF Truncate, Write, seen
<1>8. CASE Rest \/ UNCHANGED vars
      BY <1>2, <1>8 DEF Rest, vars, files, locals, seen
<1>. QED
     BY <1>2, <1>3, <1>4, <1>5, <1>6, <1>7, <1>8 DEF Next, Step

\* Whatever order the directory is listed in, and whatever other processes do between
\* the dream's two listings, it deletes an entry only when one that follows it in its
\* chain of duplicates stays, no older if it is there still, or MaxLines newer ones do.
THEOREM DreamIsSparing == Spec => DreamSpares
<1>1. Init => SeenInv
  <2> SUFFICES ASSUME Init PROVE SeenInv
      OBVIOUS
  <2>1. \A i \in Ids : md[i].at <= clock
        BY Begins DEF Init
  <2>2. \A p \in Procs : Headed(p) = {}
        BY DEF Init, Headed, Nothing
  <2>. QED
       BY <2>1, <2>2 DEF SeenInv, Present
<1>2. TypeOK /\ SeenInv /\ [Next]_vars => SeenInv'
      BY SeenInductive
<1>3. TypeOK /\ SeenInv /\ [Next]_vars =>
          [\A p \in Procs : Plan(p) =>
              \A i \in todo'[p] :
                 \/ \E k \in Leads(p, i) : /\ k \notin todo'[p]
                                           /\ k \in Present => md[k].at >= TimeOf(p, i)
                 \/ Cardinality({k \in Headed(p) \ todo'[p] : TimeOf(p, k) > TimeOf(p, i)}) >= MaxLines]_vars
  <2> SUFFICES ASSUME TypeOK, SeenInv, NEW p \in Procs, Plan(p), NEW i \in todo'[p]
               PROVE  \/ \E k \in Leads(p, i) : /\ k \notin todo'[p]
                                                /\ k \in Present => md[k].at >= TimeOf(p, i)
                      \/ Cardinality({k \in Headed(p) \ todo'[p] : TimeOf(p, k) > TimeOf(p, i)}) >= MaxLines
      OBVIOUS
  <2>1. PICK order \in Orders(p) : todo' = [todo EXCEPT ![p] = Doomed(p, order)]
        BY DEF Plan
  <2>2. todo'[p] = Doomed(p, order)
        BY <2>1 DEF TypeOK
  <2>3. ASSUME NEW k \in Present, TimeOf(p, i) <= TimeOf(p, k) PROVE md[k].at >= TimeOf(p, i)
    <3>1. md[k].at \in Nat /\ TimeOf(p, k) \in Nat /\ TimeOf(p, i) \in Nat
      <4>1. i \in Ids /\ k \in Ids
            BY <2>2 DEF Doomed, Known, AsRead, Headed, Legacy, Present
      <4>. QED
           BY <4>1, Times DEF TypeOK, Entry
    <3>2. TimeOf(p, k) <= md[k].at
          BY <3>1 DEF SeenInv, TimeOf
    <3>. QED
         BY <2>3, <3>1, <3>2
  <2>. QED
       BY <2>2, <2>3, DoomedAreSpared
<1>. QED
     BY <1>1, <1>2, <1>3, TypeCorrect, PTL DEF Spec, DreamSpares
=============================================================================
