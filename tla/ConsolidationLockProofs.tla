----------------------- MODULE ConsolidationLockProofs -----------------------
(****************************************************************************)
(* Proofs about ConsolidationLock, for any set of processes and any times.  *)
(****************************************************************************)
EXTENDS ConsolidationLock, TLAPS

Clean == ~overlap /\ ~overstay

Busy(p) == pc[p] \in Acquiring \cup Releasing

\* Times: no sampled time is in the future, and no file ever has mtime 0.
TimeInv == clock >= 1 /\ \A p \in Procs : now[p] <= clock

\* At most one process is in the middle of taking or giving back the lock.
OneBusy == \A p, q \in Procs : Busy(p) /\ Busy(q) => p = q

\* A process that has written its pid and not yet cleared it owns the file, body
\* and mtime; nobody else is past the freshness test or releasing.
Owns(p) == body = p /\ mtime = heldSince[p] /\ heldSince[p] >= 1

OwnerInv ==
    /\ \A p \in Procs : pc[p] \in Holding \cup {"verify"} => Owns(p)
    /\ \A p, q \in Procs : Holds(p) => pc[q] \notin {"write", "verify"} \cup Releasing
    /\ \A p, q \in Procs : Holds(p) /\ pc[q] = "read" => seen[q] = heldSince[p]

LInv == TypeOK /\ TimeInv /\ (Clean => OneBusy /\ OwnerInv)

-----------------------------------------------------------------------------
\* Every variable keeps its type: no step of consolidate(), of a crash or of the
\* clock leaves the state the code can represent.
LEMMA TypeInductive == TypeOK /\ [Next]_vars => TypeOK'
<1> SUFFICES ASSUME TypeOK, [Next]_vars PROVE TypeOK'
    OBVIOUS
<1> USE EmptyAssumption, TimeAssumption, CallerAssumption
<1> USE DEF TypeOK, Stages, Acquiring, Holding, Releasing, Goto, file, locals, history
<1>1. ASSUME NEW p \in Procs, Start(p) PROVE TypeOK'
      BY <1>1 DEF Start
<1>8. ASSUME NEW p \in Procs, Gate(p) \/ Verify(p) PROVE TypeOK'
      BY <1>8 DEF Gate, Verify
<1>9. ASSUME NEW p \in Procs, Stat(p) PROVE TypeOK'
      BY <1>9 DEF Stat, Others
<1>10. ASSUME NEW p \in Procs, Read(p) PROVE TypeOK'
      BY <1>10 DEF Read, Displaces
<1>2. ASSUME NEW p \in Procs, Write(p) PROVE TypeOK'
      BY <1>2 DEF Write
<1>3. ASSUME NEW p \in Procs, DreamEnds(p) \/ Crash(p) PROVE TypeOK'
      BY <1>3 DEF DreamEnds, Crash
<1>4. ASSUME NEW p \in Procs, RecordClear(p) \/ Unlink(p) \/ RollbackClear(p) PROVE TypeOK'
  <2>1. CASE RecordClear(p)
        BY <2>1 DEF RecordClear, ReleaseOverlaps, Others
  <2>2. CASE Unlink(p)
        BY <2>2 DEF Unlink, ReleaseOverlaps, Others
  <2>3. CASE RollbackClear(p)
        BY <2>3 DEF RollbackClear, ReleaseOverlaps, Others
  <2>. QED
       BY <1>4, <2>1, <2>2, <2>3
<1>5. ASSUME NEW p \in Procs, RecordStamp(p) \/ RollbackStamp(p) PROVE TypeOK'
      BY <1>5 DEF RecordStamp, RollbackStamp, Touch
<1>6. CASE Tick
      BY <1>6 DEF Tick
<1>7. CASE AllOver \/ UNCHANGED vars
      BY <1>7 DEF AllOver, vars
<1>. QED
     BY <1>1, <1>2, <1>3, <1>4, <1>5, <1>6, <1>7, <1>8, <1>9, <1>10 DEF Next, Step

LEMMA LInvInit == Init => LInv
<1> SUFFICES ASSUME Init PROVE LInv
    OBVIOUS
<1>1. TypeOK
      BY TimeAssumption DEF Init, TypeOK, Stages
<1>2. TimeInv
      BY TimeAssumption DEF Init, TimeInv
<1>3. OneBusy /\ OwnerInv
      BY DEF Init, OneBusy, OwnerInv, Busy, Holds, Acquiring, Holding, Releasing
<1>. QED
     BY <1>1, <1>2, <1>3 DEF LInv

\* While the lock is clean, the freshness test is passed only when nobody holds it.
LEMMA ReadPassesOnlyFree ==
    ASSUME LInv, NEW p \in Procs, Read(p), ~Blocked(p), Clean', NEW q \in Procs
    PROVE  ~Holds(q)
<1> SUFFICES ASSUME Holds(q) PROVE FALSE
    OBVIOUS
<1> USE EmptyAssumption, TimeAssumption
<1> USE DEF LInv, TypeOK, TimeInv, Clean, OwnerInv, Owns, Holds, Holding
<1>1. Clean /\ ~Displaces
      BY DEF Read
<1>2. body = q /\ seen[p] = heldSince[q] /\ heldSince[q] >= 1
      BY <1>1 DEF Read
<1>3. clock - heldSince[q] < HolderStale
      BY <1>1, <1>2 DEF Displaces
<1>4. now[p] - seen[p] < HolderStale
      BY <1>2, <1>3
<1>. QED
     BY <1>2, <1>4 DEF Blocked, Fresh, Running

LEMMA LInvInductive == LInv /\ [Next]_vars => LInv'
<1> SUFFICES ASSUME LInv, [Next]_vars PROVE LInv'
    OBVIOUS
<1>1. TypeOK /\ TypeOK'
      BY TypeInductive DEF LInv
<1> USE EmptyAssumption, TimeAssumption, <1>1
<1> USE DEF LInv, TypeOK, TimeInv, Clean, OneBusy, OwnerInv, Busy, Owns, Holds,
            Acquiring, Holding, Releasing, Goto, file, locals, history, Others
<1>2. ASSUME NEW p \in Procs, Start(p) PROVE LInv'
      BY <1>2 DEF Start
<1>3. ASSUME NEW p \in Procs, Gate(p) PROVE LInv'
      BY <1>3 DEF Gate
<1>4. ASSUME NEW p \in Procs, Stat(p) PROVE LInv'
  <2>1. CASE Others(p, Acquiring \cup Releasing)
        BY <1>4, <2>1 DEF Stat
  <2>2. CASE ~Others(p, Acquiring \cup Releasing)
        BY <1>4, <2>2 DEF Stat
  <2>. QED
       BY <2>1, <2>2
<1>5. ASSUME NEW p \in Procs, Read(p) PROVE LInv'
  <2>1. CASE Blocked(p)
        BY <1>5, <2>1 DEF Read
  <2>2. CASE ~Blocked(p)
    <3>1. ASSUME Clean', NEW q \in Procs, Holds(q) PROVE FALSE
          BY <1>5, <2>2, <3>1, ReadPassesOnlyFree
    <3>. QED
         BY <1>5, <2>2, <3>1 DEF Read
  <2>. QED
       BY <2>1, <2>2
<1>6. ASSUME NEW p \in Procs, Write(p) PROVE LInv'
      BY <1>6 DEF Write
<1>7. ASSUME NEW p \in Procs, Verify(p) PROVE LInv'
      BY <1>7 DEF Verify
<1>8. ASSUME NEW p \in Procs, DreamEnds(p) PROVE LInv'
      BY <1>8 DEF DreamEnds
<1>9. ASSUME NEW p \in Procs, RecordClear(p) PROVE LInv'
  <2>1. CASE Others(p, Acquiring \cup Releasing)
        BY <1>9, <2>1 DEF RecordClear, ReleaseOverlaps
  <2>2. CASE ~Others(p, Acquiring \cup Releasing)
        BY <1>9, <2>2 DEF RecordClear, ReleaseOverlaps
  <2>. QED
       BY <2>1, <2>2
<1>10. ASSUME NEW p \in Procs, Unlink(p) PROVE LInv'
  <2>1. CASE Others(p, Acquiring \cup Releasing)
        BY <1>10, <2>1 DEF Unlink, ReleaseOverlaps
  <2>2. CASE ~Others(p, Acquiring \cup Releasing)
        BY <1>10, <2>2 DEF Unlink, ReleaseOverlaps
  <2>. QED
       BY <2>1, <2>2
<1>11. ASSUME NEW p \in Procs, RollbackClear(p) PROVE LInv'
  <2>1. CASE Others(p, Acquiring \cup Releasing)
        BY <1>11, <2>1 DEF RollbackClear, ReleaseOverlaps
  <2>2. CASE ~Others(p, Acquiring \cup Releasing)
        BY <1>11, <2>2 DEF RollbackClear, ReleaseOverlaps
  <2>. QED
       BY <2>1, <2>2
<1>12. ASSUME NEW p \in Procs, RecordStamp(p) \/ RollbackStamp(p) PROVE LInv'
       BY <1>12 DEF RecordStamp, RollbackStamp, Touch
<1>13. ASSUME NEW p \in Procs, Crash(p) PROVE LInv'
       BY <1>13 DEF Crash
<1>14. CASE Tick
       BY <1>14 DEF Tick
<1>15. CASE AllOver \/ UNCHANGED vars
       BY <1>15 DEF AllOver, vars
<1>. QED
     BY <1>2, <1>3, <1>4, <1>5, <1>6, <1>7, <1>8, <1>9, <1>10, <1>11, <1>12, <1>13,
        <1>14, <1>15 DEF Next, Step

-----------------------------------------------------------------------------
(* The time gate *)

\* With a clean lock and no death, the mtime a process read on its way in is the
\* time of the last success, and the file has it whenever nobody is inside.
GateInv ==
    Clean /\ ~died =>
        /\ (\A p \in Procs : pc[p] \notin {"verify"} \cup Holding \cup Releasing) => mtime = recorded
        /\ \A p \in Procs : pc[p] = "read" => seen[p] = mtime
        /\ \A p \in Procs : pc[p] \in {"write", "verify", "restamp"} \cup Holding => seen[p] = recorded
        /\ \A p \in Procs : pc[p] \in Releasing => mtime >= 1

LEMMA GateInductive ==
    ASSUME LInv, GateInv, [Next]_vars
    PROVE  GateInv'
<1> USE EmptyAssumption, TimeAssumption
<1> USE DEF GateInv, Clean, LInv, TypeOK, TimeInv, OneBusy, OwnerInv, Busy, Holds,
            Acquiring, Holding, Releasing, Goto, file, locals, history, Others
<1>1. ASSUME NEW p \in Procs, Start(p) \/ Gate(p) PROVE GateInv'
      BY <1>1 DEF Start, Gate
<1>2. ASSUME NEW p \in Procs, Stat(p) PROVE GateInv'
      BY <1>2 DEF Stat
<1>3. ASSUME NEW p \in Procs, Read(p) PROVE GateInv'
  <2>1. CASE Blocked(p)
        BY <1>3, <2>1 DEF Read
  <2>2. CASE ~Blocked(p)
    <3>1. Clean' => \A q \in Procs : ~Holds(q)
          BY <1>3, <2>2, ReadPassesOnlyFree
    <3>. QED
         BY <1>3, <2>2, <3>1 DEF Read
  <2>. QED
       BY <2>1, <2>2
<1>4. ASSUME NEW p \in Procs, Write(p) PROVE GateInv'
      BY <1>4 DEF Write
<1>5. ASSUME NEW p \in Procs, Verify(p) PROVE GateInv'
      BY <1>5 DEF Verify, Owns
<1>6. ASSUME NEW p \in Procs, DreamEnds(p) PROVE GateInv'
      BY <1>6 DEF DreamEnds
<1>7. ASSUME NEW p \in Procs, RecordClear(p) PROVE GateInv'
      BY <1>7 DEF RecordClear, ReleaseOverlaps
<1>8. ASSUME NEW p \in Procs, Unlink(p) PROVE GateInv'
      BY <1>8 DEF Unlink, ReleaseOverlaps
<1>9. ASSUME NEW p \in Procs, RollbackClear(p) PROVE GateInv'
      BY <1>9 DEF RollbackClear, ReleaseOverlaps
<1>10. ASSUME NEW p \in Procs, RecordStamp(p) PROVE GateInv'
       BY <1>10 DEF RecordStamp, Touch
<1>11. ASSUME NEW p \in Procs, RollbackStamp(p) PROVE GateInv'
       BY <1>11 DEF RollbackStamp, Touch
<1>12. ASSUME NEW p \in Procs, Crash(p) PROVE GateInv'
       BY <1>12 DEF Crash
<1>13. CASE Tick \/ AllOver \/ UNCHANGED vars
       BY <1>13 DEF Tick, AllOver, vars
<1>. QED
     BY <1>1, <1>2, <1>3, <1>4, <1>5, <1>6, <1>7, <1>8, <1>9, <1>10, <1>11, <1>12, <1>13
        DEF Next, Step

-----------------------------------------------------------------------------
(* The pid *)

LEMMA PidInductive ==
    ASSUME TypeOK, NoLeakedPid, [Next]_vars
    PROVE  NoLeakedPid'
<1> USE EmptyAssumption
<1> USE DEF NoLeakedPid, TypeOK, Running, Holding, Goto, file, locals, history
<1>1. ASSUME NEW p \in Procs, Start(p) \/ Gate(p) \/ Stat(p) \/ Read(p) PROVE NoLeakedPid'
      BY <1>1 DEF Start, Gate, Stat, Read
<1>2. ASSUME NEW p \in Procs, Write(p) \/ Verify(p) \/ DreamEnds(p) PROVE NoLeakedPid'
      BY <1>2 DEF Write, Verify, DreamEnds
<1>3. ASSUME NEW p \in Procs, RecordClear(p) \/ Unlink(p) \/ RollbackClear(p) PROVE NoLeakedPid'
      BY <1>3 DEF RecordClear, Unlink, RollbackClear
<1>4. ASSUME NEW p \in Procs, RecordStamp(p) \/ RollbackStamp(p) \/ Crash(p) PROVE NoLeakedPid'
      BY <1>4 DEF RecordStamp, RollbackStamp, Crash
<1>5. CASE Tick \/ AllOver \/ UNCHANGED vars
      BY <1>5 DEF Tick, AllOver, vars
<1>. QED
     BY <1>1, <1>2, <1>3, <1>4, <1>5 DEF Next, Step

-----------------------------------------------------------------------------
\* The type invariant of the lock file and of the processes around it.
THEOREM TypeCorrect == Spec => []TypeOK
<1>1. Init => TypeOK
      BY LInvInit DEF LInv
<1>. QED
     BY <1>1, TypeInductive, PTL DEF Spec

\* try_acquire_consolidation_lock excludes: any number of processes, any mix of
\* forced and unforced callers, crashes and failed dreams, two of them consolidate
\* at once only after interleaved system calls or an overstayed holder.
THEOREM LockIsExclusiveAlways == Spec => []LockIsExclusive
<1>1. LInv => LockIsExclusive
      BY DEF LInv, LockIsExclusive, Mutex, Clean, OwnerInv, Owns, Holds
<1>. QED
     BY <1>1, LInvInit, LInvInductive, PTL DEF Spec

\* A loser, a rollback or a success never leaves the pid of a live process behind
\* to block the next dream.
THEOREM PidNeverLeaks == Spec => []NoLeakedPid
<1>1. Init => NoLeakedPid
      BY DEF Init, NoLeakedPid
<1>. QED
     BY <1>1, TypeCorrect, PidInductive, PTL DEF Spec

\* The mtime at rest is the start of the last successful consolidation: a failed
\* one gives its time gate back, for any number of processes and any clock.
THEOREM GateAlwaysTellsLastDream == Spec => []GateTellsLastDream
<1>1. Init => GateInv
      BY DEF Init, GateInv, Holding, Releasing
<1>2. GateInv => GateTellsLastDream
      BY DEF GateInv, GateTellsLastDream, Quiet, Clean, Holding, Releasing
<1>. QED
     BY <1>1, <1>2, LInvInit, LInvInductive, GateInductive, PTL DEF Spec
=============================================================================
