-------------------------- MODULE ConsolidationLock --------------------------
(****************************************************************************)
(* The gate and the lock file of dream consolidation                        *)
(* (consolidation_lock.py, and DreamConsolidator.consolidate of dream.py).  *)
(* Several operating-system processes, the REPL at /exit and the            *)
(* "memory dream --apply" command, run consolidate() once each on the same  *)
(* memory directory.  One file does two jobs: its mtime is the time of the  *)
(* last consolidation (the time gate), its body the pid of the holder.      *)
(*                                                                          *)
(* Every system call is a step of its own, so the steps of the processes    *)
(* interleave as they can on a real file system.  A write_text is one step: *)
(* the instant between its truncation and its write shows a reader an       *)
(* unparseable body, which sends it where a read before the write does.     *)
(****************************************************************************)
EXTENDS Integers

CONSTANTS
    Procs,        \* processes that consolidate, each under its own pid
    Empty,        \* a body that names no process
    Callers,      \* the callers there are: forced (min_hours = 0, min_sessions = 0) or not
    MinHours,     \* min_hours of an unforced caller, in ticks
    HolderStale,  \* HOLDER_STALE_MS in ticks
    Epoch,        \* the clock's first value
    MaxClock      \* the clock's last value (bound)

ASSUME EmptyAssumption == Empty \notin Procs
ASSUME CallerAssumption == Callers \subseteq BOOLEAN
ASSUME TimeAssumption  ==
    /\ MinHours \in Nat \ {0} /\ HolderStale \in Nat \ {0}
    /\ Epoch \in Nat /\ MaxClock \in Nat
    /\ Epoch >= MinHours   \* with no lock file the time gate is open

VARIABLES
    clock,
    mtime,      \* of the lock file; 0 when there is no file
    body,       \* of the lock file
    pc,         \* where each process is in consolidate()
    now,        \* now_ms, read once when consolidate() starts
    forced,     \* the caller is forced (REPL exit, memory dream --force)
    seen,       \* mtime_ms as try_acquire_consolidation_lock read it, later prior_mtime
    \* history, read by the properties only:
    heldSince,  \* when each process wrote its pid
    recorded,   \* now_ms of the last success stamped on the file
    overlap,    \* two acquisitions, or an acquisition and a release, overlapped
    overstay,   \* a live holder was displaced after HolderStale
    died        \* a process died with its pid on the file

file    == <<mtime, body>>
locals  == <<pc, now, forced, seen>>
history == <<heldSince, recorded, overlap, overstay, died>>
vars    == <<clock, file, locals, history>>

Acquiring == {"read", "write", "verify"}
Holding   == {"dream", "clear", "undo"}
Releasing == {"stamp", "restamp"}
Stages    == {"off", "gate", "stat", "done", "gone"} \cup Acquiring \cup Holding \cup Releasing

TypeOK ==
    /\ clock \in Nat /\ mtime \in Nat /\ body \in Procs \cup {Empty}
    /\ pc \in [Procs -> Stages] /\ now \in [Procs -> Nat]
    /\ forced \in [Procs -> BOOLEAN] /\ seen \in [Procs -> Nat]
    /\ heldSince \in [Procs -> Nat] /\ recorded \in Nat
    /\ overlap \in BOOLEAN /\ overstay \in BOOLEAN /\ died \in BOOLEAN

Init ==
    /\ clock = Epoch /\ mtime = 0 /\ body = Empty
    /\ pc = [p \in Procs |-> "off"] /\ now = [p \in Procs |-> 0]
    /\ forced = [p \in Procs |-> FALSE] /\ seen = [p \in Procs |-> 0]
    /\ heldSince = [p \in Procs |-> 0] /\ recorded = 0
    /\ overlap = FALSE /\ overstay = FALSE /\ died = FALSE

Goto(p, stage) == pc' = [pc EXCEPT ![p] = stage]

Others(p, stages) == \E q \in Procs \ {p} : pc[q] \in stages

\* os.kill(pid, 0) succeeds.
Running(p) == pc[p] # "gone"

-----------------------------------------------------------------------------
(* should_dream *)

Start(p) ==
    /\ pc[p] = "off" /\ Goto(p, "gate")
    /\ now' = [now EXCEPT ![p] = clock]
    /\ \E f \in Callers : forced' = [forced EXCEPT ![p] = f]
    /\ UNCHANGED <<clock, file, seen, history>>

\* Gates 2 and 4.  The scan throttle (gate 3) never closes: every caller passes
\* last_scan_at_ms = 0.  Whether enough sessions were touched is the world's choice;
\* a forced caller asks for none.
TimeGateOpen(p) == forced[p] \/ now[p] - mtime >= MinHours

Gate(p) ==
    /\ pc[p] = "gate"
    /\ \/ TimeGateOpen(p) /\ Goto(p, "stat")
       \/ ~(TimeGateOpen(p) /\ forced[p]) /\ Goto(p, "done")
    /\ UNCHANGED <<clock, file, now, forced, seen, history>>

(* try_acquire_consolidation_lock *)

\* Mutant: a missing file reads as -1, as an absent mtime would in C.
StatOfMissingFile(p) ==
    /\ pc[p] = "stat" /\ Goto(p, "read")
    /\ seen' = [seen EXCEPT ![p] = IF mtime = 0 THEN -1 ELSE mtime]
    /\ overlap' = (overlap \/ Others(p, Acquiring \cup Releasing))
    /\ UNCHANGED <<clock, file, now, forced, heldSince, recorded, overstay, died>>

Stat(p) ==
    /\ pc[p] = "stat" /\ Goto(p, "read")
    /\ seen' = [seen EXCEPT ![p] = mtime]
    /\ overlap' = (overlap \/ Others(p, Acquiring \cup Releasing))
    /\ UNCHANGED <<clock, file, now, forced, heldSince, recorded, overstay, died>>

\* Mutant: the comparison with HOLDER_STALE_MS is the wrong way round.
FreshWhenOld(p) == seen[p] # 0 /\ now[p] - seen[p] >= HolderStale

\* A live holder blocks while the lock is fresh by the mtime read in Stat.
Fresh(p) == seen[p] # 0 /\ now[p] - seen[p] < HolderStale

Blocked(p) == Fresh(p) /\ body # Empty /\ Running(body)

Displaces == body # Empty /\ pc[body] \in Holding /\ clock - heldSince[body] >= HolderStale

Read(p) ==
    /\ pc[p] = "read"
    /\ IF Blocked(p)
       THEN Goto(p, "done") /\ UNCHANGED overstay
       ELSE Goto(p, "write") /\ overstay' = (overstay \/ Displaces)
    /\ UNCHANGED <<clock, file, now, forced, seen, heldSince, recorded, overlap, died>>

Write(p) ==
    /\ pc[p] = "write" /\ Goto(p, "verify")
    /\ body' = p /\ mtime' = clock
    /\ heldSince' = [heldSince EXCEPT ![p] = clock]
    /\ UNCHANGED <<clock, now, forced, seen, recorded, overlap, overstay, died>>

Verify(p) ==
    /\ pc[p] = "verify"
    /\ Goto(p, IF body = p THEN "dream" ELSE "done")
    /\ UNCHANGED <<clock, file, now, forced, seen, history>>

-----------------------------------------------------------------------------
(* consolidate, once the lock is held *)

DreamEnds(p) ==
    /\ pc[p] = "dream"
    /\ \/ Goto(p, "clear")
       \/ Goto(p, "undo")   \* an exception
    /\ UNCHANGED <<clock, file, now, forced, seen, history>>

ReleaseOverlaps(p) == overlap' = (overlap \/ Others(p, Acquiring \cup Releasing))

\* record_consolidation: empty the body, then set the mtime back to now_ms.
RecordClear(p) ==
    /\ pc[p] = "clear" /\ Goto(p, "stamp")
    /\ body' = Empty /\ mtime' = clock
    /\ ReleaseOverlaps(p)
    /\ UNCHANGED <<clock, now, forced, seen, heldSince, recorded, overstay, died>>

\* os.utime on a file that is gone fails, and the failure is swallowed.
Touch(t) == mtime' = IF mtime = 0 THEN 0 ELSE t

RecordStamp(p) ==
    /\ pc[p] = "stamp" /\ Goto(p, "done")
    /\ Touch(now[p]) /\ recorded' = now[p]
    /\ UNCHANGED <<clock, body, now, forced, seen, heldSince, overlap, overstay, died>>

\* rollback_consolidation_lock
Unlink(p) ==
    /\ pc[p] = "undo" /\ seen[p] = 0 /\ Goto(p, "done")
    /\ body' = Empty /\ mtime' = 0
    /\ ReleaseOverlaps(p)
    /\ UNCHANGED <<clock, now, forced, seen, heldSince, recorded, overstay, died>>

\* Mutant: a rollback leaves the pid in the body.
RollbackLeavesPid(p) ==
    /\ pc[p] = "undo" /\ seen[p] # 0 /\ Goto(p, "restamp")
    /\ mtime' = clock /\ UNCHANGED body
    /\ ReleaseOverlaps(p)
    /\ UNCHANGED <<clock, now, forced, seen, heldSince, recorded, overstay, died>>

RollbackClear(p) ==
    /\ pc[p] = "undo" /\ seen[p] # 0 /\ Goto(p, "restamp")
    /\ body' = Empty /\ mtime' = clock
    /\ ReleaseOverlaps(p)
    /\ UNCHANGED <<clock, now, forced, seen, heldSince, recorded, overstay, died>>

\* Mutant: a rollback does not set the mtime back.
RollbackKeepsMTime(p) ==
    /\ pc[p] = "restamp" /\ Goto(p, "done")
    /\ UNCHANGED <<clock, file, now, forced, seen, history>>

RollbackStamp(p) ==
    /\ pc[p] = "restamp" /\ Goto(p, "done")
    /\ Touch(seen[p])
    /\ UNCHANGED <<clock, body, now, forced, seen, history>>

-----------------------------------------------------------------------------
(* The world *)

\* A crash, a kill, or ^C: KeyboardInterrupt is not an Exception, so no handler
\* of consolidate() or of its callers rolls back.
Crash(p) ==
    /\ pc[p] \notin {"off", "done", "gone"} /\ Goto(p, "gone")
    /\ died' = (died \/ pc[p] \in {"verify"} \cup Holding \cup Releasing)
    /\ UNCHANGED <<clock, file, now, forced, seen, heldSince, recorded, overlap, overstay>>

Tick == clock < MaxClock /\ clock' = clock + 1 /\ UNCHANGED <<file, locals, history>>

AllOver == (\A p \in Procs : pc[p] \in {"done", "gone"}) /\ UNCHANGED vars

Step(p) ==
    \/ Start(p) \/ Gate(p) \/ Stat(p) \/ Read(p) \/ Write(p) \/ Verify(p)
    \/ DreamEnds(p) \/ RecordClear(p) \/ RecordStamp(p)
    \/ Unlink(p) \/ RollbackClear(p) \/ RollbackStamp(p)

Next == (\E p \in Procs : Step(p) \/ Crash(p)) \/ Tick \/ AllOver

Spec == Init /\ [][Next]_vars

-----------------------------------------------------------------------------
(* Properties. *)

Holds(p) == pc[p] \in Holding

\* "PID mutex": two processes never consolidate the memory directory at once.
\* The write-then-verify of try_acquire does not give this (see LockIsExclusive).
Mutex == \A p, q \in Procs : Holds(p) /\ Holds(q) => p = q

\* What the lock does give: two processes consolidate at once only after two
\* acquisitions, or an acquisition and a release, ran interleaved, or after a
\* holder stayed longer than HolderStale.  In particular the file's mtime, which
\* decides freshness, is then the holder's own write.
LockIsExclusive == ~overlap /\ ~overstay => Mutex

\* The file never names a live process that is past its consolidation: losers of
\* the verify, rollbacks and successes all leave nothing behind that would block
\* the next dream for an hour.
NoLeakedPid ==
    body # Empty /\ Running(body) => pc[body] \in {"verify"} \cup Holding

Quiet == \A p \in Procs : pc[p] \in {"off", "gate", "stat", "done", "gone"}

\* At rest the mtime is the start of the last successful consolidation, or there
\* is no file if none succeeded: a failed dream gives back the time gate it took
\* (rollback_consolidation_lock), unless a holder died or was displaced.
GateTellsLastDream ==
    Quiet /\ ~overlap /\ ~overstay /\ ~died => mtime = recorded
=============================================================================
