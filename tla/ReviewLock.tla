----------------------------- MODULE ReviewLock -----------------------------
(***************************************************************************)
(* core/review_coord, first half: the lock file that keeps the review      *)
(* pipelines of exec, the TUI and Auto Drive from overlapping.  Clients are *)
(* the places that take the lock; several may live in one process.  Every  *)
(* file-system call is a step of its own, and a process may die anywhere.  *)
(***************************************************************************)
EXTENDS Integers, FiniteSets

CONSTANTS Procs,        \* processes of the program on one machine
          Clients,      \* users of the lock: try_acquire_lock, clear, drop
          ProcOf,       \* the process a client runs in
          NoFile,       \* the lock path does not exist
          Unix,         \* the build's platform: which pid_alive is compiled in
          MaxCrashes    \* bound: deaths per process in a model

ASSUME ProcOfAssumption == ProcOf \in [Clients -> Procs]
ASSUME MaxCrashesAssumption == MaxCrashes \in Nat
ASSUME UnixAssumption == Unix \in BOOLEAN

VARIABLES
    gen,        \* per process: how often it was replaced; <<p, gen[p]>> is its pid
    lockFile,   \* what the lock path names: its creator, its pid, body written?
    pc,         \* idle, info (created, body not written), hold, check, remove
    seen,       \* the pid a client read in clear_stale_lock_if_dead
    same,       \* history: clients whose examined file is still at the path
    raced,      \* history: a clear removed another file than the one it examined
    left        \* history: the file at the path survived its own guard's remove_file

vars == <<gen, lockFile, pc, seen, same, raced, left>>

Pids == Procs \X Nat
PidOf(c) == <<ProcOf[c], gen[ProcOf[c]]>>
LockFiles == [by : Clients, pid : Pids, written : BOOLEAN]

ASSUME NoFileAssumption == NoFile \notin LockFiles

\* The lock path names nothing or a file of some client and pid, and every client is
\* idle or inside one of the three calls.
TypeOK ==
    /\ gen \in [Procs -> Nat]
    /\ lockFile \in LockFiles \union {NoFile}
    /\ pc \in [Clients -> {"idle", "info", "hold", "check", "remove"}]
    /\ seen \in [Clients -> Pids \union {NoFile}]
    /\ same \subseteq Clients
    /\ raced \in BOOLEAN
    /\ left \in BOOLEAN

Init ==
    /\ gen = [p \in Procs |-> 0]
    /\ lockFile = NoFile
    /\ pc = [c \in Clients |-> "idle"]
    /\ seen = [c \in Clients |-> NoFile]
    /\ same = {}
    /\ raced = FALSE
    /\ left = FALSE

Goto(c, l) == pc' = [pc EXCEPT ![c] = l]

\* remove_file names a path, whatever file is there ...
PathRemoved == lockFile' = NoFile /\ same' = {} /\ left' = FALSE

\* ... and it may fail; neither caller looks at the error.
PathStays == UNCHANGED <<lockFile, same>>

-----------------------------------------------------------------------------
(* try_acquire_lock *)

\* Mutant of CreateNew: the file is opened without create_new.
CreateNewTruncates(c) ==
    /\ pc[c] = "idle"
    /\ lockFile' = [by |-> c, pid |-> PidOf(c), written |-> FALSE]
    /\ same' = {}
    /\ Goto(c, "info")
    /\ UNCHANGED <<gen, seen, raced, left>>

\* create_new is atomic; when the path exists the call returns Ok(None), changing nothing.
CreateNew(c) ==
    /\ pc[c] = "idle"
    /\ lockFile = NoFile
    /\ lockFile' = [by |-> c, pid |-> PidOf(c), written |-> FALSE]
    /\ same' = {}
    /\ Goto(c, "info")
    /\ UNCHANGED <<gen, seen, raced, left>>

\* write_all goes to the created file, which may no longer be the one at the path,
\* and its error is ignored: the guard is returned in any case.
WriteInfo(c) ==
    /\ pc[c] = "info"
    /\ \/ lockFile' = lockFile
       \/ /\ lockFile # NoFile
          /\ lockFile.by = c
          /\ lockFile' = [lockFile EXCEPT !.written = TRUE]
    /\ Goto(c, "hold")
    /\ UNCHANGED <<gen, seen, same, raced, left>>

-----------------------------------------------------------------------------
\* Mutant of DropGuard: the guard is forgotten and no removal is tried.
DropGuardForgets(c) ==
    /\ pc[c] = "hold"
    /\ Goto(c, "idle")
    /\ UNCHANGED <<gen, lockFile, seen, same, raced, left>>

\* Drop for ReviewGuard: the guard is gone whether or not the removal succeeds.
DropGuard(c) ==
    /\ pc[c] = "hold"
    /\ \/ PathRemoved
       \/ /\ PathStays
          /\ left' = (left \/ (lockFile # NoFile /\ lockFile.by = c))
    /\ Goto(c, "idle")
    /\ UNCHANGED <<gen, seen, raced>>

-----------------------------------------------------------------------------
(* clear_stale_lock_if_dead *)

\* read_lock_info: no file, or a body that does not parse, ends the call.
ClearRead(c) ==
    /\ pc[c] = "idle"
    /\ lockFile # NoFile
    /\ lockFile.written
    /\ seen' = [seen EXCEPT ![c] = lockFile.pid]
    /\ same' = same \union {c}
    /\ Goto(c, "check")
    /\ UNCHANGED <<gen, lockFile, raced, left>>

\* A pid names a live process until that process is replaced.
Lives(pid) == gen[pid[1]] = pid[2]

\* kill(pid, 0) tells that on Unix; elsewhere every pid is taken to be alive.
pid_alive(pid) == Unix => Lives(pid)

\* Mutant of ClearCheck: the caller's own pid is tested, not the recorded one.
ClearCheckOwnPid(c) ==
    /\ pc[c] = "check"
    /\ \/ pid_alive(PidOf(c)) /\ Goto(c, "idle")
       \/ ~pid_alive(PidOf(c)) /\ Goto(c, "remove")
    /\ UNCHANGED <<gen, lockFile, seen, same, raced, left>>

ClearCheck(c) ==
    /\ pc[c] = "check"
    /\ \/ pid_alive(seen[c]) /\ Goto(c, "idle")
       \/ ~pid_alive(seen[c]) /\ Goto(c, "remove")
    /\ UNCHANGED <<gen, lockFile, seen, same, raced, left>>

\* The path is removed, not the file that was read; true is returned in any case.
ClearRemoved(c) ==
    /\ pc[c] = "remove"
    /\ PathRemoved
    /\ raced' = (raced \/ (lockFile # NoFile /\ c \notin same))
    /\ Goto(c, "idle")
    /\ UNCHANGED <<gen, seen>>

ClearFailed(c) ==
    /\ pc[c] = "remove"
    /\ PathStays
    /\ Goto(c, "idle")
    /\ UNCHANGED <<gen, seen, raced, left>>

ClearRemove(c) == ClearRemoved(c) \/ ClearFailed(c)

-----------------------------------------------------------------------------
\* A process dies without running destructors and another one, with a pid of its
\* own, takes its place; guards and calls in progress are gone, the file is not.
Crash(p) ==
    /\ gen[p] < MaxCrashes
    /\ gen' = [gen EXCEPT ![p] = gen[p] + 1]
    /\ pc' = [c \in Clients |-> IF ProcOf[c] = p THEN "idle" ELSE pc[c]]
    /\ UNCHANGED <<lockFile, seen, same, raced, left>>

ClearStep(c) == ClearRead(c) \/ ClearCheck(c) \/ ClearRemove(c)

Next ==
    \/ \E c \in Clients : CreateNew(c) \/ WriteInfo(c) \/ DropGuard(c) \/ ClearStep(c)
    \/ \E p \in Procs : Crash(p)

Spec == Init /\ [][Next]_vars

\* Reviews keep being started, each of them first clears a stale lock, and a removal
\* tried again and again does not fail every time (no lasting lack of permission).
FairSpec ==
    /\ Spec
    /\ \A c \in Clients : WF_vars(ClearStep(c)) /\ SF_vars(ClearRemoved(c))

-----------------------------------------------------------------------------
(* Properties *)

Holders == {c \in Clients : pc[c] = "hold"}

\* Only one review pipeline runs at a time, as long as every clear removed the very
\* file it examined: crashes, half-written files, removals that fail and the
\* unconditional remove in Drop are no danger by themselves.
ExclusiveUnlessRaced == ~raced => \A c, d \in Holders : c = d

\* The documented rule: only one review pipeline may run at a time.
MutualExclusion == \A c, d \in Holders : c = d

Orphaned == lockFile # NoFile /\ ~Lives(lockFile.pid)

\* A lock file of a live process is backed by its creator, who is still creating it
\* or holds the guard, unless that very guard tried to remove it and failed (the
\* error ReviewGuard::drop ignores): no other order of acquires, releases, clears
\* and crashes leaves a lock that blocks every review while nobody reviews.
LeftOnlyByFailedDrop ==
    lockFile # NoFile /\ ~Orphaned /\ ~left => pc[lockFile.by] \in {"info", "hold"}

\* On Unix a complete lock file of a dead process is removed by a later review, one
\* that a failed removal left there included.  A file whose creator died between
\* create_new and write_all has no pid and stays for ever; so does every orphan on
\* other platforms, where clear_stale_lock_if_dead takes each pid to be alive.
WrittenOrphanCleared == Unix => ((Orphaned /\ lockFile.written) ~> ~Orphaned)
=============================================================================
