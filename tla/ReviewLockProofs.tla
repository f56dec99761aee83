-------------------------- MODULE ReviewLockProofs --------------------------
(***************************************************************************)
(* Proofs about ReviewLock for any processes, clients and number of        *)
(* crashes.  Exclusion needs to know which file every party is talking     *)
(* about: LockInv ties a guard to the file at the path, and a clear that   *)
(* still looks at the file it read to a process that is dead for good.     *)
(***************************************************************************)
EXTENDS ReviewLock, TLAPS

Engaged(c) == pc[c] \in {"info", "hold"}
Clearing(c) == pc[c] \in {"check", "remove"}

\* The file carries the pid its creator had; pids only get older.
FileInv ==
    lockFile # NoFile => /\ lockFile.pid[1] = ProcOf[lockFile.by]
                         /\ lockFile.pid[2] <= gen[lockFile.pid[1]]

\* A file is at the path, and it is mine, while I create it or hold its guard.
OwnInv == ~raced => \A c \in Clients :
    Engaged(c) => lockFile # NoFile /\ lockFile.by = c /\ lockFile.pid = PidOf(c)

\* What a clear in progress knows of the pid it read ...
SeenInv == \A c \in Clients : Clearing(c) =>
    /\ seen[c] \in Pids
    /\ seen[c][2] <= gen[seen[c][1]]
    /\ pc[c] = "remove" => Unix /\ ~Lives(seen[c])

\* ... and of the file, unless it was replaced in the meantime.
SameInv == \A c \in Clients : Clearing(c) /\ c \in same =>
    lockFile # NoFile /\ lockFile.pid = seen[c]

\* Where every pid is taken to be alive no clear gets as far as a removal.
RacedInv == raced => Unix

LockInv ==
    /\ TypeOK /\ FileInv /\ LeftOnlyByFailedDrop
    /\ OwnInv /\ SeenInv /\ SameInv /\ RacedInv

-----------------------------------------------------------------------------
\* No file, no guard and no clear in progress: LockInv holds at the start.
LEMMA InitLockInv == Init => LockInv
<1> SUFFICES ASSUME Init PROVE LockInv
  OBVIOUS
<1>1. raced \in BOOLEAN /\ left \in BOOLEAN /\ RacedInv
  BY Zenon DEF Init, RacedInv
<1>2. TypeOK
  BY <1>1 DEF Init, TypeOK
<1>3. FileInv /\ LeftOnlyByFailedDrop /\ OwnInv /\ SeenInv /\ SameInv
  BY DEF Init, FileInv, LeftOnlyByFailedDrop, Orphaned, OwnInv, SeenInv, SameInv, Engaged, Clearing
<1> QED BY <1>1, <1>2, <1>3 DEF LockInv

\* Every step preserves the type invariant.
LEMMA LockTypeOK == TypeOK /\ [Next]_vars => TypeOK'
<1> SUFFICES ASSUME TypeOK, [Next]_vars PROVE TypeOK'
  OBVIOUS
<1> USE ProcOfAssumption DEF TypeOK, LockFiles, Pids, Goto
<1>1. ASSUME NEW c \in Clients, CreateNew(c) PROVE TypeOK'
  BY <1>1 DEF CreateNew, PidOf
<1>2. ASSUME NEW c \in Clients, WriteInfo(c) PROVE TypeOK'
  <2>1. lockFile' \in LockFiles \union {NoFile}
    BY <1>2 DEF WriteInfo
  <2> QED BY <1>2, <2>1 DEF WriteInfo
<1>3. ASSUME NEW c \in Clients, DropGuard(c) PROVE TypeOK'
  BY <1>3 DEF DropGuard, PathRemoved, PathStays
<1>4. ASSUME NEW c \in Clients, ClearRead(c) PROVE TypeOK'
  BY <1>4 DEF ClearRead
<1>5. ASSUME NEW c \in Clients, ClearCheck(c) PROVE TypeOK'
  BY <1>5 DEF ClearCheck
<1>6. ASSUME NEW c \in Clients, ClearRemove(c) PROVE TypeOK'
  BY <1>6 DEF ClearRemove, ClearRemoved, ClearFailed, PathRemoved, PathStays
<1>7. ASSUME NEW p \in Procs, Crash(p) PROVE TypeOK'
  BY <1>7 DEF Crash
<1>8. CASE UNCHANGED vars
  BY <1>8 DEF vars
<1> QED BY <1>1, <1>2, <1>3, <1>4, <1>5, <1>6, <1>7, <1>8 DEF Next, ClearStep

\* Every step preserves LockInv.
LEMMA NextLockInv == LockInv /\ [Next]_vars => LockInv'
<1> SUFFICES ASSUME LockInv, [Next]_vars PROVE LockInv'
  OBVIOUS
<1>t. TypeOK /\ TypeOK'
  BY LockTypeOK DEF LockInv
<1> USE <1>t, ProcOfAssumption, NoFileAssumption
    DEF LockInv, FileInv, LeftOnlyByFailedDrop, Orphaned, OwnInv, SeenInv, SameInv, Engaged, Clearing,
        RacedInv, Lives, pid_alive, PidOf, Goto
<1>1. ASSUME NEW c \in Clients, CreateNew(c) PROVE LockInv'
  <2>0. lockFile' \in LockFiles
    BY <1>1 DEF CreateNew, TypeOK, LockFiles, Pids
  <2>1. lockFile' # NoFile
    BY <2>0
  <2> QED BY <1>1, <2>1 DEF CreateNew, TypeOK
<1>2. ASSUME NEW c \in Clients, WriteInfo(c) PROVE LockInv'
  <2>1. \/ lockFile' = lockFile
        \/ /\ lockFile # NoFile /\ lockFile' # NoFile
           /\ lockFile'.by = lockFile.by /\ lockFile'.pid = lockFile.pid
    <3>1. CASE lockFile' = lockFile
      BY <3>1
    <3>2. CASE lockFile # NoFile /\ lockFile' = [lockFile EXCEPT !.written = TRUE]
      <4>1. lockFile \in LockFiles
        BY <3>2 DEF TypeOK
      <4>2. lockFile'.by = lockFile.by /\ lockFile'.pid = lockFile.pid /\ lockFile' \in LockFiles
        BY <3>2, <4>1 DEF LockFiles
      <4> QED BY <3>2, <4>2
    <3> QED BY <1>2, <3>1, <3>2 DEF WriteInfo
  <2> QED BY <1>2, <2>1 DEF WriteInfo, TypeOK
<1>3. ASSUME NEW c \in Clients, DropGuard(c) PROVE LockInv'
  <2>1. CASE PathRemoved
    BY <1>3, <2>1 DEF DropGuard, PathRemoved, TypeOK
  <2>2. CASE PathStays /\ left' = (left \/ (lockFile # NoFile /\ lockFile.by = c))
    <3>1. lockFile # NoFile => lockFile.by \in Clients
      BY DEF TypeOK, LockFiles
    <3>2. lockFile' = lockFile /\ same' = same /\ raced' = raced /\ gen' = gen /\ seen' = seen
      BY <1>3, <2>2 DEF DropGuard, PathStays
    <3>3. \A d \in Clients : d # c => pc'[d] = pc[d]
      BY <1>3 DEF DropGuard, TypeOK
    <3>4. pc'[c] = "idle"
      BY <1>3 DEF DropGuard, TypeOK
    <3>5. ~left' => ~left /\ (lockFile = NoFile \/ lockFile.by # c)
      BY <2>2, Zenon
    <3>6. LeftOnlyByFailedDrop'
      BY <3>1, <3>2, <3>3, <3>5
    <3>7. FileInv' /\ OwnInv' /\ SeenInv' /\ SameInv' /\ RacedInv'
      BY <3>2, <3>3, <3>4
    <3> QED BY <3>6, <3>7
  <2> QED BY <1>3, <2>1, <2>2 DEF DropGuard
<1>4. ASSUME NEW c \in Clients, ClearRead(c) PROVE LockInv'
  BY <1>4 DEF ClearRead, TypeOK, LockFiles
<1>5. ASSUME NEW c \in Clients, ClearCheck(c) PROVE LockInv'
  <2>1. lockFile # NoFile => lockFile.by \in Clients
    BY DEF TypeOK, LockFiles
  <2>2. LeftOnlyByFailedDrop' /\ FileInv' /\ OwnInv' /\ SameInv' /\ RacedInv'
    BY <1>5, <2>1 DEF ClearCheck, TypeOK
  <2>3. SeenInv'
    BY <1>5 DEF ClearCheck, TypeOK
  <2> QED BY <2>2, <2>3
<1>6. ASSUME NEW c \in Clients, ClearRemoved(c) PROVE LockInv'
  <2> USE DEF PathRemoved
  <2>1. ~raced' => ~raced /\ (lockFile = NoFile \/ c \in same)
    BY <1>6, Zenon DEF ClearRemoved
  <2>2. ~raced' => \A d \in Clients : ~Engaged(d)     \* the file read was a dead process's
    BY <1>6, <2>1 DEF ClearRemoved
  <2>3. OwnInv'
    BY <1>6, <2>2 DEF ClearRemoved, TypeOK
  <2>4. FileInv' /\ LeftOnlyByFailedDrop' /\ SeenInv' /\ SameInv'
    BY <1>6 DEF ClearRemoved, TypeOK
  <2>5. RacedInv'
    BY <1>6, UnixAssumption DEF ClearRemoved
  <2> QED BY <2>3, <2>4, <2>5
<1>9. ASSUME NEW c \in Clients, ClearFailed(c) PROVE LockInv'
  <2>1. lockFile # NoFile => lockFile.by \in Clients
    BY DEF TypeOK, LockFiles
  <2> QED BY <1>9, <2>1 DEF ClearFailed, PathStays, TypeOK
<1>7. ASSUME NEW p \in Procs, Crash(p) PROVE LockInv'
  <2> USE DEF Crash, TypeOK
  <2>1. \A q \in Procs : gen'[q] \in Nat /\ gen[q] <= gen'[q] /\ (q # p => gen'[q] = gen[q])
    BY <1>7
  <2>2. \A c \in Clients : /\ ProcOf[c] = p => pc'[c] = "idle"
                           /\ ProcOf[c] # p => pc'[c] = pc[c]
    BY <1>7
  <2>3. FileInv'
    <3> SUFFICES ASSUME lockFile # NoFile PROVE lockFile.pid[1] = ProcOf[lockFile.by] /\ lockFile.pid[2] <= gen'[lockFile.pid[1]]
      BY <1>7
    <3>1. lockFile.by \in Clients /\ lockFile.pid[1] \in Procs /\ lockFile.pid[2] \in Nat
      BY DEF LockFiles, Pids
    <3> QED BY <2>1, <3>1
  <2>4. LeftOnlyByFailedDrop'
    <3> SUFFICES ASSUME lockFile # NoFile, gen'[lockFile.pid[1]] = lockFile.pid[2], ~left
                 PROVE  pc'[lockFile.by] \in {"info", "hold"}
      BY <1>7
    <3>1. lockFile.by \in Clients /\ lockFile.pid[1] \in Procs /\ lockFile.pid[2] \in Nat
      BY DEF LockFiles, Pids
    <3>2. ProcOf[lockFile.by] # p
      BY <1>7, <3>1
    <3> QED BY <2>1, <2>2, <3>1, <3>2
  <2>5. OwnInv'
    BY <1>7, <2>1, <2>2
  <2>6. SeenInv'
    BY <1>7, <2>1, <2>2 DEF Pids
  <2>7. SameInv'
    BY <1>7, <2>2
  <2>8. RacedInv'
    BY <1>7
  <2> QED BY <2>3, <2>4, <2>5, <2>6, <2>7, <2>8
<1>8. CASE UNCHANGED vars
  BY <1>8 DEF vars
<1> QED BY <1>1, <1>2, <1>3, <1>4, <1>5, <1>6, <1>7, <1>8, <1>9
        DEF Next, ClearStep, ClearRemove

\* LockInv is an invariant of the lock protocol.
THEOREM LockInvariant == Spec => []LockInv
BY InitLockInv, NextLockInv, PTL DEF Spec

\* Two pipelines hold a ReviewGuard at once only after a clear removed a file other
\* than the one it examined: the window in clear_stale_lock_if_dead is the only hole,
\* removals that fail included.
THEOREM ReviewExclusion == Spec => []ExclusiveUnlessRaced
<1>1. LockInv => ExclusiveUnlessRaced
  BY DEF LockInv, OwnInv, Engaged, ExclusiveUnlessRaced, Holders
<1> QED BY LockInvariant, <1>1, PTL

\* Where pid_alive is constantly true the window does not exist, and the documented
\* rule holds without reservation; a dead holder's file then stays for ever.
THEOREM ExclusiveOffUnix == ASSUME ~Unix PROVE Spec => []MutualExclusion
<1>1. LockInv => MutualExclusion
  BY DEF LockInv, OwnInv, RacedInv, Engaged, MutualExclusion, Holders
<1> QED BY LockInvariant, <1>1, PTL

\* A lock file of a living process is backed by a call or a guard of its creator, or
\* by the failure of that guard's own remove_file.
THEOREM LockLeftOnlyByFailedDrop == Spec => []LeftOnlyByFailedDrop
<1>1. LockInv => LeftOnlyByFailedDrop
  BY DEF LockInv
<1> QED BY LockInvariant, <1>1, PTL
=============================================================================
