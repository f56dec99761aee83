--------------------------- MODULE SnapshotEpoch ---------------------------
(***************************************************************************)
(* core/review_coord, second half: the epoch file of one repository, which *)
(* every git mutation bumps and every review compares.  A bump reads the   *)
(* file, truncates it and writes the successor, in three file-system calls *)
(* that nothing keeps together; a review samples it when it starts.        *)
(***************************************************************************)
EXTENDS Integers

CONSTANTS Bumpers,      \* callers of bump_snapshot_epoch(_for)
          Reviewers,    \* reviews that compare epochs
          Blank,        \* the file is missing or holds no number
          EpochMax      \* u64::MAX, where saturating_add stops

ASSUME EpochMaxAssumption == EpochMax \in Nat
ASSUME BlankAssumption == Blank \notin Nat

VARIABLES
    epochFile,  \* the number in the file, or Blank
    pc,         \* per bumper: idle, open (about to truncate), write
    current,    \* the value a bump read
    base,       \* per review: the epoch it started from; Blank when none is running
    moved,      \* history: reviews during which some bump completed
    torn        \* history: two bumps overlapped, or one died or failed half-way

vars == <<epochFile, pc, current, base, moved, torn>>

Epochs == 0 .. EpochMax

\* Every epoch, in the file, in a bump or in a review, is a u64: the addition in a bump
\* never leaves the range.
TypeOK ==
    /\ epochFile \in Epochs \union {Blank}
    /\ pc \in [Bumpers -> {"idle", "open", "write"}]
    /\ current \in [Bumpers -> Epochs]
    /\ base \in [Reviewers -> Epochs \union {Blank}]
    /\ moved \subseteq Reviewers
    /\ torn \in BOOLEAN

Init ==
    /\ epochFile = Blank
    /\ pc = [b \in Bumpers |-> "idle"]
    /\ current = [b \in Bumpers |-> 0]
    /\ base = [r \in Reviewers |-> Blank]
    /\ moved = {}
    /\ torn = FALSE

-----------------------------------------------------------------------------
\* read_epoch: whatever cannot be read or parsed counts as 0.
read_epoch == IF epochFile = Blank THEN 0 ELSE epochFile

\* Mutant of saturating_add: plain addition runs past u64::MAX.
unchecked_add(n) == n + 1

saturating_add(n) == IF n = EpochMax THEN n ELSE n + 1

BumpRead(b) ==
    /\ pc[b] = "idle"
    /\ current' = [current EXCEPT ![b] = read_epoch]
    /\ torn' = (torn \/ \E o \in Bumpers : pc[o] # "idle")
    /\ pc' = [pc EXCEPT ![b] = "open"]
    /\ UNCHANGED <<epochFile, base, moved>>

\* fs::write opens with truncation ...
BumpOpen(b) ==
    /\ pc[b] = "open"
    /\ epochFile' = Blank
    /\ pc' = [pc EXCEPT ![b] = "write"]
    /\ UNCHANGED <<current, base, moved, torn>>

\* Mutant of BumpWrite: the value read is written back without the increment.
BumpWriteSame(b) ==
    /\ pc[b] = "write"
    /\ epochFile' = current[b]
    /\ moved' = {r \in Reviewers : base[r] # Blank}
    /\ pc' = [pc EXCEPT ![b] = "idle"]
    /\ UNCHANGED <<current, base, torn>>

\* ... and then writes the digits.
BumpWrite(b) ==
    /\ pc[b] = "write"
    /\ epochFile' = saturating_add(current[b])
    /\ moved' = {r \in Reviewers : base[r] # Blank}
    /\ pc' = [pc EXCEPT ![b] = "idle"]
    /\ UNCHANGED <<current, base, torn>>

\* The process dies or the write fails; the error is dropped by `let _ =`.
BumpAbort(b) ==
    /\ pc[b] # "idle"
    /\ torn' = (torn \/ pc[b] = "write")
    /\ pc' = [pc EXCEPT ![b] = "idle"]
    /\ UNCHANGED <<epochFile, current, base, moved>>

\* A review records current_snapshot_epoch_for when it is sent ...
StartReview(r) ==
    /\ base[r] = Blank
    /\ base' = [base EXCEPT ![r] = read_epoch]
    /\ moved' = moved \ {r}
    /\ UNCHANGED <<epochFile, pc, current, torn>>

\* ... and compares it when it ends.
EndReview(r) ==
    /\ base[r] # Blank
    /\ base' = [base EXCEPT ![r] = Blank]
    /\ moved' = moved \ {r}
    /\ UNCHANGED <<epochFile, pc, current, torn>>

Next ==
    \/ \E b \in Bumpers : BumpRead(b) \/ BumpOpen(b) \/ BumpWrite(b) \/ BumpAbort(b)
    \/ \E r \in Reviewers : StartReview(r) \/ EndReview(r)

Spec == Init /\ [][Next]_vars

-----------------------------------------------------------------------------
(* Properties *)

\* The check before a follow-up review: once a bump completed since the review
\* started, it reads a greater epoch (short of u64::MAX).
Advanced(r) == base[r] < EpochMax => read_epoch > base[r]

Moved == {r \in moved : base[r] # Blank}

\* Both comparisons, # when a review ends and > before a follow-up, detect every
\* completed bump when bumps do not overlap, none fails half-way and none is between
\* truncating and writing at that moment.
DetectedUnlessTorn ==
    ~torn /\ (\A b \in Bumpers : pc[b] # "write") => \A r \in Moved : Advanced(r)
=============================================================================
