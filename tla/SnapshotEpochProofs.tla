------------------------ MODULE SnapshotEpochProofs ------------------------
(***************************************************************************)
(* The epoch file: every epoch is a u64, and a bump that completed during  *)
(* a review is seen by it, for any number of bumpers and reviews, as long  *)
(* as bumps neither overlap nor stop half-way.                             *)
(***************************************************************************)
EXTENDS SnapshotEpoch, TLAPS

USE EpochMaxAssumption, BlankAssumption

\* Nobody bumps at the same time as b.
Alone(b) == \A o \in Bumpers : o # b => pc[o] = "idle"

\* The value the file had, or still has, when the bump in progress began.
Reviewed(n) ==
    \A r \in Reviewers : base[r] # Blank =>
        /\ base[r] <= n
        /\ r \in moved /\ base[r] < EpochMax => base[r] < n

\* As long as no bump is torn, the file (or, while it is truncated, the value the bump
\* in progress has read) is at least every review's base, and above it once moved.
Orderly ==
    /\ \A b \in Bumpers : pc[b] # "idle" => Alone(b)
    /\ \A b \in Bumpers : pc[b] = "open" => current[b] = read_epoch
    /\ \A b \in Bumpers : pc[b] = "write" => epochFile = Blank /\ Reviewed(current[b])
    /\ (\A b \in Bumpers : pc[b] # "write") => Reviewed(read_epoch)

EpochInv == TypeOK /\ (~torn => Orderly)

LEMMA ReadTyped == ASSUME TypeOK PROVE read_epoch \in Epochs
BY DEF TypeOK, read_epoch, Epochs

LEMMA AddTyped ==
    ASSUME NEW n \in Epochs
    PROVE  /\ saturating_add(n) \in Epochs /\ saturating_add(n) >= n
           /\ saturating_add(n) # n \/ n = EpochMax
BY DEF saturating_add, Epochs

LEMMA EpochTyped == ASSUME TypeOK, [Next]_vars PROVE TypeOK'
<1>1. ASSUME NEW b \in Bumpers, BumpRead(b) PROVE TypeOK'
  BY <1>1, ReadTyped DEF BumpRead, TypeOK
<1>2. ASSUME NEW b \in Bumpers, BumpOpen(b) PROVE TypeOK' BY <1>2 DEF BumpOpen, TypeOK
<1>3. ASSUME NEW b \in Bumpers, BumpWrite(b) PROVE TypeOK'
  <2>1. saturating_add(current[b]) \in Epochs BY AddTyped DEF TypeOK
  <2> QED BY <1>3, <2>1 DEF BumpWrite, TypeOK
<1>4. ASSUME NEW b \in Bumpers, BumpAbort(b) PROVE TypeOK' BY <1>4 DEF BumpAbort, TypeOK
<1>5. ASSUME NEW r \in Reviewers, StartReview(r) PROVE TypeOK'
  BY <1>5, ReadTyped DEF StartReview, TypeOK
<1>6. ASSUME NEW r \in Reviewers, EndReview(r) PROVE TypeOK' BY <1>6 DEF EndReview, TypeOK
<1>7. CASE UNCHANGED vars BY <1>7 DEF vars, TypeOK
<1> QED BY <1>1, <1>2, <1>3, <1>4, <1>5, <1>6, <1>7 DEF Next

LEMMA EpochOrderly ==
    ASSUME TypeOK, ~torn => Orderly, [Next]_vars, ~torn'
    PROVE  Orderly'
<1> USE DEF TypeOK
<1>r. read_epoch \in Epochs BY ReadTyped
<1>1. ASSUME NEW b \in Bumpers, BumpRead(b) PROVE Orderly'
  <2>1. ~torn /\ \A o \in Bumpers : pc[o] = "idle" BY <1>1 DEF BumpRead
  <2>2. Reviewed(read_epoch) BY <2>1 DEF Orderly
  <2>3. /\ \A o \in Bumpers : pc'[o] = IF o = b THEN "open" ELSE "idle"
        /\ current'[b] = read_epoch
        /\ epochFile' = epochFile /\ base' = base /\ moved' = moved
    BY <1>1, <2>1 DEF BumpRead
  <2>4. read_epoch' = read_epoch BY <2>3 DEF read_epoch
  <2>5. Reviewed(read_epoch)' BY <2>2, <2>3, <2>4 DEF Reviewed
  <2> QED BY <2>3, <2>4, <2>5 DEF Orderly, Alone
<1>2. ASSUME NEW b \in Bumpers, BumpOpen(b) PROVE Orderly'
  <2>1. Orderly /\ pc[b] = "open" BY <1>2 DEF BumpOpen
  <2>2. /\ Alone(b) /\ current[b] = read_epoch
        /\ \A o \in Bumpers : pc[o] # "write"
    BY <2>1 DEF Orderly, Alone
  <2>3. Reviewed(current[b]) BY <2>1, <2>2 DEF Orderly
  <2>4. /\ \A o \in Bumpers : pc'[o] = IF o = b THEN "write" ELSE "idle"
        /\ current' = current /\ epochFile' = Blank /\ base' = base /\ moved' = moved
    BY <1>2, <2>2 DEF BumpOpen, Alone
  <2>5. Reviewed(current[b])' BY <2>3, <2>4 DEF Reviewed
  <2> QED BY <2>4, <2>5 DEF Orderly, Alone
<1>3. ASSUME NEW b \in Bumpers, BumpWrite(b) PROVE Orderly'
  <2>1. Orderly /\ pc[b] = "write" BY <1>3 DEF BumpWrite
  <2>2. Alone(b) /\ Reviewed(current[b]) BY <2>1 DEF Orderly
  <2>3. /\ \A o \in Bumpers : pc'[o] = "idle"
        /\ epochFile' = saturating_add(current[b]) /\ base' = base
    BY <1>3, <2>2 DEF BumpWrite, Alone
  <2>4. current[b] \in Epochs /\ saturating_add(current[b]) \in Epochs BY AddTyped
  <2>5. read_epoch' = saturating_add(current[b]) BY <2>3, <2>4 DEF read_epoch, Epochs
  <2>6. Reviewed(read_epoch)'
    <3> SUFFICES ASSUME NEW r \in Reviewers, base[r] # Blank
                 PROVE  /\ base[r] <= saturating_add(current[b])
                        /\ base[r] < EpochMax => base[r] < saturating_add(current[b])
      BY <2>3, <2>5 DEF Reviewed
    <3>1. base[r] \in Epochs /\ base[r] <= current[b] BY <2>2 DEF Reviewed
    <3> QED BY <2>4, <3>1 DEF saturating_add, Epochs
  <2> QED BY <2>3, <2>6 DEF Orderly
<1>4. ASSUME NEW b \in Bumpers, BumpAbort(b) PROVE Orderly'
  <2>1. Orderly /\ pc[b] = "open" BY <1>4 DEF BumpAbort
  <2>2. Alone(b) BY <2>1 DEF Orderly
  <2>3. Reviewed(read_epoch) BY <2>1, <2>2 DEF Orderly, Alone
  <2>4. /\ \A o \in Bumpers : pc'[o] = "idle"
        /\ epochFile' = epochFile /\ base' = base /\ moved' = moved
    BY <1>4, <2>2 DEF BumpAbort, Alone
  <2>5. Reviewed(read_epoch)' BY <2>3, <2>4 DEF Reviewed, read_epoch
  <2> QED BY <2>4, <2>5 DEF Orderly
<1>5. ASSUME NEW r \in Reviewers, StartReview(r) PROVE Orderly'
  <2>1. Orderly BY <1>5 DEF StartReview
  <2>2. /\ \A q \in Reviewers : q # r => base'[q] = base[q] /\ (q \in moved' <=> q \in moved)
        /\ base'[r] = read_epoch /\ r \notin moved'
        /\ epochFile' = epochFile /\ pc' = pc /\ current' = current
    BY <1>5 DEF StartReview
  <2>3. read_epoch' = read_epoch BY <2>2 DEF read_epoch
  <2>4. ASSUME NEW n \in Epochs, Reviewed(n), read_epoch <= n PROVE Reviewed(n)'
    BY <2>2, <2>4 DEF Reviewed
  <2>5. \A b \in Bumpers : pc[b] = "write" => Reviewed(current[b])'
    <3> SUFFICES ASSUME NEW b \in Bumpers, pc[b] = "write" PROVE Reviewed(current[b])' OBVIOUS
    <3>1. epochFile = Blank /\ Reviewed(current[b]) BY <2>1 DEF Orderly
    <3>2. read_epoch <= current[b] BY <3>1 DEF read_epoch, Epochs
    <3>3. current[b] \in Epochs OBVIOUS
    <3>4. ASSUME NEW n \in Epochs, n = current[b] PROVE Reviewed(n)' BY <2>4, <3>1, <3>2, <3>4
    <3> QED BY <2>2, <3>3, <3>4 DEF Reviewed
  <2>6. (\A b \in Bumpers : pc[b] # "write") => Reviewed(read_epoch)'
    <3> SUFFICES ASSUME \A b \in Bumpers : pc[b] # "write" PROVE Reviewed(read_epoch)' OBVIOUS
    <3>1. Reviewed(read_epoch) BY <2>1 DEF Orderly
    <3> QED BY <1>r, <2>2, <2>3, <3>1 DEF Reviewed, Epochs
  <2> QED BY <2>1, <2>2, <2>3, <2>5, <2>6 DEF Orderly, Alone
<1>6. ASSUME NEW r \in Reviewers, EndReview(r) PROVE Orderly'
  <2>1. Orderly BY <1>6 DEF EndReview
  <2>2. /\ \A q \in Reviewers : q # r => base'[q] = base[q] /\ (q \in moved' <=> q \in moved)
        /\ base'[r] = Blank
        /\ epochFile' = epochFile /\ pc' = pc /\ current' = current
    BY <1>6 DEF EndReview
  <2>3. read_epoch' = read_epoch BY <2>2 DEF read_epoch
  <2>4. \A b \in Bumpers : Reviewed(current[b]) => Reviewed(current[b])' BY <2>2 DEF Reviewed
  <2>5. Reviewed(read_epoch) => Reviewed(read_epoch)' BY <2>2, <2>3 DEF Reviewed
  <2> QED BY <2>1, <2>2, <2>3, <2>4, <2>5 DEF Orderly, Alone
<1>7. CASE UNCHANGED vars
  BY <1>7 DEF vars, Orderly, Alone, Reviewed, read_epoch
<1> QED BY <1>1, <1>2, <1>3, <1>4, <1>5, <1>6, <1>7 DEF Next

\* EpochInvariant: TypeOK, and Orderly as long as no bump is torn.
THEOREM EpochInvariant == Spec => []EpochInv
<1>1. Init => EpochInv
  <2> SUFFICES ASSUME Init PROVE EpochInv OBVIOUS
  <2>0. 0 \in Epochs BY DEF Epochs
  <2>1. TypeOK BY <2>0 DEF Init, TypeOK
  <2>2. Reviewed(read_epoch) BY DEF Init, Reviewed
  <2>3. Orderly BY <2>2 DEF Init, Orderly
  <2> QED BY <2>1, <2>3 DEF EpochInv
<1>2. EpochInv /\ [Next]_vars => EpochInv'
  BY EpochTyped, EpochOrderly DEF EpochInv
<1> QED BY <1>1, <1>2, PTL DEF Spec

\* EpochsAreU64: the addition of a bump never leaves the range of a u64.
THEOREM EpochsAreU64 == Spec => []TypeOK
BY EpochInvariant, PTL DEF EpochInv

\* BumpsDetected: a bump that completed during a review makes the epoch the review
\* compares with greater than its base, unless bumps overlap or stop half-way.
THEOREM BumpsDetected == Spec => []DetectedUnlessTorn
<1>1. EpochInv => DetectedUnlessTorn
  <2> SUFFICES ASSUME EpochInv, ~torn, \A b \in Bumpers : pc[b] # "write",
                      NEW r \in moved, base[r] # Blank, base[r] < EpochMax
               PROVE  read_epoch > base[r]
    BY DEF DetectedUnlessTorn, Moved, Advanced
  <2>1. TypeOK /\ Reviewed(read_epoch) BY DEF EpochInv, Orderly
  <2>2. r \in Reviewers /\ base[r] \in Nat /\ read_epoch \in Nat
    BY <2>1, ReadTyped DEF TypeOK, Epochs
  <2> QED BY <2>1, <2>2 DEF Reviewed
<1> QED BY <1>1, EpochInvariant, PTL
=============================================================================
