----------------------- MODULE ExecAutoResolveProofs -----------------------
(***************************************************************************)
(* exec's review and auto-resolve loop: type correctness, the limit of     *)
(* re-reviews, work under the lock, and shutdown only when the loop is     *)
(* over, for every limit, mode and number of bumps and locks by others.    *)
(***************************************************************************)
EXTENDS ExecAutoResolve, TLAPS

USE NoneAssumption, MaxAttemptsAssumption, ModesAssumption, MaxForeignAssumption

Ops == {"Review", "UserInput", "Shutdown"}

EventRecords ==
    [kind : {"Exited"}, output : {"none", "empty", "findings"}, snapshot : BOOLEAN]
        \union [kind : {"TaskComplete", "ShutdownComplete", "Error"}]
        \union [kind : {"AgentStatus"}, running : BOOLEAN]

Shutdowns == {NotRequested, Sent}
    \union [pending : {TRUE}, sent : {FALSE}, deadline : {"none", "armed", "passed"}]

Typed == TypeOK /\ events \in Seq(EventRecords) /\ repo \in BOOLEAN

-----------------------------------------------------------------------------
(* Sequences, records and the shutdown state.                               *)

LEMMA Popped ==
    ASSUME NEW S, NEW q \in Seq(S), q # <<>>
    PROVE  /\ Head(q) \in S /\ Head(q) = q[1] /\ 1 \in 1 .. Len(q)
           /\ Tail(q) \in Seq(S)
           /\ \A j \in 1 .. Len(Tail(q)) : j + 1 \in 1 .. Len(q) /\ Tail(q)[j] = q[j + 1]
OBVIOUS

LEMMA Joined ==
    ASSUME NEW S, NEW q \in Seq(S), NEW es \in Seq(S)
    PROVE  /\ q \o es \in Seq(S) /\ Len(q \o es) = Len(q) + Len(es)
           /\ Len(q) \in Nat /\ Len(es) \in Nat
           /\ \A j \in 1 .. Len(q) : j \in 1 .. Len(q \o es) /\ (q \o es)[j] = q[j]
           /\ \A j \in 1 .. Len(q \o es) :
                 j \notin 1 .. Len(q) => /\ j - Len(q) \in 1 .. Len(es)
                                         /\ (q \o es)[j] = es[j - Len(q)]
OBVIOUS

LEMMA Few ==
    ASSUME NEW S, NEW a \in S, NEW b \in S
    PROVE  /\ <<a>> \in Seq(S) /\ <<a, b>> \in Seq(S) /\ Len(<<a>>) = 1 /\ Len(<<a, b>>) = 2
           /\ \A k \in 1 .. Len(<<a>>) : k = 1 /\ <<a>>[k] = a
           /\ \A k \in 1 .. Len(<<a, b>>) : (k = 1 /\ <<a, b>>[k] = a) \/ (k = 2 /\ <<a, b>>[k] = b)
OBVIOUS

LEMMA ShutdownTyped ==
    ASSUME NEW s \in Shutdowns, NEW running \in BOOLEAN
    PROVE  request_shutdown(s, running) \in Shutdowns /\ Recheck(s, running) \in Shutdowns
<1> DEFINE R == [pending : {TRUE}, sent : {FALSE}, deadline : {"none", "armed", "passed"}]
<1>a. Sent \in Shutdowns BY DEF Shutdowns
<1>b. \A d \in {"none", "armed", "passed"} : [s EXCEPT !.pending = TRUE, !.deadline = d] \in R
        \/ s = Sent
  <2>1. CASE s \in R BY <2>1
  <2>2. CASE s = NotRequested BY <2>2 DEF NotRequested
  <2> QED BY <2>1, <2>2 DEF Shutdowns
<1>c. [s EXCEPT !.pending = TRUE] \in R \/ s = Sent
  <2>1. CASE s \in R BY <2>1
  <2>2. CASE s = NotRequested BY <2>2 DEF NotRequested
  <2> QED BY <2>1, <2>2 DEF Shutdowns
<1>d. s = Sent => s.sent BY DEF Sent
<1>1. request_shutdown(s, running) \in Shutdowns
  <2> HIDE DEF R
  <2>1. R \subseteq Shutdowns BY DEF R, Shutdowns
  <2> QED BY <1>a, <1>b, <1>c, <1>d, <2>1 DEF request_shutdown
<1> QED BY <1>1 DEF Recheck

LEMMA FinishTyped ==
    ASSUME Typed, NEW st
    PROVE  Finish(st) \in Shutdowns
<1>1. sd \in Shutdowns /\ tracked \in BOOLEAN BY DEF Typed, TypeOK, Shutdowns
<1> QED BY <1>1, ShutdownTyped DEF Finish

\* What a handler submits.
LEMMA Submitted ==
    ASSUME Typed, NEW work \in {<<>>, <<"Review">>, <<"UserInput">>}, NEW s \in Shutdowns,
           Submit(work, s)
    PROVE  /\ sd' = s /\ sd' \in Shutdowns
           /\ ops' \in Seq(Ops)
           /\ reviews' \in Nat
           /\ reviews' = reviews + (IF work = <<"Review">> THEN 1 ELSE 0)
           /\ \A i \in 1 .. Len(ops) : i \in 1 .. Len(ops') /\ ops'[i] = ops[i]
           /\ \A i \in 1 .. Len(ops') : \/ i \in 1 .. Len(ops)
                                        \/ (ops'[i] = "Shutdown" /\ s.sent)
                                        \/ work # <<>> /\ i = Len(ops) + 1 /\ ops'[i] = work[1]
<1>1. ops \in Seq(Ops) /\ reviews \in Nat BY DEF Typed, TypeOK, Ops
<1>2. work \in Seq(Ops) /\ \A k \in 1 .. Len(work) : k = 1 /\ work # <<>>
  <2>1. CASE work = <<>> BY <2>1
  <2>2. CASE work = <<"Review">> BY <2>2 DEF Ops
  <2>3. CASE work = <<"UserInput">> BY <2>3 DEF Ops
  <2> QED BY <2>1, <2>2, <2>3
<1> DEFINE last == IF s.sent /\ ~sd.sent THEN <<"Shutdown">> ELSE <<>>
<1>3. /\ last \in Seq(Ops)
      /\ \A j \in 1 .. Len(last) : last[j] = "Shutdown" /\ s.sent
  <2>1. CASE s.sent /\ ~sd.sent
    <3>1. last = <<"Shutdown">> BY <2>1
    <3> QED BY <2>1, <3>1 DEF Ops
  <2>2. CASE ~(s.sent /\ ~sd.sent)
    <3>1. last = <<>> BY <2>2
    <3> QED BY <3>1
  <2> QED BY <2>1, <2>2
<1> HIDE DEF last
<1>4. ops' = (ops \o work) \o last BY DEF Submit, last
<1> DEFINE mid == ops \o work
<1>5. /\ mid \in Seq(Ops)
      /\ \A i \in 1 .. Len(ops) : i \in 1 .. Len(mid) /\ mid[i] = ops[i]
      /\ \A i \in 1 .. Len(mid) : i \notin 1 .. Len(ops) =>
             work # <<>> /\ i = Len(ops) + 1 /\ mid[i] = work[1]
  <2>1. /\ mid \in Seq(Ops)
        /\ \A i \in 1 .. Len(ops) : i \in 1 .. Len(mid) /\ mid[i] = ops[i]
        /\ \A i \in 1 .. Len(mid) : i \notin 1 .. Len(ops) =>
               i - Len(ops) \in 1 .. Len(work) /\ mid[i] = work[i - Len(ops)]
    BY <1>1, <1>2, Joined
  <2>2. Len(ops) \in Nat BY <1>1
  <2> HIDE DEF mid
  <2> SUFFICES ASSUME NEW i \in 1 .. Len(mid), i \notin 1 .. Len(ops)
               PROVE  work # <<>> /\ i = Len(ops) + 1 /\ mid[i] = work[1]
    BY <2>1
  <2>4. i - Len(ops) = 1 /\ work # <<>> /\ mid[i] = work[1] BY <1>2, <2>1
  <2>5. i \in Nat BY <2>1
  <2> QED BY <2>2, <2>4, <2>5
<1> HIDE DEF mid
<1>6. /\ ops' \in Seq(Ops)
      /\ \A i \in 1 .. Len(mid) : i \in 1 .. Len(ops') /\ ops'[i] = mid[i]
      /\ \A i \in 1 .. Len(ops') : i \notin 1 .. Len(mid) => ops'[i] = "Shutdown" /\ s.sent
  <2>1. ops' = mid \o last BY <1>4 DEF mid
  <2> QED BY <1>3, <1>5, <2>1, Joined
<1>7. reviews' \in Nat /\ sd' = s BY <1>1 DEF Submit
<1>8. reviews' = reviews + (IF work = <<"Review">> THEN 1 ELSE 0) BY DEF Submit
<1> QED BY <1>5, <1>6, <1>7, <1>8

\* What the session reports.
LEMMA Emitted ==
    ASSUME Typed, NEW es \in Seq(EventRecords), Emit(es)
    PROVE  /\ events' \in Seq(EventRecords)
           /\ Len(events) \in Nat
           /\ \A j \in 1 .. Len(events) : j \in 1 .. Len(events') /\ events'[j] = events[j]
           /\ \A j \in 1 .. Len(events') : j \notin 1 .. Len(events) =>
                 j - Len(events) \in 1 .. Len(es) /\ events'[j] = es[j - Len(events)]
<1>1. events \in Seq(EventRecords) BY DEF Typed
<1>2. CASE pump BY <1>1, <1>2, Joined DEF Emit
<1>3. CASE ~pump BY <1>1, <1>3 DEF Emit
<1> QED BY <1>2, <1>3

-----------------------------------------------------------------------------
(* Type correctness.                                                        *)

LEMMA Received ==
    ASSUME Typed, NEW kind, Receive(kind)
    PROVE  /\ events # <<>> /\ events' = Tail(events) /\ events' \in Seq(EventRecords)
           /\ Head(events) \in EventRecords /\ Head(events) = events[1]
           /\ Head(events).kind = kind /\ pc = "loop"
           /\ 1 \in 1 .. Len(events)
           /\ \A j \in 1 .. Len(events') : j + 1 \in 1 .. Len(events) /\ events'[j] = events[j + 1]
BY Popped DEF Typed, Receive

LEMMA HoldTyped ==
    ASSUME Typed, NEW held \in SUBSET {"review", "fix", "followup"}, Hold(held)
    PROVE  guards' \subseteq {"review", "fix", "followup"} /\ lock' \in {"free", "exec", "other"}
BY DEF Typed, TypeOK, Hold

\* The state a handler leaves.
LEMMA StateTyped ==
    ASSUME Typed, state # None, NEW phase \in Phases, NEW n \in Nat, NEW m \in Nat
    PROVE  /\ [state EXCEPT !.phase = phase] \in AutoResolveState
           /\ [state EXCEPT !.attempt = n, !.phase = phase] \in AutoResolveState
           /\ Remember([state EXCEPT !.phase = phase], n) \in AutoResolveState
           /\ Remember([state EXCEPT !.phase = phase, !.last_commit = m], n) \in AutoResolveState
           /\ state.attempt \in Nat
BY DEF Typed, TypeOK, AutoResolveState, Remember

LEMMA GiveUpTyped ==
    ASSUME Typed, GiveUp
    PROVE  /\ state' = None /\ base' = FALSE /\ sd' \in Shutdowns /\ ops' \in Seq(Ops)
           /\ reviews' \in Nat /\ last_review_epoch' = last_review_epoch
<1>1. sd \in Shutdowns /\ tracked \in BOOLEAN BY DEF Typed, TypeOK, Shutdowns
<1>2. request_shutdown(sd, tracked) \in Shutdowns BY <1>1, ShutdownTyped
<1> QED BY <1>2, Submitted DEF GiveUp

\* The same with the definitions the provers need; the parts a handler may change.
LEMMA TypedParts ==
    ASSUME Typed, UNCHANGED coreVars, UNCHANGED fixedVars,
           pc' \in {"loop", "done"}, state' \in AutoResolveState \union {None},
           base' \in BOOLEAN, guards' \subseteq {"review", "fix", "followup"},
           last_review_epoch' \in Nat, sd' \in Shutdowns, tracked' \in BOOLEAN,
           error_seen' \in BOOLEAN, ops' \in Seq(Ops), events' \in Seq(EventRecords),
           lock' \in {"free", "exec", "other"}, epoch' \in Nat, reviews' \in Nat,
           foreign' \in [bumps : 0 .. MaxForeignBumps, locks : 0 .. MaxForeignLocks]
    PROVE  Typed'
BY DEF Typed, TypeOK, coreVars, fixedVars, Shutdowns, Ops

LEMMA ExecTyped ==
    ASSUME Typed, ExecStep \/ DeadlinePasses \/ TimeBudgetExceeded
    PROVE  Typed'
<1>t. /\ pc \in {"loop", "done"} /\ state \in AutoResolveState \union {None}
      /\ base \in BOOLEAN /\ guards \subseteq {"review", "fix", "followup"}
      /\ last_review_epoch \in Nat /\ sd \in Shutdowns /\ tracked \in BOOLEAN
      /\ error_seen \in BOOLEAN /\ ops \in Seq(Ops) /\ events \in Seq(EventRecords)
      /\ lock \in {"free", "exec", "other"} /\ epoch \in Nat /\ reviews \in Nat /\ tree \in Nat
      /\ foreign \in [bumps : 0 .. MaxForeignBumps, locks : 0 .. MaxForeignLocks]
  BY DEF Typed, TypeOK, Shutdowns, Ops
<1>s. \A run \in BOOLEAN : Recheck(sd, run) \in Shutdowns /\ request_shutdown(sd, run) \in Shutdowns
  BY <1>t, ShutdownTyped
<1>f. \A st : Finish(st) \in Shutdowns BY FinishTyped
<1>w. \A s \in Shutdowns : Submit(<<>>, s) => sd' \in Shutdowns /\ ops' \in Seq(Ops) /\ reviews' \in Nat
  BY Submitted
<1>e. epoch + CaptureBumps \in Nat /\ epoch + CaptureAgainstBaseBumps \in Nat
  BY <1>t DEF CaptureBumps, CaptureAgainstBaseBumps
<1>1. CASE RecvExited
  <2>1. events' \in Seq(EventRecords) BY <1>1, Received DEF RecvExited
  <2>2. guards' \subseteq {"review", "fix", "followup"} /\ lock' \in {"free", "exec", "other"}
    BY <1>1, <1>t, HoldTyped DEF RecvExited
  <2>3. ASSUME NEW output PROVE NextPhase(output) \in AutoResolveState \union {None}
    <3>1. CASE state # None
      <4>1. state.attempt \in Nat BY <1>t, <3>1 DEF AutoResolveState
      <4>2. state.attempt + 1 \in Nat /\ "PendingFix" \in Phases BY <4>1 DEF Phases
      <4>3. [state EXCEPT !.attempt = state.attempt + 1, !.phase = "PendingFix"]
              \in AutoResolveState
        BY <3>1, <4>2, StateTyped
      <4> QED BY <4>3 DEF NextPhase
    <3> QED BY <3>1 DEF NextPhase
  <2>4. state' \in AutoResolveState \union {None} /\ base' \in BOOLEAN
    BY <1>1, <1>t, <2>3 DEF RecvExited
  <2>5. sd' \in Shutdowns /\ ops' \in Seq(Ops) /\ reviews' \in Nat
    BY <1>1, <1>t, <1>s, <1>w DEF RecvExited
  <2> QED BY <1>1, <1>t, <2>1, <2>2, <2>4, <2>5, TypedParts DEF RecvExited
<1>2. CASE CompleteOther
  <2>1. events' \in Seq(EventRecords) BY <1>2, Received DEF CompleteOther
  <2>2. sd' \in Shutdowns /\ ops' \in Seq(Ops) /\ reviews' \in Nat
    BY <1>2, <1>f, <1>w DEF CompleteOther
  <2> QED BY <1>2, <1>t, <2>1, <2>2, TypedParts DEF CompleteOther, sharedVars
<1>3. CASE DispatchFix
  <2>1. events' \in Seq(EventRecords) BY <1>3, Received DEF DispatchFix
  <2>2. guards' \subseteq {"review", "fix", "followup"} /\ lock' \in {"free", "exec", "other"}
    BY <1>3, <1>t, HoldTyped DEF DispatchFix
  <2>3. state' \in AutoResolveState
    BY <1>3, <1>t, StateTyped DEF DispatchFix, InPhase, Phases
  <2>4. sd' \in Shutdowns /\ ops' \in Seq(Ops) /\ reviews' \in Nat
    BY <1>3, <1>f, Submitted DEF DispatchFix
  <2> QED BY <1>3, <1>t, <2>1, <2>2, <2>3, <2>4, TypedParts DEF DispatchFix
<1>4. CASE FixLockBusy
  <2>1. events' \in Seq(EventRecords) BY <1>4, Received DEF FixLockBusy
  <2>2. guards' \subseteq {"review", "fix", "followup"} /\ lock' \in {"free", "exec", "other"}
    BY <1>4, <1>t, HoldTyped DEF FixLockBusy
  <2> QED BY <1>4, <1>t, <2>1, <2>2, GiveUpTyped, TypedParts DEF FixLockBusy
<1>5. CASE FollowupLockBusy
  <2>1. events' \in Seq(EventRecords) BY <1>5, Received DEF FollowupLockBusy
  <2>2. guards' \subseteq {"review", "fix", "followup"} BY <1>5, <1>t DEF FollowupLockBusy
  <2>3. lock' \in {"free", "exec", "other"} BY <1>5, <1>t DEF FollowupLockBusy
  <2>4. foreign' \in [bumps : 0 .. MaxForeignBumps, locks : 0 .. MaxForeignLocks]
    BY <1>5, <1>t DEF FollowupLockBusy
  <2> QED BY <1>5, <1>t, <2>1, <2>2, <2>3, <2>4, GiveUpTyped, TypedParts DEF FollowupLockBusy
<1>6. CASE FollowupWithoutBase
  <2>1. events' \in Seq(EventRecords) BY <1>6, Received DEF FollowupWithoutBase, FollowupLocked
  <2>2. guards' \subseteq {"review", "fix", "followup"} /\ lock' \in {"free", "exec", "other"}
    BY <1>6, <1>t, HoldTyped DEF FollowupWithoutBase
  <2>3. state' \in AutoResolveState
    BY <1>6, <1>t, StateTyped DEF FollowupWithoutBase, FollowupLocked, InPhase, Phases
  <2>4. sd' \in Shutdowns /\ ops' \in Seq(Ops) /\ reviews' \in Nat
    BY <1>6, <1>f, <1>w DEF FollowupWithoutBase
  <2> QED BY <1>6, <1>t, <2>1, <2>2, <2>3, <2>4, TypedParts DEF FollowupWithoutBase
<1>7. CASE StopFollowup
  <2>1. events' \in Seq(EventRecords) BY <1>7, Received DEF StopFollowup, FollowupLocked
  <2>2. guards' \subseteq {"review", "fix", "followup"} /\ lock' \in {"free", "exec", "other"}
    BY <1>7, <1>t, HoldTyped DEF StopFollowup
  <2>3. epoch' \in Nat BY <1>7, <1>t, <1>e DEF StopFollowup
  <2> QED BY <1>7, <1>t, <2>1, <2>2, <2>3, GiveUpTyped, TypedParts DEF StopFollowup
<1>8. CASE SubmitFollowup
  <2>1. events' \in Seq(EventRecords) BY <1>8, Received DEF SubmitFollowup, FollowupLocked
  <2>2. guards' \subseteq {"review", "fix", "followup"} /\ lock' \in {"free", "exec", "other"}
    BY <1>8, <1>t, HoldTyped DEF SubmitFollowup
  <2>3. epoch' \in Nat /\ last_review_epoch' \in Nat BY <1>8, <1>e DEF SubmitFollowup
  <2>4. state' \in AutoResolveState
    BY <1>8, <1>t, <2>3, StateTyped DEF SubmitFollowup, FollowupLocked, InPhase, Phases
  <2>5. sd' \in Shutdowns /\ ops' \in Seq(Ops) /\ reviews' \in Nat
    BY <1>8, <1>f, Submitted DEF SubmitFollowup
  <2> QED BY <1>8, <1>t, <2>1, <2>2, <2>3, <2>4, <2>5, TypedParts DEF SubmitFollowup
<1>9. CASE RecvAgentStatus
  <2>1. events' \in Seq(EventRecords) BY <1>9, Received DEF RecvAgentStatus
  <2>2. Head(events) \in EventRecords /\ Head(events).kind = "AgentStatus"
    BY <1>9, Received DEF RecvAgentStatus
  <2>3. tracked' \in BOOLEAN BY <1>9, <2>2 DEF RecvAgentStatus, EventRecords
  <2>4. sd' \in Shutdowns /\ ops' \in Seq(Ops) /\ reviews' \in Nat
    BY <1>9, <1>s, <1>w, <2>3 DEF RecvAgentStatus
  <2> QED BY <1>9, <1>t, <2>1, <2>3, <2>4, TypedParts DEF RecvAgentStatus, sharedVars
<1>10. CASE RecvError
  <2>1. events' \in Seq(EventRecords) BY <1>10, Received DEF RecvError
  <2>2. sd' \in Shutdowns /\ ops' \in Seq(Ops) /\ reviews' \in Nat
    BY <1>10, <1>s, <1>t, <1>w DEF RecvError
  <2> QED BY <1>10, <1>t, <2>1, <2>2, TypedParts DEF RecvError, sharedVars
<1>11. CASE ShutdownTimer
  <2>1. sd' \in Shutdowns /\ ops' \in Seq(Ops) /\ reviews' \in Nat
    BY <1>11, <1>s, <1>t, <1>w DEF ShutdownTimer
  <2> QED BY <1>11, <1>t, <2>1, TypedParts DEF ShutdownTimer, sharedVars
<1>12. CASE DeadlinePasses
  <2>1. [sd EXCEPT !.deadline = "passed"] \in Shutdowns
    <3> DEFINE R == [pending : {TRUE}, sent : {FALSE}, deadline : {"none", "armed", "passed"}]
    <3>0. sd # NotRequested /\ sd # Sent BY <1>12 DEF DeadlinePasses, NotRequested, Sent
    <3>1. sd \in R BY <1>t, <3>0 DEF Shutdowns
    <3>2. [sd EXCEPT !.deadline = "passed"] \in R BY <3>1
    <3> QED BY <3>2 DEF Shutdowns
  <2> QED BY <1>12, <1>t, <2>1, TypedParts DEF DeadlinePasses, sharedVars
<1>13. CASE RecvShutdownComplete \/ EventsClosed \/ TimeBudgetExceeded
  <2>1. events' \in Seq(EventRecords)
    BY <1>13, <1>t, Received DEF RecvShutdownComplete, EventsClosed, TimeBudgetExceeded
  <2>2. PICK error \in BOOLEAN : Exit(error)
    BY <1>13, <1>t DEF RecvShutdownComplete, EventsClosed, TimeBudgetExceeded
  <2>3. guards' \subseteq {"review", "fix", "followup"} /\ lock' \in {"free", "exec", "other"}
    BY <1>t, <2>2, HoldTyped DEF Exit
  <2> QED BY <1>t, <2>1, <2>2, <2>3, TypedParts DEF Exit
<1> QED
  BY <1>1, <1>2, <1>3, <1>4, <1>5, <1>6, <1>7, <1>8, <1>9, <1>10, <1>11, <1>12, <1>13
     DEF ExecStep

LEMMA SessionTyped ==
    ASSUME Typed, CoreStep \/ AgentStep \/ AgentEndStep \/ InterruptStep
    PROVE  Typed'
<1>t. /\ ops \in Seq(Ops) /\ events \in Seq(EventRecords) /\ repo \in BOOLEAN /\ tree \in Nat
      /\ task \in {"none", "review", "reviewed", "turn", "ended"}
      /\ agent \in {"absent", "running", "finished"}
  BY DEF Typed, TypeOK, Ops
<1>u. UNCHANGED besideVars BY DEF CoreStep, AgentStep, AgentEndStep, InterruptStep
<1>r. \A output \in {"none", "empty", "findings"} : \A b \in BOOLEAN :
        /\ {Exited(output, repo), TaskComplete, ShutdownComplete, ErrorEvent, AgentStatus(b)}
              \subseteq EventRecords
  BY <1>t DEF Exited, TaskComplete, ShutdownComplete, ErrorEvent, AgentStatus, EventRecords
<1>e. \A a, b \in EventRecords : <<a>> \in Seq(EventRecords) /\ <<a, b>> \in Seq(EventRecords)
  OBVIOUS
<1>m. \A es \in Seq(EventRecords) : Emit(es) => events' \in Seq(EventRecords) BY Emitted
<1>o. ops # <<>> => Tail(ops) \in Seq(Ops) BY <1>t, Popped
<1>q. ASSUME ops' \in Seq(Ops), events' \in Seq(EventRecords), tree' \in Nat,
             task' \in {"none", "review", "reviewed", "turn", "ended"},
             agent' \in {"absent", "running", "finished"}
      PROVE  Typed'
  BY <1>q, <1>u DEF Typed, TypeOK, besideVars, loopVars, sharedVars, fixedVars, Ops
<1>1. CASE CoreStart BY <1>1, <1>t, <1>o, <1>q DEF CoreStart
<1>2. CASE CoreExitReview
  <2>1. events' \in Seq(EventRecords) BY <1>2, <1>r, <1>e, <1>m DEF CoreExitReview
  <2> QED BY <1>2, <1>t, <1>q, <2>1 DEF CoreExitReview
<1>3. CASE CoreCompleteReview
  <2>1. events' \in Seq(EventRecords) BY <1>3, <1>r, <1>e, <1>m DEF CoreCompleteReview
  <2> QED BY <1>3, <1>t, <1>q, <2>1 DEF CoreCompleteReview
<1>4. CASE CoreCompleteTurn
  <2>1. events' \in Seq(EventRecords) BY <1>4, <1>r, <1>e, <1>m DEF CoreCompleteTurn
  <2> QED BY <1>4, <1>t, <1>q, <2>1 DEF CoreCompleteTurn
<1>5. CASE CoreShutdown
  <2>1. events' \in Seq(EventRecords) BY <1>5, <1>r, <1>e, <1>m DEF CoreShutdown
  <2> QED BY <1>5, <1>t, <1>o, <1>q, <2>1 DEF CoreShutdown
<1>6. CASE AgentStarts
  <2>1. events' \in Seq(EventRecords) BY <1>6, <1>r, <1>e, <1>m DEF AgentStarts
  <2> QED BY <1>6, <1>t, <1>q, <2>1 DEF AgentStarts
<1>7. CASE AgentEnds
  <2>1. events' \in Seq(EventRecords) BY <1>7, <1>r, <1>e, <1>m DEF AgentEnds
  <2> QED BY <1>7, <1>t, <1>q, <2>1 DEF AgentEnds
<1>8. CASE Interrupt BY <1>8, <1>t, <1>q DEF Interrupt
<1> QED
  BY <1>1, <1>2, <1>3, <1>4, <1>5, <1>6, <1>7, <1>8
     DEF CoreStep, AgentStep, AgentEndStep, InterruptStep

LEMMA OthersTyped ==
    ASSUME Typed, OtherBump \/ OtherLock
    PROVE  Typed'
<1>t. /\ epoch \in Nat /\ lock \in {"free", "exec", "other"}
      /\ foreign \in [bumps : 0 .. MaxForeignBumps, locks : 0 .. MaxForeignLocks]
  BY DEF Typed, TypeOK
<1>1. /\ epoch' \in Nat /\ lock' \in {"free", "exec", "other"}
      /\ foreign' \in [bumps : 0 .. MaxForeignBumps, locks : 0 .. MaxForeignLocks]
  <2>1. CASE OtherBump BY <1>t, <2>1 DEF OtherBump
  <2>2. CASE OtherLock BY <1>t, <2>2 DEF OtherLock
  <2> QED BY <2>1, <2>2
<1>2. UNCHANGED <<loopVars, ops, events, coreVars, reviews, fixedVars>> BY DEF OtherBump, OtherLock
<1>3. /\ pc' = pc /\ state' = state /\ base' = base /\ guards' = guards /\ sd' = sd
      /\ last_review_epoch' = last_review_epoch /\ tracked' = tracked
      /\ error_seen' = error_seen /\ ops' = ops /\ events' = events /\ reviews' = reviews
      /\ UNCHANGED coreVars /\ UNCHANGED fixedVars
  BY <1>2 DEF loopVars
<1> QED BY <1>1, <1>3, TypedParts DEF Typed, TypeOK, Shutdowns, Ops

LEMMA InitTyped == Init => Typed
<1> SUFFICES ASSUME Init PROVE Typed OBVIOUS
<1>1. PICK working \in {0, CaptureBumps, CaptureAgainstBaseBumps} :
        /\ epoch = (IF captured THEN CaptureBumps ELSE 0) + working
        /\ working # 0 => captured
        /\ tree = IF working = CaptureAgainstBaseBumps THEN 1 ELSE 0
        /\ state = IF requested
                   THEN [phase |-> "WaitingForReview", attempt |-> 0,
                         snapshot_epoch |-> epoch - working,
                         last_commit |-> IF tree = 0 THEN None ELSE tree]
                   ELSE None
  BY DEF Init
<1>2. epoch \in Nat /\ tree \in Nat /\ epoch - working \in Nat
  <2>1. epoch = working \/ epoch = 2 + working BY <1>1 DEF CaptureBumps
  <2>2. working \in {0, 2, 3} BY DEF CaptureBumps, CaptureAgainstBaseBumps
  <2>3. tree \in {0, 1} BY <1>1
  <2> QED BY <2>1, <2>2, <2>3
<1>3. state \in AutoResolveState \union {None}
  BY <1>1, <1>2 DEF AutoResolveState, Phases
<1>4. ops \in Seq({"Review", "UserInput", "Shutdown"}) /\ events \in Seq(EventRecords)
  BY DEF Init
<1>5. foreign \in [bumps : 0 .. MaxForeignBumps, locks : 0 .. MaxForeignLocks]
  BY DEF Init
<1>6. base \in BOOLEAN /\ tracked \in BOOLEAN /\ error_seen \in BOOLEAN /\ repo \in BOOLEAN
  BY Zenon DEF Init
<1>7. guards \subseteq {"review", "fix", "followup"} /\ lock \in {"free", "exec", "other"}
  BY DEF Init
<1>8. last_review_epoch \in Nat /\ reviews \in Nat BY <1>2 DEF Init
<1>9. pc = "loop" /\ task = "none" /\ agent = "absent" /\ sd = NotRequested BY DEF Init
<1> QED BY <1>2, <1>3, <1>4, <1>5, <1>6, <1>7, <1>8, <1>9 DEF Typed, TypeOK

LEMMA NextTyped == Typed /\ [Next]_vars => Typed'
<1> SUFFICES ASSUME Typed, [Next]_vars PROVE Typed' OBVIOUS
<1>1. CASE UNCHANGED vars
  <2>1. /\ pc' = pc /\ state' = state /\ base' = base /\ guards' = guards /\ sd' = sd
        /\ last_review_epoch' = last_review_epoch /\ tracked' = tracked
        /\ error_seen' = error_seen /\ ops' = ops /\ events' = events /\ reviews' = reviews
        /\ lock' = lock /\ epoch' = epoch /\ foreign' = foreign
        /\ UNCHANGED coreVars /\ UNCHANGED fixedVars
    BY <1>1 DEF vars, loopVars, sharedVars
  <2> QED BY <2>1, TypedParts DEF Typed, TypeOK, Shutdowns, Ops
<1>2. CASE Next BY <1>2, ExecTyped, SessionTyped, OthersTyped DEF Next
<1> QED BY <1>1, <1>2

LEMMA AlwaysTyped == Spec => []Typed
BY InitTyped, NextTyped, PTL DEF Spec

\* Whatever the limit, the mode and the interleaving with the session and with other
\* processes, the loop of run_main keeps its types, and its shutdown state is one of:
\* not requested, pending with or without a deadline, sent.
THEOREM LoopTyped == Spec => []TypeOK
<1>1. Typed => TypeOK BY DEF Typed
<1> QED BY <1>1, AlwaysTyped, PTL

-----------------------------------------------------------------------------
(* The limit of re-reviews.                                                 *)

\* Every review but the first has an attempt of its own, counted before its fix.
Counted ==
    /\ state # None => /\ MaxAttempts > 0 => state.attempt <= MaxAttempts
                       /\ reviews <= state.attempt
                                        + (IF state.phase = "WaitingForReview" THEN 1 ELSE 0)
    /\ ReviewsBounded

\* A handler that submits no work.
LEMMA Quiet ==
    ASSUME Typed, NEW s \in Shutdowns, Submit(<<>>, s)
    PROVE  /\ reviews' = reviews /\ sd' = s
           /\ \A i \in 1 .. Len(ops) : i \in 1 .. Len(ops') /\ ops'[i] = ops[i]
           /\ \A i \in 1 .. Len(ops') : i \in 1 .. Len(ops) \/ (ops'[i] = "Shutdown" /\ s.sent)
<1>1. reviews \in Nat BY DEF Typed, TypeOK
<1>2. reviews' = reviews BY <1>1 DEF Submit
<1>3. /\ sd' = s
      /\ \A i \in 1 .. Len(ops) : i \in 1 .. Len(ops') /\ ops'[i] = ops[i]
      /\ \A i \in 1 .. Len(ops') : \/ i \in 1 .. Len(ops)
                                   \/ (ops'[i] = "Shutdown" /\ s.sent)
                                   \/ <<>> # <<>> /\ i = Len(ops) + 1 /\ ops'[i] = <<>>[1]
  <2>1. <<>> \in {<<>>, <<"Review">>, <<"UserInput">>} OBVIOUS
  <2> QED BY <2>1, Submitted
<1> QED BY <1>2, <1>3

LEMMA GiveUpQuiet ==
    ASSUME Typed, GiveUp
    PROVE  /\ state' = None /\ reviews' = reviews
           /\ \A i \in 1 .. Len(ops) : i \in 1 .. Len(ops') /\ ops'[i] = ops[i]
           /\ \A i \in 1 .. Len(ops') : i \in 1 .. Len(ops) \/ (ops'[i] = "Shutdown" /\ sd'.sent)
<1>1. sd \in Shutdowns /\ tracked \in BOOLEAN BY DEF Typed, TypeOK, Shutdowns
<1>2. request_shutdown(sd, tracked) \in Shutdowns BY <1>1, ShutdownTyped
<1> QED BY <1>2, Quiet DEF GiveUp

\* The steps of the loop that submit no work and leave its state alone.
IdleStep ==
    \/ CompleteOther \/ RecvAgentStatus \/ RecvError \/ DeadlinePasses \/ ShutdownTimer
    \/ RecvShutdownComplete \/ EventsClosed \/ TimeBudgetExceeded

LEMMA Idle ==
    ASSUME Typed, IdleStep
    PROVE  /\ state' = state /\ reviews' = reviews
           /\ \A i \in 1 .. Len(ops) : i \in 1 .. Len(ops') /\ ops'[i] = ops[i]
           /\ \A i \in 1 .. Len(ops') : i \in 1 .. Len(ops) \/ (ops'[i] = "Shutdown" /\ sd'.sent)
<1>t. sd \in Shutdowns /\ tracked \in BOOLEAN BY DEF Typed, TypeOK, Shutdowns
<1>s. \A run \in BOOLEAN : Recheck(sd, run) \in Shutdowns /\ request_shutdown(sd, run) \in Shutdowns
  BY <1>t, ShutdownTyped
<1>q. ASSUME NEW s \in Shutdowns, Submit(<<>>, s), state' = state
      PROVE  /\ state' = state /\ reviews' = reviews
             /\ \A i \in 1 .. Len(ops) : i \in 1 .. Len(ops') /\ ops'[i] = ops[i]
             /\ \A i \in 1 .. Len(ops') : i \in 1 .. Len(ops) \/ (ops'[i] = "Shutdown" /\ sd'.sent)
  BY <1>q, Quiet
<1>1. CASE CompleteOther
  <2>1. Finish(state) \in Shutdowns BY FinishTyped
  <2> QED BY <1>1, <1>q, <2>1 DEF CompleteOther
<1>2. CASE RecvAgentStatus
  <2>1. tracked' \in BOOLEAN
    <3>1. Head(events) \in EventRecords /\ Head(events).kind = "AgentStatus"
      BY <1>2, Received DEF RecvAgentStatus
    <3> QED BY <1>2, <3>1 DEF RecvAgentStatus, EventRecords
  <2> QED BY <1>2, <1>s, <1>q, <2>1 DEF RecvAgentStatus
<1>3. CASE RecvError BY <1>3, <1>t, <1>s, <1>q DEF RecvError
<1>4. CASE ShutdownTimer BY <1>4, <1>t, <1>s, <1>q DEF ShutdownTimer
<1>5. CASE DeadlinePasses
  <2>1. ops' = ops /\ state' = state /\ reviews' = reviews BY <1>5 DEF DeadlinePasses
  <2> QED BY <2>1
<1>6. CASE RecvShutdownComplete \/ EventsClosed \/ TimeBudgetExceeded
  <2>1. PICK error : Exit(error)
    BY <1>6 DEF RecvShutdownComplete, EventsClosed, TimeBudgetExceeded
  <2>2. ops' = ops /\ state' = state /\ reviews' = reviews BY <2>1 DEF Exit
  <2> QED BY <2>2
<1> QED BY <1>1, <1>2, <1>3, <1>4, <1>5, <1>6 DEF IdleStep

LEMMA BesideKept ==
    ASSUME CoreStep \/ AgentStep \/ AgentEndStep \/ InterruptStep
    PROVE  UNCHANGED besideVars
BY DEF CoreStep, AgentStep, AgentEndStep, InterruptStep

LEMMA InitCounted == Init => Counted
<1> SUFFICES ASSUME Init PROVE Counted OBVIOUS
<1>1. state # None => state.attempt = 0 /\ state.phase = "WaitingForReview" BY DEF Init
<1>2. reviews = 1 BY DEF Init
<1> QED BY <1>1, <1>2 DEF Counted, ReviewsBounded

LEMMA NextCounted ==
    ASSUME Typed, Counted, [Next]_vars
    PROVE  Counted'
<1>t. reviews \in Nat /\ state \in AutoResolveState \union {None} /\ tracked \in BOOLEAN
      /\ sd \in Shutdowns
  BY DEF Typed, TypeOK, Shutdowns
<1>a. state # None => state.attempt \in Nat BY <1>t DEF AutoResolveState
<1>0. CASE state' = state /\ reviews' = reviews BY <1>0 DEF Counted, ReviewsBounded
<1>1. CASE RecvExited
  <2>1. reviews' = reviews
    BY <1>1, <1>t, ShutdownTyped, Quiet DEF RecvExited
  <2>2. state' = None \/ \E output : state' = NextPhase(output) BY <1>1 DEF RecvExited
  <2>3. ASSUME state' # None
        PROVE  /\ state # None /\ state'.attempt = state.attempt + 1
               /\ state'.phase = "PendingFix" /\ ~LimitReached(state)
    BY <1>t, <2>2, <2>3 DEF NextPhase, AutoResolveState
  <2> QED BY <1>a, <1>t, <2>1, <2>3 DEF Counted, ReviewsBounded, LimitReached
<1>2. CASE DispatchFix
  <2>1. reviews' = reviews BY <1>2, <1>t DEF DispatchFix, Submit
  <2>2. state # None /\ state.phase = "PendingFix" BY <1>2 DEF DispatchFix, InPhase
  <2>3. state'.attempt = state.attempt /\ state'.phase = "AwaitingFix"
    BY <1>2, <1>t, <2>2 DEF DispatchFix, Remember, AutoResolveState
  <2> QED BY <1>a, <1>t, <2>1, <2>2, <2>3 DEF Counted, ReviewsBounded
<1>3. CASE FixLockBusy \/ FollowupLockBusy \/ StopFollowup
  <2>1. state' = None /\ reviews' = reviews
    BY <1>3, GiveUpQuiet DEF FixLockBusy, FollowupLockBusy, StopFollowup
  <2> QED BY <2>1 DEF Counted, ReviewsBounded
<1>4. CASE FollowupWithoutBase
  <2>1. reviews' = reviews BY <1>4, FinishTyped, Quiet DEF FollowupWithoutBase
  <2>2. state # None /\ state.phase = "AwaitingFix"
    BY <1>4 DEF FollowupWithoutBase, FollowupLocked, InPhase
  <2>3. state'.attempt = state.attempt /\ state'.phase = "WaitingForReview"
    BY <1>4, <1>t, <2>2 DEF FollowupWithoutBase, AutoResolveState
  <2> QED BY <1>a, <1>t, <2>1, <2>2, <2>3 DEF Counted, ReviewsBounded
<1>5. CASE SubmitFollowup
  <2>1. reviews' = reviews + 1 BY <1>5, <1>t DEF SubmitFollowup, Submit
  <2>2. state # None /\ state.phase = "AwaitingFix"
    BY <1>5 DEF SubmitFollowup, FollowupLocked, InPhase
  <2>3. state'.attempt = state.attempt /\ state'.phase = "WaitingForReview"
    BY <1>5, <1>t, <2>2 DEF SubmitFollowup, Remember, AutoResolveState
  <2> QED BY <1>a, <1>t, <2>1, <2>2, <2>3 DEF Counted, ReviewsBounded
<1>6. CASE IdleStep BY <1>0, <1>6, Idle
<1>7. CASE CoreStep \/ AgentStep \/ AgentEndStep \/ InterruptStep
  BY <1>0, <1>7, BesideKept DEF besideVars, loopVars
<1>8. CASE OtherBump \/ OtherLock BY <1>0, <1>8 DEF OtherBump, OtherLock, loopVars
<1>9. CASE UNCHANGED vars BY <1>0, <1>9 DEF vars, loopVars
<1> QED
  BY <1>1, <1>2, <1>3, <1>4, <1>5, <1>6, <1>7, <1>8, <1>9 DEF Next, ExecStep, IdleStep

\* exec's limit holds for every number of attempts: with a limit of n the loop of
\* review, fix and re-review submits the first review and at most n re-reviews.
THEOREM ReReviewsLimited == Spec => []ReviewsBounded
<1>1. Counted => ReviewsBounded BY DEF Counted
<1> QED BY <1>1, InitCounted, NextCounted, AlwaysTyped, PTL DEF Spec

-----------------------------------------------------------------------------
(* Work, its reports and the guards.                                        *)

NoWork == \A i \in 1 .. Len(ops) : ops[i] = "Shutdown"

Without(kinds) == \A j \in 1 .. Len(events) : events[j].kind \notin kinds

Ends == {"Exited", "TaskComplete"}

\* The loop and the session still work together.
Live == pc = "loop" /\ task # "ended"

\* One piece of work at a time: submitted, running, or reported and not yet handled;
\* and the report of its completion is the last of its reports.
Flight ==
    /\ \A i, j \in 1 .. Len(ops) : ops[i] # "Shutdown" /\ ops[j] # "Shutdown" => i = j
    /\ task \in {"review", "reviewed", "turn"} => NoWork
    /\ ~NoWork \/ task \in {"review", "turn"} => Without(Ends)
    /\ task = "reviewed" => Without({"TaskComplete"})
    /\ \A i, j \in 1 .. Len(events) :
          events[i].kind = "TaskComplete" /\ events[j].kind \in Ends => j <= i

\* exec owns the lock exactly while it holds a guard; a review's own guard is gone
\* once its findings are to be fixed.
Guarded ==
    /\ lock = "exec" <=> guards # {}
    /\ state # None /\ state.phase \in {"PendingFix", "AwaitingFix"} => "review" \notin guards

\* The guard that covers the work in flight.
Covered ==
    /\ Works("Review") \/ task = "review" => guards \intersect {"review", "followup"} # {}
    /\ Works("UserInput") \/ task = "turn" => "fix" \in guards

LockInv == Typed /\ Guarded /\ (Live => Flight) /\ (Live /\ ~unguarded => Covered)

\* The loop takes events from the front and adds no work.
LEMMA FlightKept ==
    ASSUME Typed, Flight, task' = task, ops' \in Seq(Ops), events' \in Seq(EventRecords),
           \A i \in 1 .. Len(ops') : i \in 1 .. Len(ops) \/ ops'[i] = "Shutdown",
           \A i \in 1 .. Len(ops) : i \in 1 .. Len(ops') /\ ops'[i] = ops[i],
           \/ events' = events
           \/ \A j \in 1 .. Len(events') : j + 1 \in 1 .. Len(events) /\ events'[j] = events[j + 1]
    PROVE  Flight'
<1>1. NoWork' <=> NoWork BY DEF NoWork
<1>2. \A i, j \in 1 .. Len(ops') : ops'[i] # "Shutdown" /\ ops'[j] # "Shutdown" => i = j
  BY DEF Flight
<1>3. CASE events' = events BY <1>1, <1>2, <1>3 DEF Flight, Without
<1>4. CASE \A j \in 1 .. Len(events') : j + 1 \in 1 .. Len(events) /\ events'[j] = events[j + 1]
  <2>1. \A kinds : Without(kinds) => Without(kinds)' BY <1>4 DEF Without
  <2>2. ASSUME NEW i \in 1 .. Len(events'), NEW j \in 1 .. Len(events'),
               events'[i].kind = "TaskComplete", events'[j].kind \in Ends
        PROVE  j <= i
    <3>0. /\ i + 1 \in 1 .. Len(events) /\ events[i + 1].kind = "TaskComplete"
          /\ j + 1 \in 1 .. Len(events) /\ events[j + 1].kind \in Ends
      BY <1>4, <2>2
    <3>1. j + 1 <= i + 1 BY <3>0 DEF Flight
    <3>2. i \in Nat /\ j \in Nat BY Joined
    <3> QED BY <3>1, <3>2
  <2> QED BY <1>1, <1>2, <2>1, <2>2 DEF Flight
<1> QED BY <1>3, <1>4

\* When the completion of a task is handled nothing else is in flight.
LEMMA CompletionIsLast ==
    ASSUME Typed, Live, Flight, Receive("TaskComplete")
    PROVE  /\ NoWork /\ task = "none"
           /\ \A j \in 1 .. Len(events') : events'[j].kind \notin Ends
<1>1. 1 \in 1 .. Len(events) /\ events[1].kind = "TaskComplete"
  BY Received
<1>2. ~Without(Ends) /\ ~Without({"TaskComplete"}) BY <1>1 DEF Without, Ends
<1>3. NoWork /\ task = "none"
  <2>1. task \in {"none", "review", "reviewed", "turn"} BY DEF Typed, TypeOK, Live
  <2> QED BY <1>2, <2>1 DEF Flight
<1>4. ASSUME NEW j \in 1 .. Len(events'), events'[j].kind \in Ends
      PROVE  FALSE
  <2>1. j + 1 \in 1 .. Len(events) /\ events'[j] = events[j + 1] BY Received
  <2>2. j + 1 <= 1 BY <1>1, <1>4, <2>1 DEF Flight
  <2> QED BY <2>2
<1> QED BY <1>3, <1>4

\* Work submitted by the handler of a completed task is then the only work.
LEMMA FlightStarted ==
    ASSUME Typed, Live, Flight, Receive("TaskComplete"), task' = task,
           NEW work \in {<<"Review">>, <<"UserInput">>}, NEW s \in Shutdowns, Submit(work, s)
    PROVE  /\ Flight' /\ task = "none"
           /\ \A i \in 1 .. Len(ops') : ops'[i] = "Shutdown" \/ ops'[i] = work[1]
<1>1. /\ NoWork /\ task = "none"
      /\ \A j \in 1 .. Len(events') : events'[j].kind \notin Ends
  BY CompletionIsLast
<1>2. /\ \A i \in 1 .. Len(ops) : i \in 1 .. Len(ops') /\ ops'[i] = ops[i]
      /\ \A i \in 1 .. Len(ops') : \/ i \in 1 .. Len(ops)
                                   \/ ops'[i] = "Shutdown"
                                   \/ i = Len(ops) + 1 /\ ops'[i] = work[1]
  <2>1. work \in {<<>>, <<"Review">>, <<"UserInput">>} OBVIOUS
  <2> QED BY <2>1, Submitted
<1>3. \A i \in 1 .. Len(ops') :
         ops'[i] # "Shutdown" => i = Len(ops) + 1 /\ ops'[i] = work[1]
  BY <1>1, <1>2 DEF NoWork
<1>4. Without(Ends)' BY <1>1 DEF Without
<1> QED BY <1>1, <1>3, <1>4 DEF Flight

\* The session's steps.
LEMMA SessionFlight ==
    ASSUME Typed, Live, Flight, CoreStep \/ AgentStep \/ AgentEndStep \/ InterruptStep, Live'
    PROVE  Flight'
<1>t. /\ ops \in Seq(Ops) /\ events \in Seq(EventRecords) /\ repo \in BOOLEAN
      /\ Len(events) \in Nat
  BY DEF Typed, TypeOK, Ops
<1>1. CASE CoreStart
  <2>1. /\ ops # <<>> /\ ops' = Tail(ops) /\ events' = events
        /\ task = "none" /\ task' \in {"review", "turn"} /\ Head(ops) # "Shutdown"
    BY <1>1 DEF CoreStart
  <2>2. /\ 1 \in 1 .. Len(ops) /\ ops[1] # "Shutdown"
        /\ \A j \in 1 .. Len(ops') : j + 1 \in 1 .. Len(ops) /\ ops'[j] = ops[j + 1]
    BY <1>t, <2>1, Popped
  <2>3. NoWork'
    <3> SUFFICES ASSUME NEW i \in 1 .. Len(ops'), ops'[i] # "Shutdown" PROVE FALSE BY DEF NoWork
    <3>1. i + 1 = 1 BY <2>2 DEF Flight
    <3> QED BY <3>1
  <2>4. Without(Ends) /\ (Without(Ends))' BY <2>1, <2>2 DEF Flight, NoWork, Without
  <2> QED BY <2>1, <2>3, <2>4 DEF Flight, NoWork
<1>r. /\ \A output \in {"none", "empty", "findings"} : Exited(output, repo) \in EventRecords
      /\ TaskComplete \in EventRecords /\ ErrorEvent \in EventRecords
      /\ \A b \in BOOLEAN : AgentStatus(b) \in EventRecords
  BY <1>t DEF Exited, TaskComplete, ErrorEvent, AgentStatus, EventRecords
<1>k. /\ \A output : Exited(output, repo).kind = "Exited"
      /\ TaskComplete.kind = "TaskComplete" /\ ErrorEvent.kind = "Error"
      /\ \A b : AgentStatus(b).kind = "AgentStatus"
  BY DEF Exited, TaskComplete, ErrorEvent, AgentStatus
<1>2. CASE CoreExitReview
  <2>1. task = "review" /\ task' = "reviewed" /\ ops' = ops BY <1>2 DEF CoreExitReview
  <2>2. NoWork /\ Without(Ends) BY <2>1 DEF Flight
  <2>3. PICK es \in Seq(EventRecords) :
           Emit(es) /\ \A k \in 1 .. Len(es) : es[k].kind \in {"Exited", "Error"}
    <3>1. CASE \E output \in {"none", "empty", "findings"} : Emit(<<Exited(output, repo)>>)
      <4>1. PICK output \in {"none", "empty", "findings"} : Emit(<<Exited(output, repo)>>) BY <3>1
      <4> DEFINE es == <<Exited(output, repo)>>
      <4>2. es \in Seq(EventRecords) /\ \A k \in 1 .. Len(es) : es[k].kind = "Exited"
        BY <1>r, <1>k, Few
      <4> QED BY <4>1, <4>2
    <3>2. CASE Emit(<<ErrorEvent, Exited("none", repo)>>)
      <4> DEFINE es == <<ErrorEvent, Exited("none", repo)>>
      <4>1. es \in Seq(EventRecords) /\ \A k \in 1 .. Len(es) : es[k].kind \in {"Exited", "Error"}
        BY <1>r, <1>k, Few
      <4> QED BY <3>2, <4>1
    <3> QED BY <1>2, <3>1, <3>2 DEF CoreExitReview
  <2>4. \A j \in 1 .. Len(events') : events'[j].kind # "TaskComplete"
    BY <2>2, <2>3, Emitted DEF Without, Ends
  <2>5. NoWork' BY <2>1, <2>2 DEF NoWork
  <2> QED BY <2>1, <2>2, <2>4, <2>5 DEF Flight, Without, NoWork
<1>3. CASE CoreCompleteReview \/ CoreCompleteTurn
  <2>1. task \in {"reviewed", "turn"} /\ task' = "none" /\ ops' = ops
    BY <1>3 DEF CoreCompleteReview, CoreCompleteTurn
  <2>2. NoWork /\ Without({"TaskComplete"}) BY <2>1 DEF Flight, Without, Ends
  <2>3. PICK es \in Seq(EventRecords) :
           /\ Emit(es)
           /\ \A k \in 1 .. Len(es) : es[k].kind = "Error" \/ k = Len(es)
           /\ \A k \in 1 .. Len(es) : es[k].kind \in {"Error", "TaskComplete"}
    <3>1. CASE Emit(<<TaskComplete>>)
      <4> DEFINE es == <<TaskComplete>>
      <4>1. /\ es \in Seq(EventRecords)
            /\ \A k \in 1 .. Len(es) : k = Len(es) /\ es[k].kind = "TaskComplete"
        BY <1>r, <1>k, Few
      <4> QED BY <3>1, <4>1
    <3>2. CASE Emit(<<ErrorEvent, TaskComplete>>)
      <4> DEFINE es == <<ErrorEvent, TaskComplete>>
      <4>1. /\ es \in Seq(EventRecords)
            /\ \A k \in 1 .. Len(es) : es[k].kind = "Error" \/ k = Len(es)
            /\ \A k \in 1 .. Len(es) : es[k].kind \in {"Error", "TaskComplete"}
        BY <1>r, <1>k, Few
      <4> QED BY <3>2, <4>1
    <3> QED BY <1>3, <3>1, <3>2 DEF CoreCompleteReview, CoreCompleteTurn
  <2>4. ASSUME NEW i \in 1 .. Len(events'), events'[i].kind = "TaskComplete",
               NEW j \in 1 .. Len(events'), events'[j].kind \in Ends
        PROVE  j <= i
    <3>1. i \notin 1 .. Len(events) BY <2>2, <2>4, Emitted, <2>3 DEF Without
    <3>2. i - Len(events) = Len(es) BY <2>3, <2>4, <3>1, Emitted
    <3>3. j \in 1 .. Len(events) \/ j - Len(events) = Len(es)
      BY <2>3, <2>4, Emitted DEF Ends
    <3>4. i \in Nat /\ j \in Nat /\ Len(es) \in Nat BY <2>3, Joined
    <3> QED BY <1>t, <3>1, <3>2, <3>3, <3>4
  <2>5. NoWork' BY <2>1, <2>2 DEF NoWork
  <2> QED BY <2>1, <2>4, <2>5 DEF Flight, NoWork
<1>4. CASE AgentStarts \/ AgentEnds
  <2>1. task' = task /\ ops' = ops BY <1>4 DEF AgentStarts, AgentEnds
  <2>2. PICK b \in BOOLEAN : Emit(<<AgentStatus(b)>>) BY <1>4 DEF AgentStarts, AgentEnds
  <2> DEFINE es == <<AgentStatus(b)>>
  <2>3. es \in Seq(EventRecords) /\ \A k \in 1 .. Len(es) : es[k].kind = "AgentStatus"
    BY <1>r, <1>k, Few
  <2> HIDE DEF es
  <2>e. Emit(es) BY <2>2 DEF es
  <2>4. \A j \in 1 .. Len(events') : events'[j].kind \in Ends =>
            j \in 1 .. Len(events) /\ events'[j] = events[j]
    BY <2>e, <2>3, Emitted DEF Ends
  <2>5. /\ Without(Ends) => (Without(Ends))'
        /\ Without({"TaskComplete"}) => (Without({"TaskComplete"}))'
    BY <2>4 DEF Without, Ends
  <2>6. NoWork' <=> NoWork BY <2>1 DEF NoWork
  <2> QED BY <2>1, <2>4, <2>5, <2>6 DEF Flight, Ends
<1>5. CASE Interrupt BY <1>5 DEF Interrupt, Flight, NoWork, Without
<1>6. ~CoreShutdown BY DEF CoreShutdown, Live
<1> QED
  BY <1>1, <1>2, <1>3, <1>4, <1>5, <1>6 DEF CoreStep, AgentStep, AgentEndStep, InterruptStep

\* What every step of the loop does with the events, the session's task and the start.
LEMMA LoopFrame ==
    ASSUME Typed, ExecStep \/ DeadlinePasses \/ TimeBudgetExceeded
    PROVE  /\ pc = "loop" /\ task' = task /\ unguarded' = unguarded /\ requested' = requested
           /\ \/ events' = events
              \/ \A j \in 1 .. Len(events') :
                     j + 1 \in 1 .. Len(events) /\ events'[j] = events[j + 1]
<1>1. UNCHANGED coreVars /\ UNCHANGED fixedVars
  BY DEF ExecStep, RecvExited, CompleteOther, DispatchFix, FixLockBusy, FollowupLockBusy,
         FollowupWithoutBase, StopFollowup, SubmitFollowup, RecvAgentStatus, RecvError,
         ShutdownTimer, RecvShutdownComplete, EventsClosed, DeadlinePasses, TimeBudgetExceeded, Exit
<1>2. (\E kind : Receive(kind)) \/ (events' = events /\ pc = "loop")
  BY DEF ExecStep, RecvExited, CompleteOther, DispatchFix, FixLockBusy, FollowupLockBusy,
         FollowupWithoutBase, FollowupLocked, StopFollowup, SubmitFollowup, RecvAgentStatus,
         RecvError, ShutdownTimer, RecvShutdownComplete, EventsClosed, DeadlinePasses,
         TimeBudgetExceeded, Exit
<1>3. task' = task /\ unguarded' = unguarded /\ requested' = requested
  BY <1>1 DEF coreVars, fixedVars
<1> QED BY <1>2, <1>3, Received

\* Taking and dropping guards keeps the lock and the guards together.
LEMMA HoldGuarded ==
    ASSUME Guarded, NEW held, Hold(held), held # {} => guards # {} \/ lock = "free"
    PROVE  lock' = "exec" <=> guards' # {}
BY DEF Guarded, Hold

LEMMA NextGuarded ==
    ASSUME Typed, Guarded, [Next]_vars
    PROVE  Guarded'
<1>t. state \in AutoResolveState \union {None} BY DEF Typed, TypeOK
<1>0. CASE state' = state /\ guards' = guards /\ lock' = lock BY <1>0 DEF Guarded
<1>1. CASE RecvExited
  <2>1. lock' = "exec" <=> guards' # {} BY <1>1, HoldGuarded DEF RecvExited
  <2>2. "review" \notin guards' BY <1>1 DEF RecvExited, Hold
  <2> QED BY <2>1, <2>2 DEF Guarded
<1>2. CASE DispatchFix
  <2>1. lock' = "exec" <=> guards' # {} BY <1>2, HoldGuarded DEF DispatchFix
  <2>2. "review" \notin guards' BY <1>2 DEF DispatchFix, InPhase, Guarded, Hold
  <2> QED BY <2>1, <2>2 DEF Guarded
<1>3. CASE FixLockBusy \/ StopFollowup
  <2>1. lock' = "exec" <=> guards' # {} BY <1>3, HoldGuarded DEF FixLockBusy, StopFollowup
  <2>2. state' = None BY <1>3 DEF FixLockBusy, StopFollowup, GiveUp
  <2> QED BY <2>1, <2>2 DEF Guarded
<1>4. CASE FollowupLockBusy
  <2>1. "review" \notin guards /\ "followup" \notin guards
    BY <1>4 DEF FollowupLockBusy, InPhase, Guarded
  <2>2. guards' = {} BY <1>4, <2>1 DEF FollowupLockBusy, Typed, TypeOK
  <2>3. lock' # "exec"
    <3>1. CASE "fix" \in guards BY <1>4, <3>1 DEF FollowupLockBusy
    <3>2. CASE "fix" \notin guards
      <4>1. lock # "exec" BY <2>1, <3>2 DEF Guarded, Typed, TypeOK
      <4> QED BY <1>4, <3>2, <4>1 DEF FollowupLockBusy
    <3> QED BY <3>1, <3>2
  <2> QED BY <1>4, <2>2, <2>3 DEF Guarded, FollowupLockBusy, GiveUp
<1>5. CASE FollowupWithoutBase \/ SubmitFollowup
  <2>1. lock' = "exec" <=> guards' # {}
    BY <1>5, HoldGuarded DEF FollowupWithoutBase, SubmitFollowup, FollowupLocked
  <2>2. "review" \notin guards'
    BY <1>5 DEF FollowupWithoutBase, SubmitFollowup, FollowupLocked, InPhase, Guarded, Hold
  <2> QED BY <2>1, <2>2 DEF Guarded
<1>6. CASE CompleteOther \/ RecvAgentStatus \/ RecvError \/ DeadlinePasses \/ ShutdownTimer
  BY <1>0, <1>6 DEF CompleteOther, RecvAgentStatus, RecvError, DeadlinePasses, ShutdownTimer,
                    sharedVars
<1>7. CASE RecvShutdownComplete \/ EventsClosed \/ TimeBudgetExceeded
  <2>1. PICK error : Exit(error)
    BY <1>7 DEF RecvShutdownComplete, EventsClosed, TimeBudgetExceeded
  <2>2. CASE error BY <1>0, <2>1, <2>2 DEF Exit
  <2>3. CASE ~error
    <3>1. Hold({}) /\ state' = state BY <2>1, <2>3 DEF Exit
    <3> QED BY <3>1 DEF Hold, Guarded
  <2> QED BY <2>2, <2>3
<1>8. CASE CoreStep \/ AgentStep \/ AgentEndStep \/ InterruptStep
  BY <1>0, <1>8, BesideKept DEF besideVars, loopVars, sharedVars
<1>9. CASE OtherBump \/ OtherLock BY <1>9 DEF OtherBump, OtherLock, loopVars, Guarded
<1>10. CASE UNCHANGED vars BY <1>0, <1>10 DEF vars, loopVars, sharedVars
<1> QED
  BY <1>1, <1>2, <1>3, <1>4, <1>5, <1>6, <1>7, <1>8, <1>9, <1>10 DEF Next, ExecStep

\* The steps of the loop that add no work; a shutdown they submit is recorded as sent.
QuietStep ==
    \/ RecvExited \/ FixLockBusy \/ FollowupLockBusy \/ StopFollowup \/ FollowupWithoutBase
    \/ IdleStep

LEMMA QuietOps ==
    ASSUME Typed, QuietStep
    PROVE  /\ \A i \in 1 .. Len(ops) : i \in 1 .. Len(ops') /\ ops'[i] = ops[i]
           /\ \A i \in 1 .. Len(ops') : \/ i \in 1 .. Len(ops) /\ ops'[i] = ops[i]
                                        \/ ops'[i] = "Shutdown" /\ sd'.sent
<1>t. sd \in Shutdowns /\ tracked \in BOOLEAN BY DEF Typed, TypeOK, Shutdowns
<1>1. /\ \A i \in 1 .. Len(ops) : i \in 1 .. Len(ops') /\ ops'[i] = ops[i]
      /\ \A i \in 1 .. Len(ops') : i \in 1 .. Len(ops) \/ (ops'[i] = "Shutdown" /\ sd'.sent)
  <2>1. CASE RecvExited BY <2>1, <1>t, ShutdownTyped, Quiet DEF RecvExited
  <2>2. CASE FixLockBusy \/ FollowupLockBusy \/ StopFollowup
    BY <2>2, GiveUpQuiet DEF FixLockBusy, FollowupLockBusy, StopFollowup
  <2>3. CASE FollowupWithoutBase BY <2>3, FinishTyped, Quiet DEF FollowupWithoutBase
  <2>4. CASE IdleStep BY <2>4, Idle
  <2> QED BY <2>1, <2>2, <2>3, <2>4 DEF QuietStep
<1> QED BY <1>1

LEMMA QuietFlight ==
    ASSUME Typed, Flight, QuietStep
    PROVE  Flight'
<1>1. ExecStep \/ DeadlinePasses \/ TimeBudgetExceeded BY DEF QuietStep, ExecStep, IdleStep
<1>2. Typed' BY <1>1, ExecTyped
<1>3. ops' \in Seq(Ops) /\ events' \in Seq(EventRecords) BY <1>2 DEF Typed, TypeOK, Ops
<1>4. /\ \A i \in 1 .. Len(ops') : i \in 1 .. Len(ops) \/ ops'[i] = "Shutdown"
      /\ \A i \in 1 .. Len(ops) : i \in 1 .. Len(ops') /\ ops'[i] = ops[i]
  BY QuietOps
<1> QED BY <1>1, <1>3, <1>4, LoopFrame, FlightKept

LEMMA NextFlight ==
    ASSUME Typed, Live => Flight, [Next]_vars, Live'
    PROVE  Flight'
<1>t. sd \in Shutdowns BY DEF Typed, TypeOK, Shutdowns
<1>0. Live
  <2>1. CASE ExecStep \/ DeadlinePasses \/ TimeBudgetExceeded BY <2>1, LoopFrame DEF Live
  <2>2. CASE CoreStep \/ AgentStep \/ AgentEndStep \/ InterruptStep
    BY <2>2 DEF Live, CoreStep, CoreStart, CoreExitReview, CoreCompleteReview, CoreCompleteTurn,
                CoreShutdown, AgentStep, AgentStarts, AgentEndStep, AgentEnds, InterruptStep, Interrupt
  <2>3. CASE OtherBump \/ OtherLock
    BY <2>3 DEF OtherBump, OtherLock, Live, loopVars, coreVars
  <2>4. CASE UNCHANGED vars BY <2>4 DEF vars, Live, loopVars, coreVars
  <2> QED BY <2>1, <2>2, <2>3, <2>4 DEF Next
<1>f. Flight BY <1>0
<1>1. CASE DispatchFix
  <2>1. Receive("TaskComplete") /\ task' = task BY <1>1 DEF DispatchFix, coreVars
  <2>2. PICK s \in Shutdowns : Submit(<<"UserInput">>, s) BY <1>1, FinishTyped DEF DispatchFix
  <2> QED BY <1>0, <1>f, <2>1, <2>2, FlightStarted
<1>2. CASE SubmitFollowup
  <2>1. Receive("TaskComplete") /\ task' = task BY <1>2 DEF SubmitFollowup, FollowupLocked, coreVars
  <2>2. PICK s \in Shutdowns : Submit(<<"Review">>, s) BY <1>2, FinishTyped DEF SubmitFollowup
  <2> QED BY <1>0, <1>f, <2>1, <2>2, FlightStarted
<1>3. CASE QuietStep BY <1>3, <1>f, QuietFlight
<1>4. CASE CoreStep \/ AgentStep \/ AgentEndStep \/ InterruptStep
  BY <1>0, <1>4, <1>f, SessionFlight
<1>5. CASE ops' = ops /\ events' = events /\ task' = task
  BY <1>5, <1>f DEF Flight, NoWork, Without
<1>6. CASE OtherBump \/ OtherLock BY <1>5, <1>6 DEF OtherBump, OtherLock, coreVars
<1>7. CASE UNCHANGED vars BY <1>5, <1>7 DEF vars, coreVars
<1> QED BY <1>1, <1>2, <1>3, <1>4, <1>6, <1>7 DEF Next, ExecStep, QuietStep, IdleStep

\* The handler of a report finds nothing in flight, and adds nothing unless it says so.
LEMMA ReportEndsWork ==
    ASSUME Typed, Live, Flight,
           RecvExited \/ FixLockBusy \/ FollowupLockBusy \/ StopFollowup
               \/ FollowupWithoutBase \/ CompleteOther
    PROVE  NoWork /\ NoWork' /\ task' = task /\ task \notin {"review", "turn"}
<1>1. CASE RecvExited
  <2>1. 1 \in 1 .. Len(events) /\ events[1].kind = "Exited" BY <1>1, Received DEF RecvExited
  <2>2. ~Without(Ends) BY <2>1 DEF Without, Ends
  <2>3. NoWork /\ task \notin {"review", "turn"} BY <2>2 DEF Flight
  <2>4. task' = task BY <1>1 DEF RecvExited, coreVars
  <2>5. NoWork' BY <1>1, <2>3, QuietOps DEF NoWork, QuietStep
  <2> QED BY <2>3, <2>4, <2>5
<1>2. CASE FixLockBusy \/ FollowupLockBusy \/ StopFollowup \/ FollowupWithoutBase \/ CompleteOther
  <2>1. Receive("TaskComplete")
    BY <1>2 DEF FixLockBusy, FollowupLockBusy, StopFollowup, FollowupWithoutBase, CompleteOther,
                FollowupLocked
  <2>2. NoWork /\ task = "none" BY <2>1, CompletionIsLast
  <2>3. task' = task
    BY <1>2 DEF FixLockBusy, FollowupLockBusy, StopFollowup, FollowupWithoutBase, CompleteOther,
                coreVars
  <2>4. NoWork' BY <1>2, <2>2, QuietOps DEF NoWork, QuietStep, IdleStep
  <2> QED BY <2>2, <2>3, <2>4
<1> QED BY <1>1, <1>2

LEMMA NextCovered ==
    ASSUME LockInv, [Next]_vars, Live, Live', ~unguarded
    PROVE  Covered'
<1>i. Typed /\ Flight /\ Covered BY DEF LockInv
<1>0. ASSUME guards' = guards, task' \in {task, "none", "reviewed"},
             \A i \in 1 .. Len(ops') : (i \in 1 .. Len(ops) /\ ops'[i] = ops[i]) \/ ops'[i] = "Shutdown"
      PROVE  Covered'
  <2>1. (Works("Review")' => Works("Review")) /\ (Works("UserInput")' => Works("UserInput"))
    BY <1>0 DEF Works
  <2> QED BY <1>0, <1>i, <2>1 DEF Covered
<1>1. CASE RecvExited \/ FixLockBusy \/ FollowupLockBusy \/ StopFollowup
               \/ FollowupWithoutBase \/ CompleteOther
  <2>1. NoWork' /\ task' \notin {"review", "turn"} BY <1>1, <1>i, ReportEndsWork
  <2> QED BY <2>1 DEF NoWork, Covered, Works
<1>2. CASE DispatchFix
  <2>1. Receive("TaskComplete") /\ task' = task /\ "fix" \in guards'
    BY <1>2 DEF DispatchFix, coreVars, Hold
  <2>2. PICK s \in Shutdowns : Submit(<<"UserInput">>, s) BY <1>2, <1>i, FinishTyped DEF DispatchFix
  <2>3. task = "none" /\ \A i \in 1 .. Len(ops') : ops'[i] \in {"Shutdown", "UserInput"}
    BY <1>i, <2>1, <2>2, FlightStarted
  <2>4. ~(Works("Review")') BY <2>3 DEF Works
  <2> QED BY <2>1, <2>3, <2>4 DEF Covered
<1>3. CASE SubmitFollowup
  <2>1. Receive("TaskComplete") /\ task' = task /\ "followup" \in guards'
    BY <1>3 DEF SubmitFollowup, FollowupLocked, coreVars, Hold
  <2>2. PICK s \in Shutdowns : Submit(<<"Review">>, s) BY <1>3, <1>i, FinishTyped DEF SubmitFollowup
  <2>3. task = "none" /\ \A i \in 1 .. Len(ops') : ops'[i] \in {"Shutdown", "Review"}
    BY <1>i, <2>1, <2>2, FlightStarted
  <2>4. ~(Works("UserInput")') BY <2>3 DEF Works
  <2> QED BY <2>1, <2>3, <2>4 DEF Covered
<1>4. CASE RecvAgentStatus \/ RecvError \/ DeadlinePasses \/ ShutdownTimer
  <2>1. guards' = guards /\ task' = task
    BY <1>4 DEF RecvAgentStatus, RecvError, DeadlinePasses, ShutdownTimer, coreVars
  <2> QED BY <1>0, <1>4, <1>i, <2>1, QuietOps DEF QuietStep, IdleStep
<1>5. CASE RecvShutdownComplete \/ EventsClosed \/ TimeBudgetExceeded
  BY <1>5 DEF RecvShutdownComplete, EventsClosed, TimeBudgetExceeded, Exit, Live
<1>6. CASE CoreStart /\ UNCHANGED besideVars
  <2>1. /\ ops # <<>> /\ ops' = Tail(ops) /\ guards' = guards
        /\ task' = "review" => Head(ops) = "Review"
        /\ task' = "turn" => Head(ops) = "UserInput"
    BY <1>6 DEF CoreStart, besideVars, loopVars
  <2>2. ops \in Seq(Ops) BY <1>i DEF Typed, TypeOK, Ops
  <2>3. /\ 1 \in 1 .. Len(ops) /\ ops[1] = Head(ops)
        /\ \A j \in 1 .. Len(ops') : j + 1 \in 1 .. Len(ops) /\ ops'[j] = ops[j + 1]
    BY <2>1, <2>2, Popped
  <2>4. /\ Works("Review")' \/ task' = "review" => Works("Review")
        /\ Works("UserInput")' \/ task' = "turn" => Works("UserInput")
    BY <2>1, <2>3 DEF Works
  <2> QED BY <1>i, <2>1, <2>4 DEF Covered
<1>7. CASE (CoreExitReview \/ CoreCompleteReview \/ CoreCompleteTurn \/ AgentStarts \/ AgentEnds
               \/ Interrupt) /\ UNCHANGED besideVars
  <2>1. guards' = guards /\ ops' = ops /\ task' \in {task, "none", "reviewed"}
    BY <1>7 DEF CoreExitReview, CoreCompleteReview, CoreCompleteTurn, AgentStarts, AgentEnds,
                Interrupt, besideVars, loopVars
  <2> QED BY <1>0, <2>1
<1>8. ~CoreShutdown BY DEF CoreShutdown, Live
<1>9. CASE OtherBump \/ OtherLock \/ UNCHANGED vars
  <2>1. guards' = guards /\ ops' = ops /\ task' = task
    BY <1>9 DEF OtherBump, OtherLock, vars, loopVars, coreVars
  <2> QED BY <1>0, <2>1
<1> QED
  BY <1>1, <1>2, <1>3, <1>4, <1>5, <1>6, <1>7, <1>8, <1>9
     DEF Next, ExecStep, CoreStep, AgentStep, AgentEndStep, InterruptStep

LEMMA InitLockInv == Init => LockInv
<1> SUFFICES ASSUME Init PROVE LockInv OBVIOUS
<1>1. ops = <<"Review">> /\ events = <<>> /\ task = "none" BY DEF Init
<1>2. Flight
  <2>1. \A i, j \in 1 .. Len(ops) : i = j BY <1>1
  <2>2. \A j \in 1 .. Len(events) : FALSE BY <1>1
  <2> QED BY <1>1, <2>1, <2>2 DEF Flight, Without
<1>3. Guarded BY DEF Init, Guarded
<1>4. ~unguarded => Covered
  <2>1. \A i \in 1 .. Len(ops) : ops[i] = "Review" BY <1>1
  <2> QED BY <1>1, <2>1 DEF Init, Covered, Works
<1> QED BY <1>2, <1>3, <1>4, InitTyped DEF LockInv

LEMMA NextLockInv == LockInv /\ [Next]_vars => LockInv'
<1> SUFFICES ASSUME LockInv, [Next]_vars PROVE LockInv' OBVIOUS
<1>1. Typed' BY NextTyped DEF LockInv
<1>2. Guarded' BY NextGuarded DEF LockInv
<1>3. Live' => Flight' BY NextFlight DEF LockInv
<1>4. ASSUME Live', ~unguarded' PROVE Covered'
  <2>1. Live /\ unguarded' = unguarded
    <3>1. CASE ExecStep \/ DeadlinePasses \/ TimeBudgetExceeded
      BY <1>4, <3>1, LoopFrame DEF Live, LockInv
    <3>2. CASE CoreStep \/ AgentStep \/ AgentEndStep \/ InterruptStep
      <4>1. unguarded' = unguarded /\ pc' = pc BY <3>2, BesideKept DEF besideVars, fixedVars, loopVars
      <4>2. task # "ended"
        BY <1>4, <3>2 DEF Live, CoreStep, CoreStart, CoreExitReview, CoreCompleteReview,
             CoreCompleteTurn, CoreShutdown, AgentStep, AgentStarts, AgentEndStep, AgentEnds,
             InterruptStep, Interrupt
      <4> QED BY <1>4, <4>1, <4>2 DEF Live
    <3>3. CASE OtherBump \/ OtherLock \/ UNCHANGED vars
      BY <1>4, <3>3 DEF OtherBump, OtherLock, vars, Live, loopVars, coreVars, fixedVars
    <3> QED BY <3>1, <3>2, <3>3 DEF Next
  <2>2. ~unguarded BY <1>4, <2>1
  <2> QED BY <1>4, <2>1, <2>2, NextCovered
<1> QED BY <1>1, <1>2, <1>3, <1>4 DEF LockInv

\* In the loop of run_main the guards of review, fix and follow-up are handed over so
\* that no review and no fix is ever submitted or running without the lock, whatever
\* the session reports, whenever other processes try the lock, however long it runs.
THEOREM LockedWork == Spec => []WorksUnderLock
<1>1. LockInv => WorksUnderLock
  <2> SUFFICES ASSUME LockInv, Live, ~unguarded,
                      Works("Review") \/ Works("UserInput") \/ task \in {"review", "turn"}
               PROVE  lock = "exec"
    BY DEF WorksUnderLock, Live
  <2>1. guards # {} BY DEF LockInv, Covered
  <2> QED BY <2>1 DEF LockInv, Guarded
<1> QED BY <1>1, InitLockInv, NextLockInv, PTL DEF Spec

-----------------------------------------------------------------------------
(* Shutdown.                                                                *)

\* Shutdown is asked for only with nothing in flight or to come.
Ending ==
    /\ Works("Shutdown") \/ task = "ended" => sd.sent
    /\ sd.sent \/ sd.pending => state = None /\ NoWork /\ task \in {"none", "ended"}
    /\ ~requested => state = None

EndInv == LockInv /\ Ending

Asked(s) == s.sent \/ s.pending

\* A shutdown once sent stays sent; nothing but a request asks for one.
LEMMA ShutdownKept ==
    ASSUME NEW s \in Shutdowns, NEW running \in BOOLEAN
    PROVE  /\ s.sent => request_shutdown(s, running).sent /\ Recheck(s, running).sent
           /\ Asked(Recheck(s, running)) => Asked(s)
<1>1. s.sent => request_shutdown(s, running) = Sent BY DEF request_shutdown
<1>2. Sent.sent BY DEF Sent
<1>3. ~s.pending => Recheck(s, running) = s BY DEF Recheck
<1>4. s.sent => ~s.pending
  <2>1. CASE s = NotRequested BY <2>1 DEF NotRequested
  <2>2. CASE s = Sent BY <2>2 DEF Sent
  <2>3. CASE s \in [pending : {TRUE}, sent : {FALSE}, deadline : {"none", "armed", "passed"}]
    BY <2>3
  <2> QED BY <2>1, <2>2, <2>3 DEF Shutdowns
<1> QED BY <1>1, <1>2, <1>3, <1>4 DEF Asked

\* While the loop goes on its handlers ask for no shutdown (not with the JSON processor).
LEMMA FinishLater ==
    ASSUME Typed, ~JsonMode, requested, NEW st, st # None
    PROVE  Asked(Finish(st)) => Asked(sd)
<1>1. sd \in Shutdowns /\ tracked \in BOOLEAN BY DEF Typed, TypeOK, Shutdowns
<1>2. Finish(st) = Recheck(sd, tracked) BY DEF Finish
<1> QED BY <1>1, <1>2, ShutdownKept

LEMMA FinishKept ==
    ASSUME Typed, sd.sent, NEW st
    PROVE  Finish(st).sent
<1>1. sd \in Shutdowns /\ tracked \in BOOLEAN BY DEF Typed, TypeOK, Shutdowns
<1>2. request_shutdown(sd, tracked) \in Shutdowns /\ request_shutdown(sd, tracked).sent
  BY <1>1, ShutdownTyped, ShutdownKept
<1>3. CASE JsonMode \/ ~requested
  <2>1. Finish(st) = Recheck(request_shutdown(sd, tracked), tracked) BY <1>3 DEF Finish
  <2> QED BY <1>1, <1>2, <2>1, ShutdownKept
<1>4. CASE ~(JsonMode \/ ~requested)
  <2>1. Finish(st) = Recheck(sd, tracked) BY <1>4 DEF Finish
  <2> QED BY <1>1, <2>1, ShutdownKept
<1> QED BY <1>3, <1>4

LEMMA NextEnding ==
    ASSUME ~JsonMode, EndInv, [Next]_vars
    PROVE  Ending'
<1>i. Typed /\ Ending /\ (Live => Flight) BY DEF EndInv, LockInv
<1>t. sd \in Shutdowns /\ tracked \in BOOLEAN /\ state \in AutoResolveState \union {None}
  BY <1>i DEF Typed, TypeOK, Shutdowns
<1>n. None \notin AutoResolveState BY NoStateAssumption
<1>a. state # None => ~Asked(sd) /\ requested /\ task # "ended" /\ ~Works("Shutdown")
  BY <1>i DEF Ending, Asked
<1>0. ASSUME Asked(sd') => Asked(sd), sd.sent => sd'.sent, state = None => state' = None,
             requested' = requested, task' = task,
             \A i \in 1 .. Len(ops') : \/ i \in 1 .. Len(ops) /\ ops'[i] = ops[i]
                                       \/ ops'[i] = "Shutdown" /\ sd'.sent
      PROVE  Ending'
  <2>1. Works("Shutdown")' => Works("Shutdown") \/ sd'.sent BY <1>0 DEF Works
  <2>2. NoWork => NoWork' BY <1>0 DEF NoWork
  <2> QED BY <1>0, <1>i, <2>1, <2>2 DEF Ending, Asked
<1>1. CASE RecvExited
  <2>1. sd' = sd \/ sd' = Recheck(sd, tracked) BY <1>1 DEF RecvExited, Submit
  <2>2. (Asked(sd') => Asked(sd)) /\ (sd.sent => sd'.sent) BY <1>t, <2>1, ShutdownKept
  <2>3. state = None => state' = None BY <1>1 DEF RecvExited, NextPhase
  <2>4. requested' = requested /\ task' = task BY <1>1 DEF RecvExited, fixedVars, coreVars
  <2> QED BY <1>0, <1>1, <1>i, <2>2, <2>3, <2>4, QuietOps DEF QuietStep
<1>2. CASE FixLockBusy \/ FollowupLockBusy \/ StopFollowup
  <2>1. state # None /\ Receive("TaskComplete")
    BY <1>2 DEF FixLockBusy, FollowupLockBusy, StopFollowup, FollowupLocked, InPhase
  <2>2. state' = None /\ sd' = request_shutdown(sd, tracked)
    BY <1>2 DEF FixLockBusy, FollowupLockBusy, StopFollowup, GiveUp, Submit
  <2>3. Live BY <1>a, <2>1 DEF Live, Receive
  <2>4. NoWork' /\ task' = task BY <1>2, <1>i, <2>3, ReportEndsWork
  <2>5. task = "none" BY <1>i, <2>1, <2>3, CompletionIsLast
  <2>6. Works("Shutdown")' => sd'.sent
    BY <1>2, <1>a, <1>i, <2>1, QuietOps DEF Works, QuietStep
  <2> QED BY <2>2, <2>4, <2>5, <2>6 DEF Ending
<1>3. CASE CompleteOther
  <2>1. /\ Receive("TaskComplete") /\ state' = state /\ task' = task /\ requested' = requested
        /\ sd' = Finish(state)
    BY <1>3 DEF CompleteOther, coreVars, fixedVars, Submit
  <2>2. sd.sent => sd'.sent BY <1>i, <2>1, FinishKept
  <2>3. CASE Live /\ state = None
    <3>1. NoWork' /\ task = "none" BY <1>3, <1>i, <2>1, <2>3, ReportEndsWork, CompletionIsLast
    <3>2. Works("Shutdown")' => sd'.sent
      <4>1. Works("Shutdown")' => Works("Shutdown") \/ sd'.sent
        BY <1>3, <1>i, QuietOps DEF Works, QuietStep, IdleStep
      <4> QED BY <1>i, <2>2, <4>1 DEF Ending
    <3> QED BY <2>1, <2>3, <3>1, <3>2 DEF Ending
  <2>4. CASE state # None
    <3>1. Asked(sd') => Asked(sd) BY <1>a, <1>i, <2>1, <2>4, FinishLater
    <3> QED BY <1>0, <1>3, <1>i, <2>1, <2>2, <3>1, QuietOps DEF QuietStep, IdleStep
  <2>5. CASE ~Live
    <3>1. task = "ended" BY <2>1, <2>5 DEF Live, Receive
    <3>2. Asked(sd) BY <1>i, <3>1 DEF Ending, Asked
    <3> QED BY <1>0, <1>3, <1>i, <2>1, <2>2, <3>2, QuietOps DEF QuietStep, IdleStep
  <2> QED BY <2>3, <2>4, <2>5
<1>4. CASE FollowupWithoutBase
  <2>1. state # None /\ requested' = requested /\ task' = task /\ sd' = Finish(state')
    BY <1>4 DEF FollowupWithoutBase, FollowupLocked, InPhase, Submit, fixedVars, coreVars
  <2>2. state' # None
    <3>1. state' \in AutoResolveState
      BY <1>4, <1>t, <2>1, StateTyped, <1>i DEF FollowupWithoutBase, Phases
    <3> QED BY <1>n, <3>1
  <2>3. Asked(sd') => Asked(sd) BY <1>a, <1>i, <2>1, <2>2, FinishLater
  <2>4. sd.sent => sd'.sent BY <1>i, <2>1, FinishKept
  <2> QED BY <1>0, <1>4, <1>i, <2>1, <2>3, <2>4, QuietOps DEF QuietStep
<1>5. CASE DispatchFix \/ SubmitFollowup
  <2>1. state # None /\ requested' = requested /\ task' = task /\ sd' = Finish(state')
    BY <1>5 DEF DispatchFix, SubmitFollowup, FollowupLocked, InPhase, Submit, fixedVars, coreVars
  <2>2. state' # None
    <3>2. tree \in Nat /\ epoch \in Nat /\ epoch + CaptureAgainstBaseBumps \in Nat
      BY <1>i DEF Typed, TypeOK, CaptureAgainstBaseBumps
    <3>3. CASE DispatchFix
      <4>1. state' = Remember([state EXCEPT !.phase = "AwaitingFix"], epoch)
        BY <3>3 DEF DispatchFix
      <4> QED BY <1>i, <1>n, <2>1, <3>2, <4>1, StateTyped DEF Phases
    <3>4. CASE SubmitFollowup
      <4>1. state' = Remember([state EXCEPT !.phase = "WaitingForReview", !.last_commit = tree],
                              epoch + CaptureAgainstBaseBumps)
        BY <3>4 DEF SubmitFollowup
      <4> QED BY <1>i, <1>n, <2>1, <3>2, <4>1, StateTyped DEF Phases
    <3> QED BY <1>5, <3>3, <3>4
  <2>3. Asked(sd') => Asked(sd) BY <1>a, <1>i, <2>1, <2>2, FinishLater
  <2>4. ~Asked(sd') /\ ~Works("Shutdown") /\ task' # "ended" /\ requested' BY <1>a, <2>1, <2>3
  <2>5. PICK work \in {<<>>, <<"Review">>, <<"UserInput">>} : Submit(work, Finish(state'))
    BY <1>5 DEF DispatchFix, SubmitFollowup
  <2>6. Finish(state') \in Shutdowns BY <1>i, FinishTyped
  <2>7. ~(Works("Shutdown")')
    <3>1. \A i \in 1 .. Len(ops') : \/ i \in 1 .. Len(ops)
                                    \/ ops'[i] = "Shutdown" /\ sd'.sent
                                    \/ work # <<>> /\ ops'[i] = work[1]
      BY <1>i, <2>1, <2>5, <2>6, Submitted
    <3>2. \A i \in 1 .. Len(ops) : ops'[i] = ops[i] BY <1>i, <2>5, <2>6, Submitted
    <3>3. work # <<>> => work[1] # "Shutdown" BY <2>5
    <3> QED BY <2>4, <3>1, <3>2, <3>3 DEF Works, Asked
  <2> QED BY <2>4, <2>7 DEF Ending, Asked
<1>6. CASE RecvAgentStatus \/ RecvError \/ ShutdownTimer
  <2>1. state' = state /\ requested' = requested /\ task' = task
    BY <1>6 DEF RecvAgentStatus, RecvError, ShutdownTimer, fixedVars, coreVars
  <2>2. tracked' \in BOOLEAN
    <3>1. Typed' BY <1>6, <1>i, ExecTyped DEF ExecStep
    <3> QED BY <3>1 DEF Typed, TypeOK
  <2>3. \/ sd' = Recheck(sd, tracked) \/ sd' = Recheck(sd, tracked')
        \/ Asked(sd) /\ sd' = request_shutdown(sd, tracked)
    BY <1>6 DEF RecvAgentStatus, RecvError, ShutdownTimer, Submit, Asked
  <2>4. (Asked(sd') => Asked(sd)) /\ (sd.sent => sd'.sent) BY <1>t, <2>2, <2>3, ShutdownKept
  <2> QED BY <1>0, <1>6, <1>i, <2>1, <2>4, QuietOps DEF QuietStep, IdleStep
<1>7. CASE DeadlinePasses
  <2>1. /\ state' = state /\ requested' = requested /\ task' = task /\ ops' = ops
        /\ sd' = [sd EXCEPT !.deadline = "passed"]
    BY <1>7 DEF DeadlinePasses, fixedVars, coreVars
  <2>2. sd'.sent = sd.sent /\ sd'.pending = sd.pending
    BY <1>t, <2>1 DEF Shutdowns, NotRequested, Sent
  <2> QED BY <1>0, <2>1, <2>2 DEF Asked
<1>8. CASE sd' = sd /\ state' = state /\ requested' = requested /\ task' = task /\ ops' = ops
  BY <1>0, <1>8
<1>9. CASE RecvShutdownComplete \/ EventsClosed \/ TimeBudgetExceeded
  <2>1. PICK error : Exit(error)
    BY <1>9 DEF RecvShutdownComplete, EventsClosed, TimeBudgetExceeded
  <2> QED BY <1>8, <2>1 DEF Exit, fixedVars, coreVars
<1>10. CASE OtherBump \/ OtherLock \/ UNCHANGED vars
  BY <1>8, <1>10 DEF OtherBump, OtherLock, vars, loopVars, coreVars, fixedVars
<1>11. CASE CoreStep \/ AgentStep \/ AgentEndStep \/ InterruptStep
  <2>1. sd' = sd /\ state' = state /\ requested' = requested
    BY <1>11, BesideKept DEF besideVars, loopVars, fixedVars
  <2>2. CASE AgentStarts \/ AgentEnds \/ Interrupt
    BY <1>8, <2>1, <2>2 DEF AgentStarts, AgentEnds, Interrupt
  <2>o. ops \in Seq(Ops) BY <1>i DEF Typed, TypeOK, Ops
  <2>3. CASE CoreStart
    <3>1. ops # <<>> /\ ops' = Tail(ops) /\ task' # "ended" /\ Head(ops) # "Shutdown"
      BY <2>3 DEF CoreStart
    <3>2. /\ 1 \in 1 .. Len(ops) /\ ops[1] = Head(ops)
          /\ \A j \in 1 .. Len(ops') : j + 1 \in 1 .. Len(ops) /\ ops'[j] = ops[j + 1]
      BY <2>o, <3>1, Popped
    <3>3. ~NoWork BY <3>1, <3>2 DEF NoWork
    <3>4. Works("Shutdown")' => Works("Shutdown") BY <3>2 DEF Works
    <3> QED BY <1>i, <2>1, <3>1, <3>3, <3>4 DEF Ending
  <2>4. CASE CoreExitReview \/ CoreCompleteReview \/ CoreCompleteTurn
    <3>1. task \in {"review", "reviewed", "turn"} /\ task' # "ended" /\ ops' = ops
      BY <2>4 DEF CoreExitReview, CoreCompleteReview, CoreCompleteTurn
    <3>2. Works("Shutdown")' => Works("Shutdown") BY <3>1 DEF Works
    <3> QED BY <1>i, <2>1, <3>1, <3>2 DEF Ending
  <2>5. CASE CoreShutdown
    <3>1. ops # <<>> /\ ops' = Tail(ops) /\ task' = "ended" /\ Head(ops) = "Shutdown"
      BY <2>5 DEF CoreShutdown
    <3>2. /\ 1 \in 1 .. Len(ops) /\ ops[1] = Head(ops)
          /\ \A j \in 1 .. Len(ops') : j + 1 \in 1 .. Len(ops) /\ ops'[j] = ops[j + 1]
      BY <2>o, <3>1, Popped
    <3>3. sd.sent BY <1>i, <3>1, <3>2 DEF Ending, Works
    <3>4. NoWork => NoWork' BY <3>2 DEF NoWork
    <3> QED BY <1>i, <2>1, <3>1, <3>3, <3>4 DEF Ending
  <2> QED
    BY <1>11, <2>2, <2>3, <2>4, <2>5 DEF CoreStep, AgentStep, AgentEndStep, InterruptStep
<1> QED
  BY <1>1, <1>2, <1>3, <1>4, <1>5, <1>6, <1>7, <1>9, <1>10, <1>11 DEF Next, ExecStep

LEMMA InitEnding == Init => Ending
<1> SUFFICES ASSUME Init PROVE Ending OBVIOUS
<1>1. ops = <<"Review">> /\ task = "none" /\ sd = NotRequested BY DEF Init
<1>2. ~Works("Shutdown") BY <1>1 DEF Works
<1>3. ~sd.sent /\ ~sd.pending BY <1>1 DEF NotRequested
<1>4. ~requested => state = None BY DEF Init
<1> QED BY <1>1, <1>2, <1>3, <1>4 DEF Ending

\* Outside the JSON mode exec sends Op::Shutdown only when its loop is over: no review
\* and no fix is then submitted, running or still to come, however the grace period,
\* background reviews and errors interleave.
THEOREM ShutdownWhenDone == ~JsonMode => (Spec => []ShutdownOnlyWhenDone)
<1> SUFFICES ASSUME ~JsonMode PROVE Spec => []ShutdownOnlyWhenDone OBVIOUS
<1>1. Init => EndInv BY InitEnding, InitLockInv DEF EndInv
<1>2. EndInv /\ [Next]_vars => EndInv' BY NextEnding, NextLockInv DEF EndInv
<1>3. EndInv => ShutdownOnlyWhenDone BY DEF EndInv, Ending, ShutdownOnlyWhenDone, Works, NoWork
<1> QED BY <1>1, <1>2, <1>3, PTL DEF Spec

-----------------------------------------------------------------------------
(* Something always wakes the loop.                                         *)

Owes(kind) == \E j \in 1 .. Len(events) : events[j].kind = kind

OverAfter(i) == \E j \in 1 .. Len(events) : j > i /\ events[j] = AgentStatus(FALSE)

\* A background review believed to run does run, or its end is reported.
Tracking ==
    /\ tracked => agent = "running" \/ OverAfter(0)
    /\ \A i \in 1 .. Len(events) : events[i] = AgentStatus(TRUE) => agent = "running" \/ OverAfter(i)

Goodbye == task = "ended" => Owes("ShutdownComplete")

\* Op::Shutdown is on its way or obeyed only if its sending is recorded; without
\* auto-resolve there is no state.
Recorded ==
    /\ Works("Shutdown") \/ task = "ended" => sd.sent
    /\ ~requested => state = None

Sending == sd.sent => Works("Shutdown") \/ task = "ended"

\* A shutdown without a deadline waits for a background review.
Deferred == sd.pending /\ sd.deadline = "none" => tracked

Based == state # None /\ captured => base

\* The loop waits for a review that is submitted, running or reported.
Phased ==
    captured /\ ~Asked(sd) /\ InPhase("WaitingForReview") =>
        Works("Review") \/ task = "review" \/ Owes("Exited")

\* Until shutdown is asked for, a task is still to be completed.
Owed ==
    captured \/ ~requested =>
        \/ Asked(sd) \/ ~NoWork
        \/ task \in {"review", "reviewed", "turn"} \/ Owes("TaskComplete")

Pumped == pc = "loop" /\ pump

WakeInv ==
    /\ Recorded
    /\ pc = "loop" => Sending /\ Deferred /\ Based
    /\ Pumped => Tracking /\ Goodbye /\ Phased /\ Owed

\* A request is never forgotten, and without a deadline it waits for a background review.
LEMMA ShutdownWaits ==
    ASSUME NEW s \in Shutdowns, NEW running \in BOOLEAN
    PROVE  /\ Asked(request_shutdown(s, running))
           /\ Asked(s) => Asked(Recheck(s, running))
           /\ LET r == request_shutdown(s, running) IN r.pending /\ r.deadline = "none" => running
           /\ LET r == Recheck(s, running) IN r.pending /\ r.deadline = "none" => running
<1> DEFINE R == [pending : {TRUE}, sent : {FALSE}, deadline : {"none", "armed", "passed"}]
           r == request_shutdown(s, running)
<1>1. Sent.sent /\ ~Sent.pending BY DEF Sent
<1>2. Asked(r) /\ (r.pending /\ r.deadline = "none" => running)
  <2>1. CASE s = Sent BY <1>1, <2>1 DEF request_shutdown, Asked
  <2>2. CASE s = NotRequested
    <3>1. ~s.sent /\ ~s.pending /\ s.deadline = "none" BY <2>2 DEF NotRequested
    <3>2. CASE running
      <4>1. r = [s EXCEPT !.pending = TRUE, !.deadline = "none"] BY <3>1, <3>2 DEF request_shutdown
      <4> QED BY <2>2, <3>2, <4>1 DEF NotRequested, Asked
    <3>3. CASE ~running /\ Grace
      <4>1. r = [s EXCEPT !.pending = TRUE, !.deadline = "armed"] BY <3>1, <3>3 DEF request_shutdown
      <4>2. r.pending /\ r.deadline = "armed" BY <2>2, <4>1 DEF NotRequested
      <4> QED BY <4>2 DEF Asked
    <3>4. CASE ~running /\ ~Grace
      <4>1. r = Sent BY <3>1, <3>4 DEF request_shutdown
      <4> QED BY <1>1, <4>1 DEF Asked
    <3> QED BY <3>2, <3>3, <3>4
  <2>3. CASE s \in R
    <3>1. ~s.sent /\ s.pending /\ s.deadline \in {"none", "armed", "passed"} BY <2>3
    <3>2. CASE running
      <4>1. r = [s EXCEPT !.pending = TRUE, !.deadline = "none"] BY <3>1, <3>2 DEF request_shutdown
      <4>2. r.pending BY <2>3, <4>1
      <4> QED BY <3>2, <4>2 DEF Asked
    <3>3. CASE ~running /\ Grace /\ s.deadline = "armed"
      <4>1. r = [s EXCEPT !.pending = TRUE] BY <3>1, <3>3 DEF request_shutdown
      <4>2. r.pending /\ r.deadline = "armed" BY <2>3, <3>3, <4>1
      <4> QED BY <4>2 DEF Asked
    <3>4. CASE ~running /\ ~(Grace /\ s.deadline = "armed")
      <4>1. r = Sent BY <3>1, <3>4 DEF request_shutdown
      <4> QED BY <1>1, <4>1 DEF Asked
    <3> QED BY <3>2, <3>3, <3>4
  <2> QED BY <2>1, <2>2, <2>3 DEF Shutdowns
<1> HIDE DEF r
<1>3. CASE s.pending
  <2>1. Recheck(s, running) = r BY <1>3 DEF Recheck, r
  <2> QED BY <1>2, <2>1 DEF r
<1>4. CASE ~s.pending
  <2>1. Recheck(s, running) = s BY <1>4 DEF Recheck
  <2> QED BY <1>2, <1>4, <2>1 DEF r
<1> QED BY <1>3, <1>4

LEMMA FinishWaits ==
    ASSUME Typed, NEW st
    PROVE  /\ Asked(sd) \/ st = None \/ ~requested => Asked(Finish(st))
           /\ Finish(st).pending /\ Finish(st).deadline = "none" => tracked
           /\ sd.sent => Finish(st).sent
<1>1. sd \in Shutdowns /\ tracked \in BOOLEAN BY DEF Typed, TypeOK, Shutdowns
<1> DEFINE s1 == IF st = None /\ ~sd.sent THEN request_shutdown(sd, tracked) ELSE sd
           s2 == IF JsonMode \/ ~requested THEN request_shutdown(s1, tracked) ELSE s1
<1>2. s1 \in Shutdowns /\ (Asked(sd) \/ st = None => Asked(s1))
  <2>1. request_shutdown(sd, tracked) \in Shutdowns /\ Asked(request_shutdown(sd, tracked))
    BY <1>1, ShutdownTyped, ShutdownWaits
  <2> QED BY <1>1, <2>1 DEF Asked
<1> HIDE DEF s1
<1>3. s2 \in Shutdowns /\ (Asked(sd) \/ st = None \/ ~requested => Asked(s2))
  <2>1. request_shutdown(s1, tracked) \in Shutdowns /\ Asked(request_shutdown(s1, tracked))
    BY <1>1, <1>2, ShutdownTyped, ShutdownWaits
  <2> QED BY <1>2, <2>1
<1> HIDE DEF s2
<1>4. Finish(st) = Recheck(s2, tracked) BY DEF Finish, s1, s2
<1>5. (Asked(s2) => Asked(Finish(st))) /\ (Finish(st).pending /\ Finish(st).deadline = "none" => tracked)
  BY <1>1, <1>3, <1>4, ShutdownWaits
<1> QED BY <1>3, <1>5, FinishKept

\* Op::Shutdown is submitted when its sending is recorded, and no submission is lost.
LEMMA ShutdownSubmitted ==
    ASSUME Typed, NEW work \in {<<>>, <<"Review">>, <<"UserInput">>}, NEW s \in Shutdowns,
           Submit(work, s)
    PROVE  /\ s.sent /\ ~sd.sent => Works("Shutdown")'
           /\ \A op : Works(op) => Works(op)'
           /\ work # <<>> => Works(work[1])'
<1>1. \A i \in 1 .. Len(ops) : i \in 1 .. Len(ops') /\ ops'[i] = ops[i] BY Submitted
<1>2. \A op : Works(op) => Works(op)' BY <1>1 DEF Works
<1>e. <<>> \in Seq(Ops) /\ \A op \in Ops : <<op>> \in Seq(Ops) OBVIOUS
<1>3. ops \in Seq(Ops) /\ work \in Seq(Ops) BY <1>e DEF Typed, TypeOK, Ops
<1>4. ASSUME s.sent, ~sd.sent PROVE Works("Shutdown")'
  <2>1. ops' = ops \o work \o <<"Shutdown">> BY <1>4 DEF Submit
  <2> DEFINE mid == ops \o work
  <2>2. mid \in Seq(Ops) BY <1>3, Joined
  <2> HIDE DEF mid
  <2>3. ops' = mid \o <<"Shutdown">> BY <2>1 DEF mid
  <2>4. Len(mid) + 1 \in 1 .. Len(ops') /\ ops'[Len(mid) + 1] = "Shutdown" BY <2>2, <2>3
  <2> QED BY <2>4 DEF Works
<1>5. ASSUME work # <<>> PROVE Works(work[1])'
  <2>1. PICK w \in Ops : work = <<w>> BY <1>5 DEF Ops
  <2> DEFINE last == IF s.sent /\ ~sd.sent THEN <<"Shutdown">> ELSE <<>>
  <2>2. last \in Seq(Ops) BY <1>e DEF Ops
  <2> HIDE DEF last
  <2>3. ops' = ops \o <<w>> \o last BY <2>1 DEF Submit, last
  <2>4. Len(ops) + 1 \in 1 .. Len(ops') /\ ops'[Len(ops) + 1] = w BY <1>3, <2>2, <2>3
  <2> QED BY <2>1, <2>4 DEF Works
<1> QED BY <1>2, <1>4, <1>5

LEMMA LoopWake ==
    ASSUME Typed, ExecStep \/ DeadlinePasses \/ TimeBudgetExceeded
    PROVE  /\ task' = task /\ agent' = agent /\ pump' = pump
           /\ captured' = captured /\ requested' = requested /\ pc = "loop"
           /\ Asked(sd) => Asked(sd')
           /\ sd.sent => sd'.sent
           /\ sd'.sent /\ ~sd.sent => Works("Shutdown")'
           /\ Works("Shutdown")' => Works("Shutdown") \/ sd'.sent
           /\ \A op : Works(op) => Works(op)'
           /\ Deferred => Deferred'
<1>t. sd \in Shutdowns /\ tracked \in BOOLEAN /\ tracked' \in BOOLEAN
  BY ExecTyped DEF Typed, TypeOK, Shutdowns
<1>1. UNCHANGED coreVars /\ UNCHANGED fixedVars /\ pc = "loop"
  BY DEF ExecStep, RecvExited, CompleteOther, DispatchFix, FixLockBusy, FollowupLockBusy,
         FollowupWithoutBase, StopFollowup, SubmitFollowup, RecvAgentStatus, RecvError,
         ShutdownTimer, RecvShutdownComplete, EventsClosed, DeadlinePasses, TimeBudgetExceeded,
         Exit, Receive, FollowupLocked
<1>2. /\ task' = task /\ agent' = agent /\ pump' = pump
      /\ captured' = captured /\ requested' = requested
  BY <1>1 DEF coreVars, fixedVars
<1> DEFINE Outcome(s) ==
       \/ s = sd /\ tracked' = tracked
       \/ s = Recheck(sd, tracked') \/ s = request_shutdown(sd, tracked')
       \/ tracked' = tracked /\ \E st : s = Finish(st)
<1>3. ASSUME NEW s, Outcome(s)
      PROVE  /\ s \in Shutdowns /\ (Asked(sd) => Asked(s)) /\ (sd.sent => s.sent)
             /\ Deferred => (s.pending /\ s.deadline = "none" => tracked')
  <2>1. CASE s = sd /\ tracked' = tracked BY <1>t, <2>1 DEF Deferred
  <2>2. CASE s = Recheck(sd, tracked') \/ s = request_shutdown(sd, tracked')
    BY <1>t, <2>2, ShutdownTyped, ShutdownWaits, ShutdownKept
  <2>3. CASE tracked' = tracked /\ \E st : s = Finish(st)
    <3>1. PICK st : s = Finish(st) BY <2>3
    <3> QED BY <2>3, <3>1, FinishTyped, FinishWaits
  <2> QED BY <1>3, <2>1, <2>2, <2>3
<1>4. ASSUME NEW work \in {<<>>, <<"Review">>, <<"UserInput">>}, NEW s, Submit(work, s), Outcome(s)
      PROVE  /\ Asked(sd) => Asked(sd')
             /\ sd.sent => sd'.sent
             /\ sd'.sent /\ ~sd.sent => Works("Shutdown")'
             /\ Works("Shutdown")' => Works("Shutdown") \/ sd'.sent
             /\ \A op : Works(op) => Works(op)'
             /\ Deferred => Deferred'
  <2>1. /\ s \in Shutdowns /\ (Asked(sd) => Asked(s)) /\ (sd.sent => s.sent)
        /\ Deferred => (s.pending /\ s.deadline = "none" => tracked')
    BY <1>3, <1>4
  <2>2. sd' = s BY <1>4 DEF Submit
  <2>3. (s.sent /\ ~sd.sent => Works("Shutdown")') /\ \A op : Works(op) => Works(op)'
    BY <1>4, <2>1, ShutdownSubmitted
  <2>4. Works("Shutdown")' => Works("Shutdown") \/ sd'.sent
    <3>1. /\ \A i \in 1 .. Len(ops) : i \in 1 .. Len(ops') /\ ops'[i] = ops[i]
          /\ \A i \in 1 .. Len(ops') : \/ i \in 1 .. Len(ops)
                                       \/ (ops'[i] = "Shutdown" /\ s.sent)
                                       \/ work # <<>> /\ i = Len(ops) + 1 /\ ops'[i] = work[1]
      BY <1>4, <2>1, Submitted
    <3>2. work # <<>> => work[1] # "Shutdown" OBVIOUS
    <3> QED BY <2>2, <3>1, <3>2 DEF Works
  <2> QED BY <2>1, <2>2, <2>3, <2>4 DEF Deferred
<1>5. CASE DeadlinePasses
  <2>1. sd' = [sd EXCEPT !.deadline = "passed"] /\ ops' = ops /\ sd.deadline = "armed"
    BY <1>5 DEF DeadlinePasses
  <2>2. sd'.sent = sd.sent /\ sd'.pending = sd.pending /\ sd'.deadline = "passed"
    BY <1>t, <2>1 DEF Shutdowns, NotRequested, Sent
  <2> QED BY <1>1, <1>2, <2>1, <2>2 DEF Asked, Deferred, Works
<1>6. CASE \E error : Exit(error)
  <2>1. sd' = sd /\ ops' = ops /\ tracked' = tracked BY <1>6 DEF Exit
  <2> QED BY <1>1, <1>2, <2>1 DEF Asked, Deferred, Works
<1>7. CASE \E work \in {<<>>, <<"Review">>, <<"UserInput">>} : \E s : Submit(work, s) /\ Outcome(s)
  <2> HIDE DEF Outcome
  <2> QED BY <1>1, <1>2, <1>4, <1>7
<1>8. CASE RecvExited BY <1>7, <1>8 DEF RecvExited
<1>9. CASE CompleteOther BY <1>7, <1>9 DEF CompleteOther
<1>10. CASE DispatchFix BY <1>7, <1>10 DEF DispatchFix
<1>11. CASE FixLockBusy \/ FollowupLockBusy \/ StopFollowup
  <2>1. tracked' = tracked /\ GiveUp BY <1>11 DEF FixLockBusy, FollowupLockBusy, StopFollowup
  <2>2. Submit(<<>>, request_shutdown(sd, tracked)) BY <2>1 DEF GiveUp
  <2> QED BY <1>7, <2>1, <2>2
<1>12. CASE FollowupWithoutBase BY <1>7, <1>12 DEF FollowupWithoutBase
<1>13. CASE SubmitFollowup BY <1>7, <1>13 DEF SubmitFollowup
<1>14. CASE RecvAgentStatus BY <1>7, <1>14 DEF RecvAgentStatus
<1>15. CASE RecvError BY <1>7, <1>15 DEF RecvError
<1>16. CASE ShutdownTimer BY <1>7, <1>16 DEF ShutdownTimer
<1>17. CASE RecvShutdownComplete \/ EventsClosed \/ TimeBudgetExceeded
  BY <1>6, <1>17 DEF RecvShutdownComplete, EventsClosed, TimeBudgetExceeded
<1> QED
  BY <1>5, <1>8, <1>9, <1>10, <1>11, <1>12, <1>13, <1>14, <1>15, <1>16, <1>17 DEF ExecStep

\* Taking an event loses no other.
LEMMA Taken ==
    ASSUME Typed, NEW kind, Receive(kind)
    PROVE  /\ \A j \in 1 .. Len(events) : j # 1 =>
                 j - 1 \in 1 .. Len(events') /\ events'[j - 1] = events[j]
           /\ events[1].kind = kind
           /\ \A k : k # kind /\ Owes(k) => Owes(k)'
<1>1. events \in Seq(EventRecords) /\ events # <<>> /\ events' = Tail(events) BY DEF Typed, Receive
<1>2. \A j \in 1 .. Len(events) : j # 1 => j - 1 \in 1 .. Len(events') /\ events'[j - 1] = events[j]
  BY <1>1
<1>3. events[1].kind = kind BY Received
<1> QED BY <1>2, <1>3 DEF Owes

\* The pump delivers what the session reports, in order.
LEMMA Delivered ==
    ASSUME Typed, pump, NEW es \in Seq(EventRecords), Emit(es)
    PROVE  /\ \A j \in 1 .. Len(events) : j \in 1 .. Len(events') /\ events'[j] = events[j]
           /\ \A k \in 1 .. Len(es) : /\ Len(events) + k \in 1 .. Len(events')
                                      /\ events'[Len(events) + k] = es[k]
           /\ \A k : Owes(k) => Owes(k)'
           /\ \A k \in 1 .. Len(es) : Owes(es[k].kind)'
<1>1. events' = events \o es /\ events \in Seq(EventRecords) BY DEF Typed, Emit
<1>2. \A j \in 1 .. Len(events) : j \in 1 .. Len(events') /\ events'[j] = events[j] BY <1>1
<1>3. \A k \in 1 .. Len(es) : /\ Len(events) + k \in 1 .. Len(events')
                              /\ events'[Len(events) + k] = es[k]
  BY <1>1
<1> QED BY <1>2, <1>3 DEF Owes

\* What the session's reports contain.
LEMMA CoreReports ==
    ASSUME Typed, CoreExitReview \/ CoreCompleteReview \/ CoreCompleteTurn \/ CoreShutdown
    PROVE  \E es \in Seq(EventRecords) :
               /\ Emit(es)
               /\ \A k \in 1 .. Len(es) : es[k].kind # "AgentStatus"
               /\ task' = "reviewed" => \E k \in 1 .. Len(es) : es[k].kind = "Exited"
               /\ task' = "none" => \E k \in 1 .. Len(es) : es[k].kind = "TaskComplete"
               /\ task' = "ended" => \E k \in 1 .. Len(es) : es[k].kind = "ShutdownComplete"
<1>t. repo \in BOOLEAN BY DEF Typed
<1>r. /\ \A output \in {"none", "empty", "findings"} : Exited(output, repo) \in EventRecords
      /\ TaskComplete \in EventRecords /\ ErrorEvent \in EventRecords
      /\ ShutdownComplete \in EventRecords
  BY <1>t DEF Exited, TaskComplete, ErrorEvent, ShutdownComplete, EventRecords
<1>k. /\ \A output : Exited(output, repo).kind = "Exited"
      /\ TaskComplete.kind = "TaskComplete" /\ ErrorEvent.kind = "Error"
      /\ ShutdownComplete.kind = "ShutdownComplete"
  BY DEF Exited, TaskComplete, ErrorEvent, ShutdownComplete
<1>1. ASSUME NEW e \in EventRecords, e.kind # "AgentStatus"
      PROVE  /\ <<e>> \in Seq(EventRecords)
             /\ \A k \in 1 .. Len(<<e>>) : <<e>>[k].kind # "AgentStatus"
             /\ \E k \in 1 .. Len(<<e>>) : <<e>>[k].kind = e.kind
  BY <1>1
<1>2. ASSUME NEW d \in EventRecords, NEW e \in EventRecords,
             d.kind # "AgentStatus", e.kind # "AgentStatus"
      PROVE  /\ <<d, e>> \in Seq(EventRecords)
             /\ \A k \in 1 .. Len(<<d, e>>) : <<d, e>>[k].kind # "AgentStatus"
             /\ \E k \in 1 .. Len(<<d, e>>) : <<d, e>>[k].kind = e.kind
  BY <1>2, Few
<1> DEFINE Told(kind) ==
       \E es \in Seq(EventRecords) :
           /\ Emit(es)
           /\ \A k \in 1 .. Len(es) : es[k].kind # "AgentStatus"
           /\ \E k \in 1 .. Len(es) : es[k].kind = kind
<1>a. ASSUME NEW e \in EventRecords, e.kind # "AgentStatus", Emit(<<e>>) PROVE Told(e.kind)
  <2> DEFINE es == <<e>>
  <2>1. /\ es \in Seq(EventRecords) /\ Emit(es)
        /\ \A k \in 1 .. Len(es) : es[k].kind # "AgentStatus"
        /\ \E k \in 1 .. Len(es) : es[k].kind = e.kind
    BY <1>a, <1>1
  <2> HIDE DEF es
  <2> QED BY <2>1
<1>b. ASSUME NEW d \in EventRecords, NEW e \in EventRecords,
             d.kind # "AgentStatus", e.kind # "AgentStatus", Emit(<<d, e>>)
      PROVE  Told(e.kind)
  <2> DEFINE es == <<d, e>>
  <2>1. /\ es \in Seq(EventRecords) /\ Emit(es)
        /\ \A k \in 1 .. Len(es) : es[k].kind # "AgentStatus"
        /\ \E k \in 1 .. Len(es) : es[k].kind = e.kind
    BY <1>b, <1>2
  <2> HIDE DEF es
  <2> QED BY <2>1
<1>3. CASE CoreExitReview
  <2>1. task' = "reviewed" BY <1>3 DEF CoreExitReview
  <2>4. Told("Exited")
    <3> HIDE DEF Told
    <3>1. CASE \E output \in {"none", "empty", "findings"} : Emit(<<Exited(output, repo)>>)
      BY <1>r, <1>k, <1>a, <3>1
    <3>2. CASE Emit(<<ErrorEvent, Exited("none", repo)>>)
      <4>1. Told(Exited("none", repo).kind) BY <1>r, <1>k, <1>b, <3>2
      <4> QED BY <1>k, <4>1
    <3> QED BY <1>3, <3>1, <3>2 DEF CoreExitReview
  <2> QED BY <2>1, <2>4
<1>4. CASE CoreCompleteReview \/ CoreCompleteTurn
  <2>1. task' = "none" BY <1>4 DEF CoreCompleteReview, CoreCompleteTurn
  <2>4. Told("TaskComplete")
    <3> HIDE DEF Told
    <3>1. CASE Emit(<<TaskComplete>>) BY <1>r, <1>k, <1>a, <3>1
    <3>2. CASE Emit(<<ErrorEvent, TaskComplete>>)
      <4>1. Told(TaskComplete.kind) BY <1>r, <1>k, <1>b, <3>2
      <4> QED BY <1>k, <4>1
    <3> QED BY <1>4, <3>1, <3>2 DEF CoreCompleteReview, CoreCompleteTurn
  <2> QED BY <2>1, <2>4
<1>5. CASE CoreShutdown
  <2>1. task' = "ended" BY <1>5 DEF CoreShutdown
  <2>4. Told("ShutdownComplete")
    <3> HIDE DEF Told
    <3>1. CASE Emit(<<ShutdownComplete>>) BY <1>r, <1>k, <1>a, <3>1
    <3>2. CASE Emit(<<Exited("none", repo), ShutdownComplete>>)
      <4>1. Told(ShutdownComplete.kind) BY <1>r, <1>k, <1>b, <3>2
      <4> QED BY <1>k, <4>1
    <3> QED BY <1>5, <3>1, <3>2 DEF CoreShutdown
  <2> QED BY <2>1, <2>4
<1> QED BY <1>3, <1>4, <1>5

\* The loop and the pump, once over, stay over.
LEMMA PumpedBefore ==
    ASSUME Typed, [Next]_vars
    PROVE  /\ pc' = "loop" => pc = "loop"
           /\ Pumped' => Pumped
<1>1. CASE ExecStep \/ DeadlinePasses \/ TimeBudgetExceeded BY <1>1, LoopWake DEF Pumped
<1>2. CASE CoreStep \/ AgentStep \/ AgentEndStep \/ InterruptStep
  <2>1. pc = "loop" BY <1>2 DEF CoreStep, AgentStep, AgentEndStep, InterruptStep
  <2>2. pump' => pump
    BY <1>2 DEF CoreStep, CoreStart, CoreExitReview, CoreCompleteReview, CoreCompleteTurn,
                CoreShutdown, AgentStep, AgentStarts, AgentEndStep, AgentEnds, InterruptStep, Interrupt
  <2> QED BY <2>1, <2>2 DEF Pumped
<1>3. CASE OtherBump \/ OtherLock \/ UNCHANGED vars
  BY <1>3 DEF OtherBump, OtherLock, vars, loopVars, coreVars, Pumped
<1> QED BY <1>1, <1>2, <1>3 DEF Next

LEMMA NextBased ==
    ASSUME Typed, Based, [Next]_vars
    PROVE  Based'
<1>t. state \in AutoResolveState \union {None} BY DEF Typed, TypeOK
<1>0. CASE state' = state /\ base' = base /\ captured' = captured BY <1>0 DEF Based
<1>1. CASE RecvExited
  <2>1. state' # None => state # None /\ base' = (base /\ state' # None)
    BY <1>1 DEF RecvExited, NextPhase
  <2>2. captured' = captured BY <1>1 DEF RecvExited, fixedVars
  <2> QED BY <2>1, <2>2 DEF Based
<1>2. CASE CompleteOther
  <2>1. state' = state /\ base' = (base /\ state # None) /\ captured' = captured
    BY <1>2 DEF CompleteOther, fixedVars
  <2> QED BY <2>1 DEF Based
<1>3. CASE FixLockBusy \/ FollowupLockBusy \/ StopFollowup
  BY <1>3 DEF FixLockBusy, FollowupLockBusy, StopFollowup, GiveUp, Based
<1>4. CASE DispatchFix \/ FollowupWithoutBase \/ SubmitFollowup
  <2>1. state # None /\ base' = base /\ captured' = captured
    BY <1>4 DEF DispatchFix, FollowupWithoutBase, SubmitFollowup, FollowupLocked, InPhase, fixedVars
  <2> QED BY <2>1 DEF Based
<1>5. CASE RecvAgentStatus \/ RecvError \/ ShutdownTimer \/ DeadlinePasses
  BY <1>0, <1>5 DEF RecvAgentStatus, RecvError, ShutdownTimer, DeadlinePasses, fixedVars
<1>6. CASE RecvShutdownComplete \/ EventsClosed \/ TimeBudgetExceeded
  <2>1. PICK error : Exit(error) BY <1>6 DEF RecvShutdownComplete, EventsClosed, TimeBudgetExceeded
  <2> QED BY <1>0, <2>1 DEF Exit, fixedVars
<1>7. CASE CoreStep \/ AgentStep \/ AgentEndStep \/ InterruptStep
  BY <1>0, <1>7, BesideKept DEF besideVars, loopVars, fixedVars
<1>8. CASE OtherBump \/ OtherLock \/ UNCHANGED vars
  BY <1>0, <1>8 DEF OtherBump, OtherLock, vars, loopVars, fixedVars
<1> QED BY <1>1, <1>2, <1>3, <1>4, <1>5, <1>6, <1>7, <1>8 DEF Next, ExecStep

\* The session loses no submission it does not start or obey.
LEMMA OpsTaken ==
    ASSUME Typed, CoreStart \/ CoreShutdown
    PROVE  /\ Works(Head(ops)) /\ ops # <<>>
           /\ \A op : Works(op) => op = Head(ops) \/ Works(op)'
<1>1. ops \in Seq(Ops) /\ ops # <<>> /\ ops' = Tail(ops)
  BY DEF Typed, TypeOK, Ops, CoreStart, CoreShutdown
<1>2. 1 \in 1 .. Len(ops) /\ ops[1] = Head(ops) BY <1>1
<1>3. \A j \in 1 .. Len(ops) : j # 1 => j - 1 \in 1 .. Len(ops') /\ ops'[j - 1] = ops[j] BY <1>1
<1> QED BY <1>1, <1>2, <1>3 DEF Works

LEMMA NextSending ==
    ASSUME Typed, Sending, Deferred, [Next]_vars
    PROVE  Sending' /\ Deferred'
<1>1. CASE ExecStep \/ DeadlinePasses \/ TimeBudgetExceeded
  BY <1>1, LoopWake DEF Sending
<1>2. CASE CoreStep \/ AgentStep \/ AgentEndStep \/ InterruptStep
  <2>1. sd' = sd /\ tracked' = tracked BY <1>2, BesideKept DEF besideVars, loopVars
  <2>2. CASE CoreStart
    <3>1. Head(ops) # "Shutdown" /\ task = "none" BY <2>2 DEF CoreStart
    <3>2. Works("Shutdown") => Works("Shutdown")' BY <2>2, <3>1, OpsTaken
    <3> QED BY <2>1, <3>1, <3>2 DEF Sending, Deferred
  <2>3. CASE CoreShutdown
    <3>1. task' = "ended" BY <2>3 DEF CoreShutdown
    <3> QED BY <2>1, <3>1 DEF Sending, Deferred
  <2>4. CASE CoreExitReview \/ CoreCompleteReview \/ CoreCompleteTurn \/ AgentStarts \/ AgentEnds
               \/ Interrupt
    <3>1. ops' = ops /\ (task = "ended" => task' = "ended")
      BY <2>4 DEF CoreExitReview, CoreCompleteReview, CoreCompleteTurn, AgentStarts, AgentEnds, Interrupt
    <3> QED BY <2>1, <3>1 DEF Sending, Deferred, Works
  <2> QED BY <1>2, <2>2, <2>3, <2>4 DEF CoreStep, AgentStep, AgentEndStep, InterruptStep
<1>3. CASE OtherBump \/ OtherLock \/ UNCHANGED vars
  <2>1. sd' = sd /\ tracked' = tracked /\ ops' = ops /\ task' = task
    BY <1>3 DEF OtherBump, OtherLock, vars, loopVars, coreVars
  <2> QED BY <2>1 DEF Sending, Deferred, Works
<1> QED BY <1>1, <1>2, <1>3 DEF Next

LEMMA NextRecorded ==
    ASSUME Typed, Recorded, [Next]_vars
    PROVE  Recorded'
<1>1. CASE ExecStep \/ DeadlinePasses \/ TimeBudgetExceeded
  <2>1. state = None => state' = None
    BY <1>1 DEF ExecStep, RecvExited, NextPhase, CompleteOther, DispatchFix, FixLockBusy,
         FollowupLockBusy, FollowupWithoutBase, StopFollowup, SubmitFollowup, FollowupLocked,
         InPhase, GiveUp, RecvAgentStatus, RecvError, ShutdownTimer, RecvShutdownComplete,
         EventsClosed, DeadlinePasses, TimeBudgetExceeded, Exit
  <2>2. /\ task' = task /\ requested' = requested /\ (sd.sent => sd'.sent)
        /\ Works("Shutdown")' => Works("Shutdown") \/ sd'.sent
    BY <1>1, LoopWake
  <2> QED BY <2>1, <2>2 DEF Recorded
<1>2. CASE CoreStep \/ AgentStep \/ AgentEndStep \/ InterruptStep
  <2>1. sd' = sd /\ state' = state /\ requested' = requested
    BY <1>2, BesideKept DEF besideVars, loopVars, fixedVars
  <2>2. CASE CoreStart
    <3>1. task' # "ended" /\ ops # <<>> /\ ops' = Tail(ops) BY <2>2 DEF CoreStart
    <3>2. ops \in Seq(Ops) BY DEF Typed, TypeOK, Ops
    <3>3. Works("Shutdown")' => Works("Shutdown") BY <3>1, <3>2, Popped DEF Works
    <3> QED BY <2>1, <3>1, <3>3 DEF Recorded
  <2>3. CASE CoreShutdown
    <3>1. Works("Shutdown") BY <2>3, OpsTaken DEF CoreShutdown
    <3> QED BY <2>1, <3>1 DEF Recorded
  <2>4. CASE CoreExitReview \/ CoreCompleteReview \/ CoreCompleteTurn \/ AgentStarts \/ AgentEnds
               \/ Interrupt
    <3>1. ops' = ops /\ (task' = "ended" => task = "ended")
      BY <2>4 DEF CoreExitReview, CoreCompleteReview, CoreCompleteTurn, AgentStarts, AgentEnds, Interrupt
    <3> QED BY <2>1, <3>1 DEF Recorded, Works
  <2> QED BY <1>2, <2>2, <2>3, <2>4 DEF CoreStep, AgentStep, AgentEndStep, InterruptStep
<1>3. CASE OtherBump \/ OtherLock \/ UNCHANGED vars
  <2>1. sd' = sd /\ ops' = ops /\ task' = task /\ state' = state /\ requested' = requested
    BY <1>3 DEF OtherBump, OtherLock, vars, loopVars, coreVars, fixedVars
  <2> QED BY <2>1 DEF Recorded, Works
<1> QED BY <1>1, <1>2, <1>3 DEF Next

\* What is not an agent's status leaves the tracking of agents alone.
LEMMA NextTracking ==
    ASSUME Typed, Tracking, Pumped, Pumped', [Next]_vars
    PROVE  Tracking'
<1>t. events \in Seq(EventRecords) /\ Len(events) \in Nat BY DEF Typed
<1>p. pump BY DEF Pumped
<1>d. AgentStatus(TRUE) # AgentStatus(FALSE) /\ \A b : AgentStatus(b).kind = "AgentStatus"
  BY DEF AgentStatus
<1>0. CASE events' = events /\ tracked' = tracked /\ agent' = agent
  BY <1>0 DEF Tracking, OverAfter
<1>1. ASSUME NEW kind, Receive(kind), agent' = agent,
             \/ kind # "AgentStatus" /\ tracked' = tracked
             \/ RecvAgentStatus
      PROVE  Tracking'
  <2>1. /\ \A j \in 1 .. Len(events) : j # 1 =>
              j - 1 \in 1 .. Len(events') /\ events'[j - 1] = events[j]
        /\ events[1].kind = kind
    BY <1>1, Taken
  <2>2. /\ \A j \in 1 .. Len(events') : j + 1 \in 1 .. Len(events) /\ events'[j] = events[j + 1]
        /\ Head(events) = events[1] /\ Head(events) \in EventRecords /\ 1 \in 1 .. Len(events)
    BY <1>1, Received
  <2>3. ASSUME NEW i \in 0 .. Len(events), OverAfter(i + 1) PROVE OverAfter(i)'
    <3>1. PICK j \in 1 .. Len(events) : j > i + 1 /\ events[j] = AgentStatus(FALSE)
      BY <2>3 DEF OverAfter
    <3>a. j # 1 /\ j - 1 > i BY <1>t, <3>1
    <3>2. j - 1 \in 1 .. Len(events') /\ events'[j - 1] = events[j] BY <2>1, <3>1, <3>a
    <3> QED BY <3>1, <3>a, <3>2 DEF OverAfter
  <2>4. ASSUME NEW i \in 1 .. Len(events'), events'[i] = AgentStatus(TRUE)
        PROVE  agent' = "running" \/ OverAfter(i)'
    <3>1. i + 1 \in 1 .. Len(events) /\ events[i + 1] = AgentStatus(TRUE) BY <2>2, <2>4
    <3>2. agent = "running" \/ OverAfter(i + 1) BY <3>1 DEF Tracking
    <3>3. i \in 0 .. Len(events) BY <1>t, <3>1
    <3> QED BY <1>1, <2>3, <3>2, <3>3
  <2>5. tracked' => agent' = "running" \/ OverAfter(0)'
    <3>1. CASE kind # "AgentStatus" /\ tracked' = tracked
      <4>1. OverAfter(0) => OverAfter(0)'
        <5> SUFFICES ASSUME OverAfter(0) PROVE OverAfter(0)' OBVIOUS
        <5>1. PICK j \in 1 .. Len(events) : events[j] = AgentStatus(FALSE) BY DEF OverAfter
        <5>2. j # 1 BY <1>d, <2>1, <3>1, <5>1
        <5>3. j - 1 \in 1 .. Len(events') /\ events'[j - 1] = AgentStatus(FALSE) BY <2>1, <5>1, <5>2
        <5>4. j - 1 > 0 BY <1>t, <5>2
        <5> QED BY <5>3, <5>4 DEF OverAfter
      <4> QED BY <1>1, <3>1, <4>1 DEF Tracking
    <3>2. CASE RecvAgentStatus
      <4> SUFFICES ASSUME tracked' PROVE agent' = "running" \/ OverAfter(0)' OBVIOUS
      <4>1. tracked' = Head(events).running /\ Head(events).kind = "AgentStatus"
        BY <3>2 DEF RecvAgentStatus, Receive
      <4>2. Head(events) \in [kind : {"AgentStatus"}, running : BOOLEAN]
        BY <2>2, <4>1 DEF EventRecords
      <4>3. Head(events).running BY <4>1
      <4>4. Head(events) = AgentStatus(TRUE) BY <4>2, <4>3 DEF AgentStatus
      <4>a. events[1] = AgentStatus(TRUE) BY <2>2, <4>4
      <4>b. agent = "running" \/ OverAfter(1) BY <2>2, <4>a DEF Tracking
      <4>5. agent = "running" \/ OverAfter(0 + 1)
        <5>1. 0 + 1 = 1 OBVIOUS
        <5> QED BY <4>b, <5>1
      <4>6. 0 \in 0 .. Len(events) BY <1>t
      <4> QED BY <1>1, <2>3, <4>5, <4>6
    <3> QED BY <1>1, <3>1, <3>2
  <2> QED BY <2>4, <2>5 DEF Tracking
<1>2. CASE ExecStep \/ DeadlinePasses \/ TimeBudgetExceeded
  <2>1. agent' = agent BY <1>2, LoopWake
  <2>2. CASE RecvAgentStatus BY <1>1, <2>1, <2>2 DEF RecvAgentStatus
  <2>3. CASE RecvExited BY <1>1, <2>1, <2>3 DEF RecvExited
  <2>4. CASE CompleteOther \/ DispatchFix \/ FixLockBusy \/ FollowupLockBusy \/ FollowupWithoutBase
               \/ StopFollowup \/ SubmitFollowup
    <3>1. Receive("TaskComplete") /\ tracked' = tracked
      BY <2>4 DEF CompleteOther, DispatchFix, FixLockBusy, FollowupLockBusy, FollowupWithoutBase,
                  StopFollowup, SubmitFollowup, FollowupLocked
    <3> QED BY <1>1, <2>1, <3>1
  <2>5. CASE RecvError BY <1>1, <2>1, <2>5 DEF RecvError
  <2>6. CASE ShutdownTimer \/ DeadlinePasses
    BY <1>0, <2>1, <2>6 DEF ShutdownTimer, DeadlinePasses
  <2>7. ~(RecvShutdownComplete \/ EventsClosed \/ TimeBudgetExceeded)
    BY DEF RecvShutdownComplete, EventsClosed, TimeBudgetExceeded, Exit, Pumped
  <2> QED BY <1>2, <2>2, <2>3, <2>4, <2>5, <2>6, <2>7 DEF ExecStep
<1>3. CASE CoreStep \/ AgentStep \/ AgentEndStep \/ InterruptStep
  <2>1. tracked' = tracked BY <1>3, BesideKept DEF besideVars, loopVars
  <2>2. ASSUME NEW es \in Seq(EventRecords), Emit(es), agent' = agent,
               \A k \in 1 .. Len(es) : es[k].kind # "AgentStatus"
        PROVE  Tracking'
    <3>1. \A j \in 1 .. Len(events) : j \in 1 .. Len(events') /\ events'[j] = events[j]
      BY <1>p, <2>2, Delivered
    <3>2. \A i : OverAfter(i) => OverAfter(i)' BY <3>1 DEF OverAfter
    <3>3. \A i \in 1 .. Len(events') : events'[i] = AgentStatus(TRUE) =>
              i \in 1 .. Len(events) /\ events[i] = AgentStatus(TRUE)
      <4>1. \A i \in 1 .. Len(events') : i \notin 1 .. Len(events) =>
                i - Len(events) \in 1 .. Len(es) /\ events'[i] = es[i - Len(events)]
        BY <2>2, Emitted
      <4>2. \A i \in 1 .. Len(events') : i \notin 1 .. Len(events) => events'[i].kind # "AgentStatus"
        BY <2>2, <4>1
      <4> QED BY <1>d, <3>1, <4>2
    <3> QED BY <2>1, <2>2, <3>2, <3>3 DEF Tracking
  <2>3. CASE CoreStart \/ Interrupt
    BY <1>0, <2>1, <2>3 DEF CoreStart, Interrupt
  <2>4. CASE CoreExitReview \/ CoreCompleteReview \/ CoreCompleteTurn \/ CoreShutdown
    <3>1. agent' = agent
      BY <2>4 DEF CoreExitReview, CoreCompleteReview, CoreCompleteTurn, CoreShutdown
    <3> QED BY <2>2, <2>4, <3>1, CoreReports
  <2>5. CASE AgentStarts BY <2>5 DEF AgentStarts, Tracking
  <2>6. CASE AgentEnds
    <3> DEFINE es == <<AgentStatus(FALSE)>>
    <3>1. AgentStatus(FALSE) \in EventRecords BY DEF AgentStatus, EventRecords
    <3>2. /\ es \in Seq(EventRecords) /\ Len(es) = 1 /\ es[1] = AgentStatus(FALSE)
          /\ \A k \in 1 .. Len(es) : k = 1
      BY <3>1, Few
    <3>3. Emit(es) BY <2>6 DEF AgentEnds
    <3> HIDE DEF es
    <3>4. Len(events) + 1 \in 1 .. Len(events') /\ events'[Len(events) + 1] = AgentStatus(FALSE)
      <4>1. 1 \in 1 .. Len(es) BY <3>2
      <4> QED BY <1>p, <3>2, <3>3, <4>1, Delivered
    <3>5. \A i \in 0 .. Len(events) : OverAfter(i)'
      <4> SUFFICES ASSUME NEW i \in 0 .. Len(events) PROVE OverAfter(i)' OBVIOUS
      <4>1. Len(events) + 1 > i BY <1>t
      <4> QED BY <3>4, <4>1 DEF OverAfter
    <3>6. \A i \in 1 .. Len(events') : events'[i] = AgentStatus(TRUE) => i \in 1 .. Len(events)
      <4>1. \A i \in 1 .. Len(events') : i \notin 1 .. Len(events) =>
                i - Len(events) \in 1 .. Len(es) /\ events'[i] = es[i - Len(events)]
        BY <3>2, <3>3, Emitted
      <4> QED BY <1>d, <3>2, <4>1
    <3>7. 0 \in 0 .. Len(events) /\ \A i \in 1 .. Len(events) : i \in 0 .. Len(events) BY <1>t
    <3> QED BY <3>5, <3>6, <3>7 DEF Tracking
  <2> QED BY <1>3, <2>3, <2>4, <2>5, <2>6 DEF CoreStep, AgentStep, AgentEndStep, InterruptStep
<1>4. CASE OtherBump \/ OtherLock \/ UNCHANGED vars
  BY <1>0, <1>4 DEF OtherBump, OtherLock, vars, loopVars, coreVars
<1> QED BY <1>2, <1>3, <1>4 DEF Next

\* Which event a step of the loop takes, if it goes on.
TakesComplete ==
    \/ CompleteOther \/ DispatchFix \/ FixLockBusy \/ FollowupLockBusy \/ FollowupWithoutBase
    \/ StopFollowup \/ SubmitFollowup

LEMMA LoopKeeps ==
    ASSUME Typed, ExecStep \/ DeadlinePasses \/ TimeBudgetExceeded, pc' = "loop"
    PROVE  /\ \A k : Owes(k) /\ k \notin {"Exited", "TaskComplete", "AgentStatus", "Error"} => Owes(k)'
           /\ TakesComplete => Receive("TaskComplete")
           /\ ~TakesComplete /\ Owes("TaskComplete") => Owes("TaskComplete")'
           /\ \/ TakesComplete \/ RecvExited
              \/ state' = state /\ (Owes("Exited") => Owes("Exited")')
<1>1. CASE TakesComplete
  <2>1. Receive("TaskComplete")
    BY <1>1 DEF TakesComplete, CompleteOther, DispatchFix, FixLockBusy, FollowupLockBusy,
                FollowupWithoutBase, StopFollowup, SubmitFollowup, FollowupLocked
  <2> QED BY <1>1, <2>1, Taken
<1>2. CASE RecvExited /\ ~TakesComplete
  <2>1. Receive("Exited") BY <1>2 DEF RecvExited
  <2> QED BY <1>2, <2>1, Taken
<1>3. CASE (RecvAgentStatus \/ RecvError) /\ ~TakesComplete
  <2>1. state' = state /\ (Receive("AgentStatus") \/ Receive("Error"))
    BY <1>3 DEF RecvAgentStatus, RecvError
  <2> QED BY <1>3, <2>1, Taken
<1>4. CASE (ShutdownTimer \/ DeadlinePasses) /\ ~TakesComplete
  <2>1. events' = events /\ state' = state BY <1>4 DEF ShutdownTimer, DeadlinePasses
  <2> QED BY <1>4, <2>1 DEF Owes
<1>5. ~(RecvShutdownComplete \/ EventsClosed \/ TimeBudgetExceeded)
  BY DEF RecvShutdownComplete, EventsClosed, TimeBudgetExceeded, Exit
<1> QED BY <1>1, <1>2, <1>3, <1>4, <1>5 DEF ExecStep, TakesComplete

\* A step of the session adds to what it owes.
LEMMA SessionOwes ==
    ASSUME Typed, pump, CoreStep \/ AgentStep \/ AgentEndStep \/ InterruptStep
    PROVE  /\ \A k : Owes(k) => Owes(k)'
           /\ CoreExitReview => Owes("Exited")'
           /\ CoreCompleteReview \/ CoreCompleteTurn => Owes("TaskComplete")'
           /\ CoreShutdown => Owes("ShutdownComplete")'
<1>1. CASE CoreExitReview \/ CoreCompleteReview \/ CoreCompleteTurn \/ CoreShutdown
  <2>1. PICK es \in Seq(EventRecords) :
           /\ Emit(es)
           /\ task' = "reviewed" => \E k \in 1 .. Len(es) : es[k].kind = "Exited"
           /\ task' = "none" => \E k \in 1 .. Len(es) : es[k].kind = "TaskComplete"
           /\ task' = "ended" => \E k \in 1 .. Len(es) : es[k].kind = "ShutdownComplete"
    BY <1>1, CoreReports
  <2>2. (\A k : Owes(k) => Owes(k)') /\ \A k \in 1 .. Len(es) : Owes(es[k].kind)'
    BY <2>1, Delivered
  <2>3. /\ CoreExitReview => task' = "reviewed"
        /\ CoreCompleteReview \/ CoreCompleteTurn => task' = "none"
        /\ CoreShutdown => task' = "ended"
    BY DEF CoreExitReview, CoreCompleteReview, CoreCompleteTurn, CoreShutdown
  <2> QED BY <2>1, <2>2, <2>3
<1>2. CASE /\ CoreStart \/ AgentStarts \/ AgentEnds \/ Interrupt
           /\ ~(CoreExitReview \/ CoreCompleteReview \/ CoreCompleteTurn \/ CoreShutdown)
  <2>1. CASE CoreStart \/ Interrupt
    <3>1. events' = events BY <2>1 DEF CoreStart, Interrupt
    <3> QED BY <1>2, <3>1 DEF Owes
  <2>2. CASE AgentStarts \/ AgentEnds
    <3>1. PICK b \in BOOLEAN : Emit(<<AgentStatus(b)>>) BY <2>2 DEF AgentStarts, AgentEnds
    <3>2. AgentStatus(b) \in EventRecords BY DEF AgentStatus, EventRecords
    <3>3. <<AgentStatus(b)>> \in Seq(EventRecords) BY <3>2, Few
    <3> QED BY <1>2, <3>1, <3>3, Delivered
  <2> QED BY <1>2, <2>1, <2>2
<1> QED BY <1>1, <1>2 DEF CoreStep, AgentStep, AgentEndStep, InterruptStep

LEMMA NextGoodbye ==
    ASSUME Typed, Goodbye, Pumped, Pumped', [Next]_vars
    PROVE  Goodbye'
<1>p. pump /\ pc' = "loop" /\ pump' BY DEF Pumped
<1>1. CASE ExecStep \/ DeadlinePasses \/ TimeBudgetExceeded
  <2>1. task' = task BY <1>1, LoopWake
  <2>2. Owes("ShutdownComplete") => Owes("ShutdownComplete")' BY <1>1, <1>p, LoopKeeps
  <2> QED BY <2>1, <2>2 DEF Goodbye
<1>2. CASE CoreStep \/ AgentStep \/ AgentEndStep \/ InterruptStep
  <2>1. task' = "ended" => CoreShutdown \/ task = "ended"
    BY <1>2 DEF CoreStep, CoreStart, CoreExitReview, CoreCompleteReview, CoreCompleteTurn,
                AgentStep, AgentStarts, AgentEndStep, AgentEnds, InterruptStep, Interrupt
  <2> QED BY <1>2, <1>p, <2>1, SessionOwes DEF Goodbye
<1>3. CASE OtherBump \/ OtherLock \/ UNCHANGED vars
  <2>1. events' = events /\ task' = task BY <1>3 DEF OtherBump, OtherLock, vars, coreVars
  <2> QED BY <2>1 DEF Goodbye, Owes
<1> QED BY <1>1, <1>2, <1>3 DEF Next

\* A task completes only after its review has reported: the loop never handles a
\* completion while it waits for a review.
LEMMA WaitingNotComplete ==
    ASSUME LockInv, Recorded, Phased, captured, ~Asked(sd), InPhase("WaitingForReview"),
           Receive("TaskComplete")
    PROVE  FALSE
<1>1. Typed /\ task # "ended" /\ pc = "loop" BY DEF LockInv, Recorded, Asked, Receive
<1>2. Live /\ Flight BY <1>1 DEF Live, LockInv
<1>3. NoWork /\ task = "none" /\ \A j \in 1 .. Len(events') : events'[j].kind \notin Ends
  BY <1>1, <1>2, CompletionIsLast
<1>4. ~Works("Review") BY <1>3 DEF NoWork, Works
<1>5. ~Owes("Exited")' BY <1>3 DEF Owes, Ends
<1>6. ~Owes("Exited") BY <1>1, <1>5, Taken
<1> QED BY <1>3, <1>4, <1>6 DEF Phased

LEMMA NextPhased ==
    ASSUME LockInv, Recorded, Based, Phased, Pumped, Pumped', [Next]_vars
    PROVE  Phased'
<1>i. Typed BY DEF LockInv
<1>p. pump /\ pc' = "loop" BY DEF Pumped
<1>s. state \in AutoResolveState \union {None} BY <1>i DEF Typed, TypeOK
<1>n. "PendingFix" # "WaitingForReview" /\ "AwaitingFix" # "WaitingForReview" OBVIOUS
<1>1. CASE ExecStep \/ DeadlinePasses \/ TimeBudgetExceeded
  <2>1. /\ captured' = captured /\ task' = task /\ (Works("Review") => Works("Review")')
        /\ Asked(sd) => Asked(sd')
    BY <1>1, <1>i, LoopWake
  <2>2. CASE RecvExited
    <3>1. state' = None \/ \E output : state' = NextPhase(output) BY <2>2 DEF RecvExited
    <3>2. ASSUME state' # None PROVE state'.phase = "PendingFix"
      BY <1>s, <3>1, <3>2 DEF NextPhase, AutoResolveState
    <3> QED BY <1>n, <3>2 DEF Phased, InPhase
  <2>3. CASE FixLockBusy \/ FollowupLockBusy \/ StopFollowup
    BY <2>3 DEF FixLockBusy, FollowupLockBusy, StopFollowup, GiveUp, Phased, InPhase
  <2>4. CASE DispatchFix
    <3>1. state # None /\ state' = Remember([state EXCEPT !.phase = "AwaitingFix"], epoch)
      BY <2>4 DEF DispatchFix, InPhase
    <3>2. state'.phase = "AwaitingFix" BY <1>s, <3>1 DEF Remember, AutoResolveState
    <3> QED BY <1>n, <3>2 DEF Phased, InPhase
  <2>5. CASE FollowupWithoutBase
    <3>1. ~base /\ state # None BY <2>5 DEF FollowupWithoutBase, FollowupLocked, InPhase
    <3> QED BY <2>1, <3>1 DEF Based, Phased
  <2>6. CASE SubmitFollowup
    <3>1. PICK s \in Shutdowns : Submit(<<"Review">>, s)
      BY <1>i, <2>6, FinishTyped DEF SubmitFollowup
    <3>2. <<"Review">> \in {<<>>, <<"Review">>, <<"UserInput">>} /\ <<"Review">> # <<>>
          /\ <<"Review">>[1] = "Review"
      OBVIOUS
    <3>3. Works(<<"Review">>[1])' BY <1>i, <3>1, <3>2, ShutdownSubmitted
    <3>4. Works("Review")' BY <3>2, <3>3
    <3> QED BY <3>4 DEF Phased
  <2>7. CASE CompleteOther
    <3>1. state' = state /\ Receive("TaskComplete") BY <2>7 DEF CompleteOther
    <3>2. ~(captured /\ ~Asked(sd) /\ InPhase("WaitingForReview")) BY <3>1, WaitingNotComplete
    <3> QED BY <2>1, <3>1, <3>2 DEF Phased, InPhase
  <2>8. CASE state' = state /\ (Owes("Exited") => Owes("Exited")')
    BY <2>1, <2>8 DEF Phased, InPhase
  <2> QED BY <1>1, <1>i, <1>p, <2>2, <2>3, <2>4, <2>5, <2>6, <2>7, <2>8, LoopKeeps DEF TakesComplete
<1>2. CASE CoreStep \/ AgentStep \/ AgentEndStep \/ InterruptStep
  <2>1. state' = state /\ captured' = captured /\ sd' = sd
    BY <1>2, BesideKept DEF besideVars, loopVars, fixedVars
  <2>2. Owes("Exited") => Owes("Exited")' BY <1>2, <1>i, <1>p, SessionOwes
  <2>3. CASE CoreStart
    <3>1. task = "none" /\ (Head(ops) = "Review" => task' = "review") BY <2>3 DEF CoreStart
    <3>2. Works("Review") => Head(ops) = "Review" \/ Works("Review")' BY <1>i, <2>3, OpsTaken
    <3> QED BY <2>1, <2>2, <3>1, <3>2 DEF Phased, InPhase
  <2>4. CASE CoreExitReview
    <3>1. Owes("Exited")' BY <1>2, <1>i, <1>p, <2>4, SessionOwes
    <3> QED BY <3>1 DEF Phased
  <2>5. CASE CoreCompleteReview \/ CoreCompleteTurn \/ AgentStarts \/ AgentEnds \/ Interrupt
    <3>1. ops' = ops /\ (task = "review" => task' = "review")
      BY <2>5 DEF CoreCompleteReview, CoreCompleteTurn, AgentStarts, AgentEnds, Interrupt
    <3>2. Works("Review") => Works("Review")' BY <3>1 DEF Works
    <3> QED BY <2>1, <2>2, <3>1, <3>2 DEF Phased, InPhase
  <2>6. CASE CoreShutdown
    <3>1. Works("Shutdown") BY <1>i, <2>6, OpsTaken DEF CoreShutdown
    <3>2. Asked(sd) BY <3>1 DEF Recorded, Asked
    <3> QED BY <2>1, <3>2 DEF Phased
  <2> QED BY <1>2, <2>3, <2>4, <2>5, <2>6 DEF CoreStep, AgentStep, AgentEndStep, InterruptStep
<1>3. CASE OtherBump \/ OtherLock \/ UNCHANGED vars
  <2>1. /\ events' = events /\ task' = task /\ ops' = ops /\ state' = state
        /\ captured' = captured /\ sd' = sd
    BY <1>3 DEF OtherBump, OtherLock, vars, loopVars, coreVars, fixedVars
  <2> QED BY <2>1 DEF Phased, InPhase, Owes, Works
<1> QED BY <1>1, <1>2, <1>3 DEF Next

LEMMA NextOwed ==
    ASSUME LockInv, Recorded, Based, Phased, Owed, Pumped, Pumped', [Next]_vars
    PROVE  Owed'
<1>i. Typed BY DEF LockInv
<1>t. sd \in Shutdowns /\ tracked \in BOOLEAN BY <1>i DEF Typed, TypeOK, Shutdowns
<1>p. pump /\ pc' = "loop" BY DEF Pumped
<1>s. state # None => state.phase \in Phases BY <1>i DEF Typed, TypeOK, AutoResolveState
<1>w. ASSUME NEW op \in {"Review", "UserInput"}, Works(op)' PROVE ~(NoWork')
  BY <1>w DEF Works, NoWork
<1>1. CASE ExecStep \/ DeadlinePasses \/ TimeBudgetExceeded
  <2>1. /\ captured' = captured /\ requested' = requested /\ task' = task
        /\ Asked(sd) => Asked(sd')
        /\ \A op : Works(op) => Works(op)'
    BY <1>1, <1>i, LoopWake
  <2>2. ~NoWork => ~(NoWork')
    <3> SUFFICES ASSUME ~NoWork PROVE ~(NoWork') OBVIOUS
    <3>1. PICK op : op # "Shutdown" /\ Works(op) BY DEF NoWork, Works
    <3>2. Works(op)' BY <2>1, <3>1
    <3> QED BY <3>1, <3>2 DEF Works, NoWork
  <2>3. CASE FixLockBusy \/ FollowupLockBusy \/ StopFollowup
    <3>1. sd' = request_shutdown(sd, tracked)
      BY <2>3 DEF FixLockBusy, FollowupLockBusy, StopFollowup, GiveUp, Submit
    <3> QED BY <1>t, <3>1, ShutdownWaits DEF Owed
  <2>4. CASE DispatchFix \/ SubmitFollowup
    <3>1. PICK work \in {<<"UserInput">>, <<"Review">>} : \E s \in Shutdowns : Submit(work, s)
      BY <1>i, <2>4, FinishTyped DEF DispatchFix, SubmitFollowup
    <3>2. /\ work \in {<<>>, <<"Review">>, <<"UserInput">>} /\ work # <<>>
          /\ work[1] \in {"Review", "UserInput"}
      BY <3>1
    <3>3. Works(work[1])' BY <1>i, <3>1, <3>2, ShutdownSubmitted
    <3> QED BY <1>w, <3>2, <3>3 DEF Owed
  <2>5. CASE FollowupWithoutBase
    <3>1. ~base /\ state # None BY <2>5 DEF FollowupWithoutBase, FollowupLocked, InPhase
    <3>2. requested /\ ~captured BY <3>1 DEF Recorded, Based
    <3> QED BY <2>1, <3>2 DEF Owed
  <2>6. CASE CompleteOther
    <3>1. Receive("TaskComplete") /\ sd' = Finish(state) BY <2>6 DEF CompleteOther, Submit
    <3>2. CASE state = None \/ ~requested BY <1>i, <3>1, <3>2, FinishWaits DEF Owed
    <3>3. CASE state # None /\ requested
      <4>1. InPhase("WaitingForReview") BY <1>s, <2>6, <3>3 DEF CompleteOther, InPhase, Phases
      <4>2. ~captured \/ Asked(sd) BY <3>1, <4>1, WaitingNotComplete
      <4> QED BY <2>1, <3>3, <4>2 DEF Owed
    <3> QED BY <3>2, <3>3
  <2>7. CASE ~TakesComplete
    <3>1. Owes("TaskComplete") => Owes("TaskComplete")' BY <1>1, <1>i, <1>p, <2>7, LoopKeeps
    <3> QED BY <2>1, <2>2, <3>1 DEF Owed
  <2> QED BY <2>3, <2>4, <2>5, <2>6, <2>7 DEF TakesComplete
<1>2. CASE CoreStep \/ AgentStep \/ AgentEndStep \/ InterruptStep
  <2>1. sd' = sd /\ captured' = captured /\ requested' = requested
    BY <1>2, BesideKept DEF besideVars, loopVars, fixedVars
  <2>2. Owes("TaskComplete") => Owes("TaskComplete")' BY <1>2, <1>i, <1>p, SessionOwes
  <2>3. CASE CoreStart \/ CoreExitReview
    <3>1. task' \in {"review", "reviewed", "turn"} BY <2>3 DEF CoreStart, CoreExitReview
    <3> QED BY <3>1 DEF Owed
  <2>4. CASE CoreCompleteReview \/ CoreCompleteTurn
    <3>1. Owes("TaskComplete")' BY <1>2, <1>i, <1>p, <2>4, SessionOwes
    <3> QED BY <3>1 DEF Owed
  <2>5. CASE AgentStarts \/ AgentEnds \/ Interrupt
    <3>1. ops' = ops /\ task' = task BY <2>5 DEF AgentStarts, AgentEnds, Interrupt
    <3> QED BY <2>1, <2>2, <3>1 DEF Owed, NoWork
  <2>6. CASE CoreShutdown
    <3>1. Works("Shutdown") BY <1>i, <2>6, OpsTaken DEF CoreShutdown
    <3>2. Asked(sd) BY <3>1 DEF Recorded, Asked
    <3> QED BY <2>1, <3>2 DEF Owed
  <2> QED BY <1>2, <2>3, <2>4, <2>5, <2>6 DEF CoreStep, AgentStep, AgentEndStep, InterruptStep
<1>3. CASE OtherBump \/ OtherLock \/ UNCHANGED vars
  <2>1. /\ events' = events /\ task' = task /\ ops' = ops /\ sd' = sd
        /\ captured' = captured /\ requested' = requested
    BY <1>3 DEF OtherBump, OtherLock, vars, loopVars, coreVars, fixedVars
  <2> QED BY <2>1 DEF Owed, Owes, NoWork
<1> QED BY <1>1, <1>2, <1>3 DEF Next

LEMMA InitWake == Init => WakeInv
<1> SUFFICES ASSUME Init PROVE WakeInv OBVIOUS
<1>1. /\ ops = <<"Review">> /\ events = <<>> /\ task = "none" /\ sd = NotRequested
      /\ tracked = FALSE /\ base = captured
  BY DEF Init
<1>2. ~sd.sent /\ ~sd.pending BY <1>1 DEF NotRequested
<1>3. 1 \in 1 .. Len(ops) /\ ops[1] = "Review" BY <1>1
<1>4. Works("Review") /\ ~NoWork BY <1>3 DEF Works, NoWork
<1>5. \A i \in 1 .. Len(events) : FALSE BY <1>1
<1>6. ~Works("Shutdown") /\ (~requested => state = None) BY <1>1 DEF Init, Works
<1> QED BY <1>1, <1>2, <1>4, <1>5, <1>6 DEF WakeInv, Recorded, Sending, Deferred, Based, Tracking, Goodbye, Phased, Owed

LEMMA WakeCovers == WakeInv => WakeOnTheWay
<1> SUFFICES ASSUME WakeInv, pc = "loop", captured \/ ~requested, pump, events = <<>>,
                    task = "ended" \/ (ops = <<>> /\ task = "none")
             PROVE  sd.pending /\ (sd.deadline # "none" \/ agent = "running")
  BY DEF WakeOnTheWay
<1>1. Sending /\ Deferred /\ Tracking /\ Goodbye /\ Owed BY DEF WakeInv, Pumped
<1>2. \A j \in 1 .. Len(events) : FALSE OBVIOUS
<1>3. ops = <<>> /\ task = "none" BY <1>1, <1>2 DEF Goodbye, Owes
<1>4. \A i \in 1 .. Len(ops) : FALSE BY <1>3
<1>5. ~sd.sent /\ NoWork BY <1>1, <1>3, <1>4 DEF Sending, Works, NoWork
<1>6. sd.pending BY <1>1, <1>2, <1>3, <1>5 DEF Owed, Asked, Owes
<1> QED BY <1>1, <1>2, <1>6 DEF Deferred, Tracking, OverAfter

\* exec's loop is never stranded: as long as it runs, and the base snapshot was captured
\* or auto-resolve is off, an event is queued, the session has work that ends in one, the
\* forwarding of events is over, a deadline runs, or the shutdown waits for a background
\* review that does run.  The safety core of EndsWithBase, in every mode.
THEOREM LoopNeverStranded == Spec => []WakeOnTheWay
<1> DEFINE I == LockInv /\ WakeInv
<1>1. Init => I BY InitWake, InitLockInv
<1>2. ASSUME I, [Next]_vars PROVE I'
  <2>1. LockInv' BY <1>2, NextLockInv
  <2>t. Typed /\ LockInv /\ Recorded BY <1>2 DEF LockInv, WakeInv
  <2>2. pc' = "loop" => (Sending /\ Deferred /\ Based)'
    BY <1>2, <2>t, PumpedBefore, NextSending, NextBased DEF WakeInv
  <2>3. ASSUME Pumped' PROVE (Tracking /\ Goodbye /\ Phased /\ Owed)'
    <3>1. Pumped BY <1>2, <2>3, <2>t, PumpedBefore
    <3>2. Based /\ Tracking /\ Goodbye /\ Phased /\ Owed BY <1>2, <3>1 DEF WakeInv, Pumped
    <3>3. Tracking' /\ Goodbye' BY <1>2, <2>3, <2>t, <3>1, <3>2, NextTracking, NextGoodbye
    <3>4. Phased' /\ Owed' BY <1>2, <2>3, <2>t, <3>1, <3>2, NextPhased, NextOwed
    <3> QED BY <3>3, <3>4
  <2>4. Recorded' BY <1>2, <2>t, NextRecorded
  <2>5. WakeInv' BY <2>2, <2>3, <2>4 DEF WakeInv
  <2> QED BY <2>1, <2>5
<1>3. I => WakeOnTheWay BY WakeCovers
<1> HIDE DEF I
<1>4. Init /\ [][Next]_vars => []I BY <1>1, <1>2, PTL
<1> QED BY <1>3, <1>4, PTL DEF Spec
=============================================================================
