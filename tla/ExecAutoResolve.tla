-------------------------- MODULE ExecAutoResolve --------------------------
(***************************************************************************)
(* exec's /review with auto-resolve: review, let the model fix what was    *)
(* found, review again, until nothing is found or a limit or a change of   *)
(* the repository by somebody else stops the loop; then shut the session   *)
(* down.  The core session answers on an event channel, and other          *)
(* processes take the review lock and bump the snapshot epoch meanwhile.   *)
(* The lock and the epoch are atomic here; ReviewLock and SnapshotEpoch    *)
(* look inside.                                                            *)
(***************************************************************************)
EXTENDS Integers, Sequences

CONSTANTS None,
          MaxAttempts,      \* auto_resolve_review_attempts; 0 means no limit
          JsonMode,         \* the JSON event processor is in use
          Grace,            \* auto_review_grace_enabled
          TimeBudget,       \* --max-seconds was given
          MaxForeignBumps,  \* bound: epoch bumps by other processes
          MaxForeignLocks   \* bound: times another process takes the lock

ASSUME NoneAssumption == None \notin Nat
ASSUME MaxAttemptsAssumption == MaxAttempts \in Nat
ASSUME ModesAssumption == {JsonMode, Grace, TimeBudget} \subseteq BOOLEAN
ASSUME MaxForeignAssumption == MaxForeignBumps \in Nat /\ MaxForeignLocks \in Nat

VARIABLES
    pc,                 \* exec's event loop: loop, done
    state,              \* auto_resolve_state, or None
    base,               \* auto_resolve_base_snapshot is there
    guards,             \* which of review, fix and followup guards exec holds
    last_review_epoch,
    sd,                 \* shutdown_pending, shutdown_sent, shutdown_deadline
    tracked,            \* auto_review_tracker.is_running()
    error_seen,
    ops,                \* submissions to the core session
    events,             \* events from it
    task,               \* the core's task: none, review, reviewed, turn
    agent,              \* a background auto review: absent, running, finished
    pump,               \* the task that forwards events is alive
    lock,               \* who owns the review lock: free, exec, other
    epoch,              \* the snapshot epoch
    tree,               \* the working tree; the base snapshot holds tree 0
    repo,               \* the directory is in a git repository
    foreign,            \* bumps and locks by other processes so far
    requested,          \* auto-resolve is on
    reviews,            \* history: reviews submitted
    unguarded,          \* history: exec started without a lock of its own
    captured            \* history: the base snapshot was captured

loopVars == <<pc, state, base, guards, last_review_epoch, sd, tracked, error_seen>>
coreVars == <<task, agent, pump, tree>>
sharedVars == <<lock, epoch, foreign>>
fixedVars == <<repo, requested, unguarded, captured>>
vars == <<loopVars, ops, events, coreVars, sharedVars, reviews, fixedVars>>

Phases == {"WaitingForReview", "PendingFix", "AwaitingFix"}
AutoResolveState == [phase : Phases, attempt : Nat, snapshot_epoch : Nat \union {None},
                     last_commit : Nat \union {None}]

ASSUME NoStateAssumption == None \notin AutoResolveState

Exited(output, snapshot) == [kind |-> "Exited", output |-> output, snapshot |-> snapshot]
TaskComplete == [kind |-> "TaskComplete"]
ShutdownComplete == [kind |-> "ShutdownComplete"]
ErrorEvent == [kind |-> "Error"]
AgentStatus(running) == [kind |-> "AgentStatus", running |-> running]

Remember(st, epoch_now) == [st EXCEPT !.snapshot_epoch = epoch_now]

NotRequested == [pending |-> FALSE, sent |-> FALSE, deadline |-> "none"]
Sent == [pending |-> FALSE, sent |-> TRUE, deadline |-> "none"]

\* The state keeps its types; shutdown is not requested, pending with or without a
\* deadline, or sent, and once sent nothing of it is pending any more.
TypeOK ==
    /\ pc \in {"loop", "done"}
    /\ state \in AutoResolveState \union {None}
    /\ base \in BOOLEAN
    /\ guards \subseteq {"review", "fix", "followup"}
    /\ last_review_epoch \in Nat
    /\ sd \in {NotRequested, Sent}
           \union [pending : {TRUE}, sent : {FALSE}, deadline : {"none", "armed", "passed"}]
    /\ tracked \in BOOLEAN
    /\ error_seen \in BOOLEAN
    /\ ops \in Seq({"Review", "UserInput", "Shutdown"})
    /\ task \in {"none", "review", "reviewed", "turn", "ended"}
    /\ agent \in {"absent", "running", "finished"}
    /\ lock \in {"free", "exec", "other"}
    /\ {epoch, tree, reviews} \subseteq Nat
    /\ foreign \in [bumps : 0 .. MaxForeignBumps, locks : 0 .. MaxForeignLocks]

\* What capturing a ghost snapshot adds to the epoch: the post-commit hook and an
\* explicit bump; a snapshot that differs from its base is bumped once more.
CaptureBumps == 2
CaptureAgainstBaseBumps == 3

\* run_main up to its event loop: the lock is taken, or the process goes on without it
\* (the lease of a parent, or the lock file cannot be written); with auto-resolve the
\* base snapshot is captured if it can be, then a working snapshot, which is kept only
\* if it differs from the base; the first review is submitted.
Init ==
    /\ pc = "loop"
    /\ \/ guards = {"review"} /\ lock = "exec" /\ unguarded = FALSE
       \/ guards = {} /\ lock \in {"free", "other"} /\ unguarded = TRUE
    /\ repo \in BOOLEAN
    /\ requested \in BOOLEAN
    /\ captured \in BOOLEAN
    /\ captured => repo /\ requested
    /\ base = captured
    /\ \E working \in {0, CaptureBumps, CaptureAgainstBaseBumps} :
           /\ working # 0 => captured
           /\ epoch = (IF captured THEN CaptureBumps ELSE 0) + working
           /\ tree = IF working = CaptureAgainstBaseBumps THEN 1 ELSE 0
           /\ state = IF requested
                      THEN [phase |-> "WaitingForReview", attempt |-> 0,
                            snapshot_epoch |-> epoch - working,
                            last_commit |-> IF tree = 0 THEN None ELSE tree]
                      ELSE None
    /\ last_review_epoch = epoch
    /\ sd = NotRequested
    /\ tracked = FALSE
    /\ error_seen = FALSE
    /\ ops = <<"Review">>
    /\ events = <<>>
    /\ task = "none"
    /\ agent = "absent"
    /\ pump = TRUE
    /\ foreign = [bumps |-> 0, locks |-> 0]
    /\ reviews = 1

-----------------------------------------------------------------------------
(* request_shutdown *)

\* Op::Shutdown goes out once, not while a background auto review runs, and with a
\* grace period not before it has passed.
request_shutdown(s, running) ==
    IF s.sent THEN Sent
    ELSE IF running THEN [s EXCEPT !.pending = TRUE, !.deadline = "none"]
    ELSE IF ~Grace THEN Sent
    ELSE IF ~s.pending /\ s.deadline = "none" THEN [s EXCEPT !.pending = TRUE, !.deadline = "armed"]
    ELSE IF s.deadline = "armed" THEN [s EXCEPT !.pending = TRUE]
    ELSE Sent

\* What the loop does after every event it has processed.
Recheck(s, running) == IF s.pending THEN request_shutdown(s, running) ELSE s

\* A handler submits its work first and Op::Shutdown, if it sent it, last.
Submit(work, s) ==
    /\ sd' = s
    /\ ops' = ops \o work \o (IF s.sent /\ ~sd.sent THEN <<"Shutdown">> ELSE <<>>)
    /\ reviews' = reviews + (IF work = <<"Review">> THEN 1 ELSE 0)

Receive(kind) ==
    /\ pc = "loop"
    /\ events # <<>>
    /\ Head(events).kind = kind
    /\ events' = Tail(events)

-----------------------------------------------------------------------------
(* EventMsg::ExitedReviewMode *)

\* Dropping a guard frees the lock.
Hold(held) ==
    /\ guards' = held
    /\ lock' = IF held # {} THEN "exec" ELSE IF guards # {} THEN "free" ELSE lock

\* Mutant: the limit is compared before the attempt is counted.
LimitReachedLate(st) == MaxAttempts > 0 /\ st.attempt > MaxAttempts

LimitReached(st) == MaxAttempts > 0 /\ st.attempt + 1 > MaxAttempts

NextPhase(output) ==
    IF state = None \/ output # "findings" \/ LimitReached(state)
    THEN None
    ELSE [state EXCEPT !.attempt = state.attempt + 1, !.phase = "PendingFix"]

\* A review that ends releases both review locks.  If the epoch moved while it ran the
\* result is dropped; else findings are to be fixed unless the limit is reached.
RecvExited ==
    /\ Receive("Exited")
    /\ Hold(guards \ {"review", "followup"})
    /\ LET e == Head(events)
       IN  \/ /\ e.snapshot
              /\ epoch # last_review_epoch
              /\ state' = None
              /\ base' = FALSE
              /\ Submit(<<>>, sd)
           \/ /\ ~(e.snapshot /\ epoch # last_review_epoch)
              /\ state' = NextPhase(e.output)
              /\ base' = (base /\ state' # None)
              /\ Submit(<<>>, Recheck(sd, tracked))
    /\ UNCHANGED <<pc, last_review_epoch, tracked, error_seen, coreVars, epoch, foreign, fixedVars>>

-----------------------------------------------------------------------------
(* EventMsg::TaskComplete *)

\* Mutant: every completed task stops the session, as without auto-resolve.
FinishAlways(st) == Recheck(request_shutdown(sd, tracked), tracked)

\* The end of the handler: shut down when the loop is over, then what the event
\* processor asks for.  The JSON processor always stops on a completed task.
Finish(st) ==
    LET s1 == IF st = None /\ ~sd.sent THEN request_shutdown(sd, tracked) ELSE sd
        s2 == IF JsonMode \/ ~requested THEN request_shutdown(s1, tracked) ELSE s1
    IN  Recheck(s2, tracked)

\* Mutant: giving up leaves the shutdown to the next completed task.
GiveUpQuietly ==
    /\ state' = None
    /\ base' = FALSE
    /\ Submit(<<>>, sd)
    /\ UNCHANGED last_review_epoch

\* Every way to give up drops the state, the base and the guards and shuts down.
GiveUp ==
    /\ state' = None
    /\ base' = FALSE
    /\ Submit(<<>>, request_shutdown(sd, tracked))
    /\ UNCHANGED last_review_epoch

InPhase(phase) == state # None /\ state.phase = phase

\* Nothing to fix and nothing to follow up.
CompleteOther ==
    /\ Receive("TaskComplete")
    /\ ~InPhase("PendingFix")
    /\ ~InPhase("AwaitingFix")
    /\ base' = (base /\ state # None)
    /\ Submit(<<>>, Finish(state))
    /\ UNCHANGED <<pc, state, guards, last_review_epoch, tracked, error_seen, coreVars,
                   sharedVars, fixedVars>>

\* Mutant: the fix runs whether or not its guard could be acquired.
DispatchFixUnlocked ==
    /\ Receive("TaskComplete")
    /\ InPhase("PendingFix")
    /\ Hold(IF lock = "free" THEN {"fix"} ELSE guards)
    /\ state' = Remember([state EXCEPT !.phase = "AwaitingFix"], epoch)
    /\ Submit(<<"UserInput">>, Finish(state'))
    /\ UNCHANGED <<pc, base, last_review_epoch, tracked, error_seen, coreVars, epoch, foreign,
                   fixedVars>>

\* The review's own task is complete: with the lock in hand the fix is dispatched.
DispatchFix ==
    /\ Receive("TaskComplete")
    /\ InPhase("PendingFix")
    /\ "fix" \in guards \/ lock = "free"
    /\ Hold(guards \union {"fix"})
    /\ state' = Remember([state EXCEPT !.phase = "AwaitingFix"], epoch)
    /\ Submit(<<"UserInput">>, Finish(state'))
    /\ UNCHANGED <<pc, base, last_review_epoch, tracked, error_seen, coreVars, epoch, foreign,
                   fixedVars>>

\* The lock is busy, or its file cannot be written.
FixLockBusy ==
    /\ Receive("TaskComplete")
    /\ InPhase("PendingFix")
    /\ "fix" \notin guards
    /\ GiveUp
    /\ Hold(guards \ {"fix", "followup"})
    /\ UNCHANGED <<pc, tracked, error_seen, coreVars, epoch, foreign, fixedVars>>

\* The fix guard is dropped and the follow-up guard taken: two calls, and another
\* process may come in between.
FollowupLocked ==
    /\ Receive("TaskComplete")
    /\ InPhase("AwaitingFix")
    /\ "followup" \in guards \/ "fix" \in guards \/ lock = "free"

FollowupLockBusy ==
    /\ Receive("TaskComplete")
    /\ InPhase("AwaitingFix")
    /\ "followup" \notin guards
    /\ LET released == IF "fix" \in guards THEN "free" ELSE lock
       IN  \/ lock' = released /\ UNCHANGED foreign
           \/ /\ released = "free"
              /\ foreign.locks < MaxForeignLocks
              /\ foreign' = [foreign EXCEPT !.locks = foreign.locks + 1]
              /\ lock' = "other"
    /\ guards' = guards \ {"fix"}
    /\ GiveUp
    /\ UNCHANGED <<pc, tracked, error_seen, coreVars, epoch, fixedVars>>

\* Without a base snapshot nothing more is done: the state stays.
FollowupWithoutBase ==
    /\ FollowupLocked
    /\ ~base
    /\ Hold((guards \ {"fix"}) \union {"followup"})
    /\ state' = [state EXCEPT !.phase = "WaitingForReview"]
    /\ Submit(<<>>, Finish(state'))
    /\ UNCHANGED <<pc, base, last_review_epoch, tracked, error_seen, coreVars, epoch, foreign,
                   fixedVars>>

EpochAdvanced == epoch > state.snapshot_epoch

\* HEAD left the base (anybody may commit), the epoch advanced during the fix, the
\* snapshot could not be taken or shows no change, or it is the commit reviewed last:
\* the same tree, and the same second, since the id covers the commit's time.
StopFollowup ==
    /\ FollowupLocked
    /\ base
    /\ \/ UNCHANGED epoch
       \/ ~EpochAdvanced /\ epoch' = epoch + CaptureBumps
       \/ ~EpochAdvanced /\ state.last_commit = tree /\ epoch' = epoch + CaptureAgainstBaseBumps
    /\ Hold(guards \ {"fix", "followup"})
    /\ GiveUp
    /\ UNCHANGED <<pc, tracked, error_seen, coreVars, foreign, fixedVars>>

\* The follow-up review of a fresh snapshot.
SubmitFollowup ==
    /\ FollowupLocked
    /\ base
    /\ ~EpochAdvanced
    /\ tree # 0
    /\ Hold((guards \ {"fix"}) \union {"followup"})
    /\ epoch' = epoch + CaptureAgainstBaseBumps
    /\ last_review_epoch' = epoch'
    /\ state' = Remember([state EXCEPT !.phase = "WaitingForReview", !.last_commit = tree], epoch')
    /\ Submit(<<"Review">>, Finish(state'))
    /\ UNCHANGED <<pc, base, tracked, error_seen, coreVars, foreign, fixedVars>>

-----------------------------------------------------------------------------
(* The other arms of the loop, and its end *)

\* Mutant: the status is noted, and the pending shutdown not looked at again.
RecvAgentStatusNoted ==
    /\ Receive("AgentStatus")
    /\ tracked' = Head(events).running
    /\ Submit(<<>>, sd)
    /\ UNCHANGED <<pc, state, base, guards, last_review_epoch, error_seen, coreVars, sharedVars,
                   fixedVars>>

RecvAgentStatus ==
    /\ Receive("AgentStatus")
    /\ tracked' = Head(events).running
    /\ Submit(<<>>, Recheck(sd, tracked'))
    /\ UNCHANGED <<pc, state, base, guards, last_review_epoch, error_seen, coreVars, sharedVars,
                   fixedVars>>

RecvError ==
    /\ Receive("Error")
    /\ error_seen' = TRUE
    /\ Submit(<<>>, Recheck(sd, tracked))
    /\ UNCHANGED <<pc, state, base, guards, last_review_epoch, tracked, coreVars, sharedVars, fixedVars>>

\* The grace period runs out, and the loop's timer notices.
DeadlinePasses ==
    /\ pc = "loop"
    /\ sd.deadline = "armed"
    /\ sd' = [sd EXCEPT !.deadline = "passed"]
    /\ UNCHANGED <<pc, state, base, guards, last_review_epoch, tracked, error_seen, ops, events,
                   coreVars, sharedVars, reviews, fixedVars>>

ShutdownTimer ==
    /\ pc = "loop"
    /\ sd.pending
    /\ sd.deadline = "passed"
    /\ Submit(<<>>, request_shutdown(sd, tracked))
    /\ UNCHANGED <<pc, state, base, guards, last_review_epoch, tracked, error_seen, events,
                   coreVars, sharedVars, fixedVars>>

\* std::process::exit runs no destructors, so the guards' file stays.
Exit(error) ==
    /\ pc' = "done"
    /\ error_seen' = error
    /\ IF error THEN UNCHANGED <<guards, lock>> ELSE Hold({})
    /\ UNCHANGED <<state, base, last_review_epoch, sd, tracked, ops, coreVars, epoch, foreign,
                   reviews, fixedVars>>

RecvShutdownComplete == Receive("ShutdownComplete") /\ Exit(error_seen)

EventsClosed == pc = "loop" /\ ~pump /\ events = <<>> /\ Exit(error_seen) /\ UNCHANGED events

TimeBudgetExceeded == pc = "loop" /\ TimeBudget /\ Exit(TRUE) /\ UNCHANGED events

ExecStep ==
    \/ RecvExited \/ CompleteOther \/ DispatchFix \/ FixLockBusy \/ FollowupLockBusy
    \/ FollowupWithoutBase \/ StopFollowup \/ SubmitFollowup \/ RecvAgentStatus \/ RecvError
    \/ ShutdownTimer \/ RecvShutdownComplete \/ EventsClosed

-----------------------------------------------------------------------------
(* The core session, as exec sees it *)

Emit(es) == events' = IF pump THEN events \o es ELSE events

CoreStart ==
    /\ task = "none"
    /\ ops # <<>>
    /\ Head(ops) \in {"Review", "UserInput"}
    /\ ops' = Tail(ops)
    /\ task' = IF Head(ops) = "Review" THEN "review" ELSE "turn"
    /\ UNCHANGED <<events, agent, pump, tree>>

\* A review ends with findings, with none, or without output, after an error maybe.
CoreExitReview ==
    /\ task = "review"
    /\ task' = "reviewed"
    /\ \/ \E output \in {"none", "empty", "findings"} : Emit(<<Exited(output, repo)>>)
       \/ Emit(<<ErrorEvent, Exited("none", repo)>>)
    /\ UNCHANGED <<ops, agent, pump, tree>>

CoreCompleteReview ==
    /\ task = "reviewed"
    /\ task' = "none"
    /\ Emit(<<TaskComplete>>)
    /\ UNCHANGED <<ops, agent, pump, tree>>

CoreCompleteTurn ==
    /\ task = "turn"
    /\ task' = "none"
    /\ tree' \in {tree, tree + 1}
    /\ Emit(<<TaskComplete>>) \/ Emit(<<ErrorEvent, TaskComplete>>)
    /\ UNCHANGED <<ops, agent, pump>>

\* Shutdown aborts the running task; an aborted review may still report its exit.
CoreShutdown ==
    /\ ops # <<>>
    /\ Head(ops) = "Shutdown"
    /\ ops' = Tail(ops)
    /\ task' = "ended"
    /\ \/ Emit(<<ShutdownComplete>>)
       \/ task = "review" /\ Emit(<<Exited("none", repo), ShutdownComplete>>)
    /\ UNCHANGED <<agent, pump, tree>>

AgentStarts ==
    /\ task # "ended"
    /\ agent = "absent"
    /\ agent' = "running"
    /\ Emit(<<AgentStatus(TRUE)>>)
    /\ UNCHANGED <<ops, task, pump, tree>>

AgentEnds ==
    /\ task # "ended"
    /\ agent = "running"
    /\ agent' = "finished"
    /\ Emit(<<AgentStatus(FALSE)>>)
    /\ UNCHANGED <<ops, task, pump, tree>>

\* Ctrl-C ends the forwarding of events.
Interrupt ==
    /\ pump
    /\ pump' = FALSE
    /\ UNCHANGED <<ops, events, task, agent, tree>>

besideVars == <<loopVars, sharedVars, reviews, fixedVars>>

CoreStep ==
    /\ pc = "loop"
    /\ \/ CoreStart \/ CoreExitReview \/ CoreCompleteReview \/ CoreCompleteTurn \/ CoreShutdown
    /\ UNCHANGED besideVars

AgentStep == pc = "loop" /\ AgentStarts /\ UNCHANGED besideVars

AgentEndStep == pc = "loop" /\ AgentEnds /\ UNCHANGED besideVars

InterruptStep == pc = "loop" /\ Interrupt /\ UNCHANGED besideVars

(* Other processes *)

OtherBump ==
    /\ foreign.bumps < MaxForeignBumps
    /\ foreign' = [foreign EXCEPT !.bumps = foreign.bumps + 1]
    /\ epoch' = epoch + 1
    /\ UNCHANGED <<loopVars, ops, events, coreVars, lock, reviews, fixedVars>>

OtherLock ==
    /\ \/ /\ lock = "free"
          /\ foreign.locks < MaxForeignLocks
          /\ lock' = "other"
          /\ foreign' = [foreign EXCEPT !.locks = foreign.locks + 1]
       \/ lock = "other" /\ lock' = "free" /\ UNCHANGED foreign
    /\ UNCHANGED <<loopVars, ops, events, coreVars, epoch, reviews, fixedVars>>

Next ==
    \/ ExecStep \/ DeadlinePasses \/ TimeBudgetExceeded
    \/ CoreStep \/ AgentStep \/ AgentEndStep \/ InterruptStep \/ OtherBump \/ OtherLock

Spec == Init /\ [][Next]_vars

\* The core works off its submissions, time passes, background reviews end and exec
\* handles its events.
FairSpec ==
    /\ Spec
    /\ WF_vars(ExecStep)
    /\ WF_vars(DeadlinePasses)
    /\ WF_vars(CoreStep)
    /\ WF_vars(AgentEndStep)

-----------------------------------------------------------------------------
(* Properties *)

Works(op) == \E i \in 1 .. Len(ops) : ops[i] = op

\* While a review or a fix of exec is submitted or running, exec owns the review lock
\* (unless it started under a lease): the locks of review, fix and follow-up are
\* handed over without a gap in which work goes on unprotected.
WorksUnderLock ==
    pc = "loop" /\ task # "ended" /\ ~unguarded
        /\ (Works("Review") \/ Works("UserInput") \/ task \in {"review", "turn"})
    => lock = "exec"

\* The limit of n attempts allows the first review and n re-reviews, no more.
ReviewsBounded == MaxAttempts > 0 => reviews <= MaxAttempts + 1

\* exec shuts the session down only when the loop is over: no fix or review of its own
\* is then submitted, running or still to come.
ShutdownOnlyWhenDone ==
    sd.sent => state = None /\ ~Works("Review") /\ ~Works("UserInput") /\ task \in {"none", "ended"}

\* exec never waits for nothing: as long as its loop runs the session owes it an event or
\* has work, the forwarding of events is over (which ends the loop), the grace period
\* runs, or the shutdown waits for a background review that does run.
WakeOnTheWay ==
    pc = "loop" /\ (captured \/ ~requested) =>
        \/ events # <<>>
        \/ task # "ended" /\ (ops # <<>> \/ task # "none")
        \/ ~pump
        \/ sd.pending /\ (sd.deadline # "none" \/ agent = "running")

\* exec ends, with a result of the loop or a limit, and the session is shut down,
\* whenever the base snapshot could be captured or auto-resolve is off.
EndsWithBase == captured \/ ~requested ~> pc = "done"
=============================================================================
