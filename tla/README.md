# A verification project for the Rust workspace `code-rs`

The program is a terminal coding agent (a fork of the Codex CLI): a core session that
talks to a model and runs its tools, a TUI and a headless `exec` front end, *Auto Drive*,
which lets a coordinator model steer the session towards a goal, and *auto review*, which
reviews the working tree and lets the model repair what was found. This directory holds
TLA+ models of the parts in which several threads, tasks or processes meet, the TLC runs
that check them on small instances, and theorems that TLAPS proves for all instances.

`src/codex-rs/` is a mirror of the upstream project and is not the subject.

## Inventory

| Part | State | Operations | Interacts through | What is hard | What makes it correct |
|---|---|---|---|---|---|
| Readiness flag, `utils/readiness` | atomic flag, token counter, token set behind a mutex, watch channel | `subscribe`, `mark_ready`, `wait_ready`, `is_ready` | tasks of one process | the flag, the set and the broadcast are three separate updates; the mutex is awaited with a timeout | raised once, only by a token; issued tokens work until then; waiters wake |
| Review lock, `core/review_coord` | one lock file per scope, guards | `try_acquire_lock`, `Drop`, `clear_stale_lock_if_dead` | the file system; several processes | crashes anywhere, check-then-remove by path | one review pipeline at a time; the lock goes with its guard; on Unix a dead owner's lock is cleared |
| Snapshot epoch, `core/review_coord` | a number in a file | `bump_snapshot_epoch(_for)`, `current_snapshot_epoch(_for)` | the file system | unlocked read-modify-write, truncation | a mutation during a review is noticed |
| Auto Drive coordinator thread, `auto_coordinator` | pending conversation, ack gate, capped queue, counters | one loop: request a decision, receive a command | command and event channels | client commands in any order; retries; acks late or repeated; stop and cancel | one unacknowledged decision, order kept, nothing lost but by eviction, bounded retries and turns, it ends |
| exec's review and auto-resolve loop, `exec/lib.rs` | phase, guards, base snapshot, epoch baseline, delayed shutdown | one handler per event, a timer, a deadline | event channel of the core session, lock and epoch files | other processes between two handlers; several paths that request shutdown | works under the lock, respects the limit, ends, and only when done |
| exec's Auto Drive driver, `run_auto_drive_session` | place in its loop, review tracker, deadline | take an event, acknowledge, run a turn, send the conversation, end | the coordinator's channels, the core session | the ack goes out before the turn; the deadline may pass anywhere; a turn may end silently | it decides on the latest conversation only, takes turns with the coordinator, and ends |
| Auto Drive controller and its host, `controller.rs`, `tui/chatwidget.rs` | run phase, countdown id, restart token, pending stop, handle, review flow | one handler per event, key and tick | one FIFO of events, countdown threads, restart timers, the coordinator, the session | events of an earlier run or an earlier draft; each event sets a phase of its own | an abandoned coordinator is cancelled, a tick submits its own draft, a wait ends, a paused run is retried |
| Core session, `core/codex/session.rs`, `streaming.rs` | the turn slot, four queues of work | operations of the submission loop, background wake-ups, the turn loop, follow-up work | the state mutex, aborts in tasks of their own | a decision taken under the mutex and carried out after it; aborted turns that run on to their next wait | every turn can be interrupted, no message is left in an idle session, a user input goes to one turn or is lost only with an aborted task |

The parts meet like this: the TUI or exec submits operations to the core session and
reads its events; with Auto Drive on, either of them starts a coordinator thread, sends it
the conversation and turns its decisions into operations of the session; a review, in exec
or in the TUI, holds the review lock and watches the snapshot epoch. `PROJECT.json` lists
the other parts (MCP, browser, login, apply-patch and so on) with the reason each is left
out: mostly I/O, text processing or plumbing.

The file also lists the hazards, each at its line: what an interleaving, a crash, a late
timer or a boundary could break here, and which property looks at it.

## Modules

| Module | What it is |
|---|---|
| `Readiness` | abstract contract of the `Readiness` trait: each call one atomic step |
| `ReadinessFlag` | `ReadinessFlag`, one step per atomic operation, mutex acquisition and channel operation; refines `Readiness` |
| `ReviewLock` | the lock file, one step per file-system call, crashing processes |
| `SnapshotEpoch` | the epoch file, one step per file-system call |
| `AutoCoordinator` | `run_auto_loop` |
| `CoordinatorContract` | what the coordinator promises whoever holds its handle: no channels, no loop |
| `CoordinatorClient` | `AutoCoordinator` with the most general client of `AutoCoordinatorHandle`; refines `CoordinatorContract` |
| `AutoDriveExec` | `run_auto_drive_session` composed with `AutoCoordinator`: `CoordinatorClient` with its client replaced by exec's driver |
| `AutoDriveHost` | the TUI's handlers of Auto Drive with the controller, coordinators by their contract, timers, the session |
| `ExecAutoResolve` | exec's event loop for `/review`, the core session as its environment, other processes |
| `SessionTurns` | the core session's turn slot and its queues |
| `MC*` | model values, symmetry |
| `*Proofs` | theorems and their proofs |

Definitions after a comment "Mutant of", "Mutant:" or "A mistake ..." are deliberately wrong
variants. Substituting one for the definition it varies must make TLC report the property
it is paired with in `PROJECT.json`; no specification uses them.

### ReadinessFlag

`ready`, `tokens`, `sent` are the `AtomicBool`, the `HashSet` and the watch value;
`next_id` counts `fetch_add` calls and `Token(n)` is the wrapped `i32`, with `IdSpace`
values instead of 2^32. A call is a walk through `pc`: `SubscribeStart` (check, draw a
token), `SubscribeLock`, `SubscribeInsert`; `MarkStart`, `MarkLock`, then `MarkRefuse` or
`MarkStore`, `MarkClear`, `MarkSend`; `WaitStart`, `WaitSubscribe`, `WaitBorrow`,
`WaitChanged`. `LockTimeout` is the one-second limit on the mutex. `WatchSend` is tokio's
`watch::Sender::send`: with no receiver alive it fails and stores nothing.

### ReviewLock and SnapshotEpoch

A client is a place in the program that uses the lock; `ProcOf` gives its process. A
process is replaced when it crashes (`gen`), and `<<p, gen[p]>>` is its pid. `lockFile`
says what the path names, so "the file I read" and "the file I remove" can differ: that is
what `same` and `raced` record. `remove_file` may fail, and neither `ReviewGuard::drop` nor
`clear_stale_lock_if_dead` looks at the error: `DropGuard` and `ClearRemove` have a branch
in which the file stays, and `left` records that it stayed behind the guard that created it.
The constant `Unix` chooses the variant of `pid_alive`: a test of the process, or always
true. In `SnapshotEpoch`, `Blank` is an absent, truncated or
unparsable file, read as 0; `torn` records that two bumps overlapped or one stopped
half-way.

### AutoCoordinator and CoordinatorClient

The variables carry the names of the locals of `run_auto_loop`. A conversation is the
number of the snapshot it came from. `pc` is the position in the loop: `top`, `request`
(inside `request_coordinator_decision`), `recv`, `exited`. `Top*` are the ways through the
top of the loop, `Request*` the possible answers of a request, `Recv*` the arms of
`cmd_rx.recv()`. A request is an arbitrary answer: a decision, a recoverable validation
error, another error, or cancellation. Events that carry no protocol state (thinking
deltas, token metrics, notices, compacted history) are left out. `working`, `attempts`,
`continues`, `done`, `dropped`, `accepted` and `unacked` are history for the properties.
`CoordInit` has three starts: seeded with a planning decision, with the initial
conversation, or exited at once because the thread got no runtime.

`CoordinatorContract` keeps what a host can rely on: the gate, the decisions' numbers, the
conversations and prompts still to deal with, and the events. The refinement mapping of
`CoordinatorClient` looks through the channels: a command counts when it is sent, so an ack
opens the gate as soon as it is in the channel, and a conversation is the coordinator's
from its sending until the decision on it. Two steps of the loop are then one of the
contract's or none.

### AutoDriveExec

It extends `CoordinatorClient` and adds the driver's place in its code (`at`), the event in
hand, the review tracker and the deadline. Where the driver sends a command, the action is
the client's action of `CoordinatorClient` with more conjuncts, so the composition is a
restriction of the most general client; `DriveIsClient` proves that it is. `TurnSilent` is
a turn that completes without an agent message, after which `submit_and_wait` goes on
waiting; `TurnError` is an error it returns; `Expire` lets the deadline of `--max-seconds`
pass. A goal is required, so the run is seeded unless the thread got no runtime, which the
driver learns from the closed channel; the driver sends no user prompt.

### AutoDriveHost

`phase` is `AutoRunPhase`; the other controller variables have the names of its fields.
`AwaitingDiagnostics` is three phases: `AwaitingDecision` and `AwaitingResponse` by the flag
`coordinator_waiting`, and `AwaitingNothing` where a message or a command sent during a
manual edit sets that flag although the coordinator was sent nothing.
`bulk` is the FIFO channel behind `AppEventSender`; `HandleEvent` takes its head and is the
disjunction of the handlers (`DecisionPlanning`, `DecisionContinue`, `DecisionSuccess`,
`DecisionFailed`, `DecisionIgnored`, `auto_handle_user_reply`, `auto_handle_restart`,
`RestartIgnored`, `on_error`, `insert_final_answer`, `auto_on_turn_complete`,
`QuiescentIgnored`, `EnteredReviewMode`, `ExitedReviewMode`). `User` is what a person may do:
start a goal, submit a prompt, ask for a review, edit, press Enter, change the mode, press
Esc. `Launch` and `Bootstrap` are the two forms of `/auto`; either may fail, for want of a
thread or of a history. They keep a pending stop message that `auto_stop` has not taken
(`StopMessageKept`), and leave the mode alone: it is set from the configuration, which holds
the controller's mode from the start (`chatwidget.rs:7370`) and is changed with it
(`chatwidget.rs:19636`, `19652`). An error whose wording says that the core retries is only
displayed: that is the second branch of `on_error`. Countdown ticks arrive through no queue
and carry an id only. A coordinator is
`CoordinatorContract` with conversations counted instead of named, without evictions
(they need more than 24 conversations waiting for one ack); the contract is what
`AutoCoordinator` is checked and proved to keep. One start of the contract is left out, that
of a thread that gets no runtime (see the observations). The answer of the session passes through the channel twice
(`chatwidget.rs:14201`), so it may come before or behind the end of its turn. Left out: the
fallback `try_coordinator_route`, the TUI's own auto-resolve loop, slash commands in a
reply; ticks that are ignored are no step; the three timed continue modes are one.

### SessionTurns

`current` is `state.current_task`, `task` every `AgentTask` ever spawned with the place of
its future in `run_agent` or `run_compact_task`, the four `pending_*` variables the queues
of `State`. One action is one section under the state mutex. Whoever starts a turn - the
submission loop, the task that handles the agents' status, the bridge, or a finished turn
with follow-up work - walks through `start`: check (`CheckIdle`, `StartPostTurn`), hooks
(`HooksPass`, `HooksBlock`), spawn (`SpawnTask`), install (`SetTask`); the task runs from
`SpawnTask` on. `Aborted` marks a future; `Killed` drops it where it waits, so until then
the marked turn goes on. `Session::abort` takes the task under the mutex and aborts it
right after; the two are one step. A turn asks for pending input at the top of its loop: an
ordinary one drains the queue of user inputs (`DrainUserInput`), a review or a post-turn one
gets a clone of each (`CopyQueued`). History for the properties: `given`, which ordinary
turn got a user input; `copied`, which of the others got a clone; `waited`, the inputs that
have been in the queue; `lost`, those a task held in its hands when it was dropped;
`lastExit`, how the slot was last emptied. Not modelled: ConfigureSession,
which makes a new session object, the stream and the tools, the history.

### ExecAutoResolve

One action per arm of the event loop, split by what the handler finds: `RecvExited`
(ExitedReviewMode); `CompleteOther`, `DispatchFix`, `FixLockBusy`, `FollowupLockBusy`,
`FollowupWithoutBase`, `StopFollowup`, `SubmitFollowup` (TaskComplete); `RecvAgentStatus`,
`RecvError`, `ShutdownTimer`, `TimeBudgetExceeded`, `EventsClosed`,
`RecvShutdownComplete`. `request_shutdown` is the function of that name with
`shutdown_state_after_request`; it is idempotent while a handler runs, so a handler that
calls it three times is modelled by one call. A handler is one step, except that another
process may take the lock between the drop of the fix guard and the follow-up acquire
(`FollowupLockBusy`). The lock and the epoch are atomic variables here; their inner races
are the subject of the two modules above. The core session (`core/src/codex/streaming.rs`)
is the environment: it works off submissions one at a time, a review reports
ExitedReviewMode and then TaskComplete, a turn reports TaskComplete, an error event may
come first, Shutdown aborts what runs. HEAD may leave the base at any time, since anybody
may commit. `AwaitingJudge` is a phase exec never enters and is not modelled; nor is
SIGTERM, which kills the process.

## Runs

Passing runs:

| Run | Shows |
|---|---|
| `readiness` | one winner; tokens expire with readiness; issued tokens stay valid; tokens are unique; the flag implements `Readiness`; the broadcast reaches every sleeper that subscribed before it; a waiter registered before the broadcast wakes; marker calls return |
| `lock` | on Unix: one holder unless a clear removed another file than it read; a live process's lock is backed by its creator unless that guard's own removal failed; a completely written lock of a dead process is cleared, also after removals that failed |
| `epoch` | completed bumps are seen by every review they fell into, if bumps neither overlap nor stop half-way; the counter stays a u64 |
| `coordinator` | ack gate, order, nothing vanishes, no stranded queue, retry bound, turn cap; the thread with any client implements `CoordinatorContract`; accepted snapshots are handled; Stop or a dropped handle ends the thread |
| `drive_exec` | exec's driver: nothing is decided while a turn runs, the queue is never used, every decision is on the latest conversation, the run ends |
| `host` | TUI: an abandoned coordinator is cancelled, a countdown submits its own draft, a paused run has its restart on the way, whatever the host waits for is due, every wait ends |
| `session` | core session: no turn escapes an interrupt, an idle session has no message left, a user input is in exactly one place - queued, in a starter's hands, with one ordinary turn, blocked by a hook, or lost - and lost only if it had waited in the queue |
| `resolve` | work only under the lock; re-review limit; shutdown only when the loop is over; something will always wake the loop; exec ends if the base snapshot was captured or auto-resolve is off |

Runs that must fail, each a disagreement between the code and what a doc or comment says
(quoted under "findings"):

| Run | Behaviour found |
|---|---|
| `readiness_lost_wakeup` | `wait_ready` checks the flag, `mark_ready` stores it and broadcasts to nobody, `wait_ready` subscribes and waits for ever |
| `lock_exclusion` | `clear_stale_lock_if_dead` removes the lock of a new owner; two clients hold it |
| `host_retry` | a paused Auto Drive run is taken out of the pause by the late answer of a diagnostics turn; its restart is then ignored, and the run is active with nothing to drive it |
| `session_review` | a review turn is given clones of the inputs queued for later, which stay queued and go to an ordinary turn as well |

### Observations without a run

Behaviour the models contain or that was met while writing them, of which no doc says
otherwise, or which needs more than a run can show.

Readiness, lock and epoch:
* After 2^32 calls on one flag the token counter wraps to 0, against the comment "ensure it's
  not 0" (`utils/readiness/src/lib.rs:93`), and tokens repeat. `TokensUnique` is about a
  counter that does not wrap.
* A process that dies between creating and writing the lock file leaves a lock without a
  pid, which is never cleared (`WrittenOrphanCleared` is about written ones).
* Where `pid_alive` is always true, that is not on Unix, no orphan is ever cleared, and the
  first crash under the lock ends all reviews of that directory until somebody removes the
  file. In return no clear can race: exclusion holds without a side condition there, which
  is proved (`ExclusiveOffUnix`).
* A guard whose removal fails leaves the lock of a live process with nobody behind it. It
  blocks every review until that process ends (`LeftOnlyByFailedDrop` shows that this is the
  only way to such a lock).
* `clear_stale_lock_if_dead` "Returns true if a stale lock was cleared" (its doc comment);
  it also returns true when the removal failed. Of its callers only the TUI's worktree
  cleanup (`tui/src/lib.rs:981`) looks at the result.
* The lock's scope is the directory the caller passes, `cwd` in most, while
  `bump_snapshot_epoch` uses the top level of the repository: reviews in two directories of
  one repository do not exclude each other. The model has one scope.
* Overlapping or torn bumps can bring the epoch back to a review's baseline, so the
  mutation goes unnoticed (`DetectedUnlessTorn` excludes them).
* A recorded pid may be reused; `clear_stale_lock_if_dead` then keeps the lock.

exec:
* Auto-resolve without a base snapshot waits for ever after the fix (`EndsWithBase`
  excludes it), and the JSON processor shuts the session down right after the first task.
* The fix is dispatched at TaskComplete without comparing the epoch with the review's.
* An error ends exec through `process::exit(1)`, which skips the guards' destructors.
* A turn without an agent message leaves the driver waiting, if there is no `--max-seconds`
  (`Stuck` in `RunEnds`).

Host:
* A tick of a stopped run whose id comes round again submits in the new run, manual mode
  included; `TickSubmitsItsDraft` is about one run. Restart tokens restart at 0 with `reset`
  too.
* The decision of a cancelled coordinator, already in the channel, is acted on in the next
  run and acknowledged to the new coordinator.
* A late `UserReply` makes a run active without a coordinator, and a failed user prompt
  leaves it active with nothing on its way.
* A review of Auto Drive holds the lock itself, so `on_begin_review` falls back to Active.
* A message or command sent during a manual edit, with routing off, without a coordinator or
  as the late reply of an earlier run, sets `coordinator_waiting` (`chatwidget.rs:13902`)
  although the message went to the session: the end of its turn is ignored
  (`chatwidget.rs:21099`) and the run stays there until the user acts. This is
  `AwaitingNothing`, which `WaitCovered` and `WaitsEnd` exclude; in every other phase of
  waiting, something that ends it is due.
* `pending_stop_message` survives a restart: the next answer, whichever turn it is of, is
  read as a verdict and ends the run. If the restart gets no thread the message even waits
  for the next run, since `reset` keeps it (`controller.rs:767`).
* A coordinator thread that gets no runtime (`auto_coordinator.rs:1981`) only logs it. exec
  sees its channel closed (in the model of `drive_exec`); the TUI's sender lives on, so the
  host would wait for its first decision until the user acts. `AutoDriveHost` assumes the
  runtime.
* The check for a duplicate auto review compares the batch `auto-review`
  (`chatwidget.rs:30844`) where the name is that of the branch (`chatwidget.rs:31040`).

Session:
* Post-turn turns get copies of the queued user inputs as reviews do (`session_review`);
  the comment at `streaming.rs:2588` speaks of reviews only.
* `Op::Interrupt` aborts in a task of its own, which may run after a later `UserInput` and
  stop the turn of that one.
* An internal turn decided on while the session was idle replaces a user's turn started
  meanwhile.
* The turn is spawned before it is put into the slot; if it ends first, a finished task is
  put there. A failed compaction leaves its finished task in the slot as well. Until the
  next abort or turn the session then takes itself for busy.
* A successful compaction looks for no follow-up work, and an abort leaves the queues, so
  what they hold waits for the next turn (`IdleServed` asks for `lastExit` "done").
* `QueueUserInput` checks and queues in two sections, so the input may be queued after the
  last turn looked; it waits for the next.
* An aborted turn in its last poll may still take follow-up work, and a queued input it
  holds while the hooks run is lost with it. The model records it in `lost`;
  `InputAccounted` says that nothing else is lost, and nothing twice.
* An error batch of the bridge starts a turn with nothing pending, which ends at once.

### Bounds

* Readiness: two markers and three tokens let a winner meet a loser with a token of its own
  and a late subscriber; two waiters so that one registers before and one after the
  broadcast. The counter has five values, so three tokens do not wrap it, which
  `TokensUnique` needs.
* Lock: three clients, two in one process, and two crashes per process: one client dies,
  a second clears and acquires, a third clears late. Every removal may fail. `Unix` is TRUE;
  the other value takes the removal out of the clear, and the theorems cover both.
* Epoch: two bumpers and two reviews; `EpochMax` 4 reaches saturation.
* Coordinator: a queue of 2 with 4 snapshots overflows; one validation retry, so the
  second failure is one too many; a turn cap of 3; one repeated ack. The code's values
  (24, 3) differ only in size; the proofs cover them.
* Driver: five snapshots and a turn cap of 3, so a run ends by the cap, by success, failure,
  retries and deadline; two background reviews, so one can end while another runs.
* Host: two coordinators, two turns, two inputs of the user or errors of the session: a
  restart, a second run after a stop, and an input in either; the continue mode is any at
  the start. Only the first decision of a coordinator may claim success (`MaxSuccess`).
  More inputs, turns and claims are left to the proofs.
* Session: three tasks, three operations, two user inputs, one developer message, a
  compact queue of 1: a turn, its follow-up and a third that races both.
  The two user inputs are interchangeable (symmetry).
* Auto-resolve: two attempts, so that there is a first, a middle and a last re-review; one
  foreign bump and one foreign lock are enough for every race, as each is a single event.
  The run is in the human-readable mode with a grace period; `WakeOnTheWay`, which is about
  every mode, was also checked in the other three combinations (1.1 million states at most).

Deadlock checking is off where the program may stop or wait with nothing to do: all calls
made, the thread exited, exec ended.

### Fairness

* Readiness: the runtime polls a task that can go on (weak fairness per task); nobody has
  to start a call.
* Lock: reviews keep being started and each first calls `clear_stale_lock_if_dead`. A removal
  tried again and again does not fail every time (strong fairness of `ClearRemoved`): a
  directory that lost its write permission for good keeps its lock, whatever the code does.
* Coordinator: the thread runs, a request returns (`retry_with_backoff` has a maximal
  elapsed time), and the client takes its events and acknowledges decisions, as the exec
  driver (`exec/src/lib.rs:1476`) and the TUI do on receipt. Nothing forces snapshots,
  Stop or cancel.
* Driver: the driver and the thread run and the clock advances. With `--max-seconds` nothing
  is expected of the session; without it turns end, reviews end and Shutdown is answered.
* Host: the app's loop, the timers, the current coordinator and the session run; nobody has
  to press a key, and sessions need not fail.
* Auto-resolve: the event loop runs, the core session works off its submissions, time
  passes, and background reviews end. Nothing forces Ctrl-C, the time budget or other
  processes.

## Proofs

All proofs are for arbitrary constants under the assumptions stated in the modules: no
bound on tasks, tokens, clients, processes, crashes, snapshots, queue size, retries, runs,
attempts or inputs.

* `ReadinessFlagProofs`. `FlagInv` adds three facts to the type invariant: who holds the
  mutex is who is between `Lock` and release; before readiness nobody has won and every
  issued token is in the set; after it tokens remain only while the winner is about to
  clear them. The second `is_ready` test is missing from `mark_ready`, so exclusion of a
  second winner rests on the clear happening under the same mutex; `FlagInv` says that.
  `TokensNeverRepeat` has an invariant of its own (`DrawnInv`): a number drawn from the
  counter and not yet inserted is below the counter, belongs to one task and was not issued.
  From `FlagInv` follow `TypeCorrect`, `OneWinner`, `TokensExpire`, `IssuedAccepted` and the
  refinement `FlagImplementsReadiness`: the flag's `valid` tokens are the set while the
  flag is down. `BroadcastReachesSleepers` is the safety core of `RegisteredWaiterWakes`:
  whoever waits with a subscription older than the broadcast finds the channel changed.
  `WatchInv` adds to `FlagInv` who counts as a receiver, so that the send cannot meet an
  empty channel while somebody sleeps.
* `ReviewLockProofs`. `LockInv` ties a guard to the file at the path (`OwnInv`), a clear in
  progress to the pid it read, which is dead for good once it was dead (`SeenInv`), and to
  the file as long as it was not replaced (`SameInv`); `LeftOnlyByFailedDrop` is part of it.
  Removals that fail only leave the file and its facts as they were. It gives
  `ReviewExclusion` (with the side condition the violation run shows to be needed),
  `LockLeftOnlyByFailedDrop`, and `ExclusiveOffUnix`: with `pid_alive` constant no clear gets
  as far as the removal, nothing is raced, and the side condition goes.
* `CoordinatorClientProofs`. `CoordinatorTypes` first: the queue stays within its cap.
  `LoopInv` then says, for each position in the loop, how `pending_ack_seq`, the set of
  unacknowledged decisions, the queue, the pending conversation and the counters relate:
  the gate is closed exactly by the one unacknowledged decision; a queued snapshot waits
  for an ack or for a pending one; every accepted snapshot is accounted for; `attempts` is
  bounded by the failure counter. It gives `DecisionGate`, `NoSnapshotLost`,
  `QueueNeverStranded`, `RetriesBounded` and `TurnsBounded`. The lemmas on `Tail`,
  `Append` and the capped push say what the queue holds as a set. `OrderOfDecisions` needs
  a second invariant, `InOrder` (theorem `OrderInvariant`): conversations grow strictly
  along the path channel, queue, pending, working, and nothing on it is older than the last
  one decided on. The refinement `CoordinatorKeepsContract` rests on both: the contract
  decides on the oldest conversation of those it has, which `InOrder` identifies with the
  one the loop is working on; an eviction leaves a newer conversation behind because the
  push that causes it comes with it; and the gate of the contract is the loop's unless its
  ack is already in the channel, where `LoopInv` makes the number match.
* `AutoDriveExecProofs`. `DriveIsClient` shows that every step of the composition is one of
  `CoordinatorClient` or leaves its variables alone, so all theorems above hold of exec.
  `Alternation` (theorem `DriveAlternates`) says for each place of the driver where the
  newest conversation is: on its way behind the ack it waits for, taken, or answered with
  the decision in the channel or in the driver's hand. It gives `DriveTurnsAlone`,
  `DriveQueueUnused` and `DriveDecidesOnLatest`. `DriveTyped` is the type invariant.
  `DriveNeverStranded` (`EventOnTheWay`) is the safety core of `RunEnds`: where the driver
  waits for an event, one is there or the thread owes it one. `EventOnTheWay` was checked
  with TLC on the constants of `drive_exec` and is not listed with the run, whose `RunEnds`
  implies it.
* `SessionTurnsProofs`. `SessionInv` is the type invariant with what a starter holds at each
  step. `NoTurnEscapes` is inductive over it. For `IdleIsServed` the invariant `Served` says
  who will give a waiting message to a turn: the task in the slot, a finished one about to
  look for work, or a starter past its check. For `UserInputAccounted` the invariant
  `Accounted` adds to "each input sent is in one place" that one not sent is nowhere and
  that only starters of a user's turn hold an input; `Waits`, that a task holds only what it
  took from the queue, so what is lost with it had waited. `SessionTypeOK` is proved there
  (`SessionTyped`).

* `SnapshotEpochProofs`. `Orderly` says, as long as no bump was torn: a bump under way is
  the only one and its value is the file's; the file, or the value read by the bump that
  has truncated it, is at least the base of every review and above it once the epoch moved.
  It gives `BumpsDetected`; `EpochsAreU64` is the type invariant.
* `ExecAutoResolveProofs`. The results rest on four invariants over the types
  (`LoopTyped`). `Counted` bounds reviews by the attempts counted so far, one more while a
  review is awaited (`ReReviewsLimited`). `Flight` says that at most one piece of work is
  submitted, running or reported and not yet handled, and that the report of its completion
  comes last; so the handler of a report finds nothing else in flight. With `Guarded` (the
  lock is owned exactly while a guard is held) and `Covered` (which guard covers the work in
  flight) it gives `LockedWork`. `Ending` says that a shutdown is pending or sent only with
  nothing in flight or to come; `ShutdownWhenDone` follows for the human-readable mode.
  In JSON mode it is false, as described under "Observations without a run".
  `LoopNeverStranded` holds in both modes. `WakeInv` says why: until shutdown is asked for, a
  task is still to be completed, and the handler of a completion asks for shutdown or submits
  work, since it never meets a loop that waits for a review (`Phased`) or has no base
  (`Based`); a shutdown that waits without a deadline waits for a background review
  (`Deferred`) that runs or whose end is in the channel (`Tracking`); one that was sent is
  still submitted or obeyed (`Sending`), and one obeyed was answered (`Goodbye`).
* `AutoDriveHostProofs`. `HostInv` (theorem `HostInvariant`) has a part for the coordinators
  (the handle is one of those started; all others are cancelled), one for restarts and one
  for countdowns (`Ticks`: a countdown of the run has an id no later than the draft that
  waits, and one with its id was started for it). The parts need each other: a restart that
  fails to start a thread leaves the handle alone, which is right because a paused host has
  none. It gives `NoStrayCoordinator`, `RestartOnTheWay` and `OwnDraft`. The type invariant
  (`HostTyped`) needs `BeforeRuns`: a countdown belongs to a run because a host that never
  started one is inactive, and nothing in its channel can make it active.
  `WaitsAreCovered` is the safety half of `WaitsEnd`. It needs two facts that are not about
  waiting hosts. `GateSeen`: the decision the current coordinator wants acknowledged is in
  the channel (an older coordinator's decision with its number opens the gate early, never
  late); otherwise a conversation sent to it would never be decided on.
  `ReviewSeen`: unless a review runs, the end of every review entered or about to be is in
  the channel behind its beginning.

Only model-checked: the liveness properties (TLAPS 1.4.5 does not reason about fairness).
Of five of them the safety half is proved: nobody waits for something that is not due
(`QueueNeverStranded`, `BroadcastReachesSleepers`, `DriveNeverStranded`, `LoopNeverStranded`,
`WaitsAreCovered`); that what is due arrives is the part left to TLC. Every invariant and
every action property of a passing run is stated by a theorem. Type invariants are
proved for every module; only those that bound a queue or a counter are listed with a run.

## Not modelled

* The retry helper (`retry.rs`) runs in one task and is a decision table over elapsed time,
  which a unit test reaches; the coordinator's
  liveness assumes that a request ends, which its maximal elapsed time justifies.
* The agent manager spawns external processes; its effect on the session, a wake-up message
  per finished batch, is `AgentCompletionWake`. Read, but not modelled: a cancelled agent
  sends no payload, so its batch may not wake the session; terminal agents are kept, so a
  new session may be woken for old batches.
* `exec_command` sessions and `unified_exec` are races with a PTY and its process.
* Session metrics, account switching, history, rollout files, diffs, patches, policies,
  MCP, browser and login: pure functions, text, file formats or plumbing around services.

The map is small next to the repository: of its 980,000 lines more than half are the mirror
under `codex-rs/`, and most of the rest is rendering, text, formats and plumbing, where a
state machine would only repeat the code.
