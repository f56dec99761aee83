---------------------------- MODULE SessionTurns ----------------------------
(***************************************************************************)
(* The turn slot of a session: core/src/codex/session.rs and the handlers  *)
(* of submission_loop and run_agent in core/src/codex/streaming.rs.        *)
(*                                                                         *)
(* A session keeps at most one AgentTask in state.current_task, and four   *)
(* queues of work for later turns: pending_input (messages for the model,  *)
(* tool outputs), pending_post_turn_input (messages for a turn of their    *)
(* own), pending_user_input (inputs the user queued while a turn ran) and  *)
(* pending_manual_compacts.  Turns are started by the submission loop, by  *)
(* the task that forwards the completion of background agents, by the      *)
(* bridge to the browser, and by a finished turn that finds work waiting.  *)
(* All of them run on a multi-threaded runtime; only the sections under    *)
(* the state mutex are atomic, and one action is one such section.         *)
(***************************************************************************)
EXTENDS Naturals, Sequences, FiniteSets

CONSTANTS
    Users,        \* user inputs: each is submitted or queued at most once
    Devs,         \* developer messages: each is enqueued at most once
    Loop,         \* submission_loop
    Waker,        \* the task that handles agent status payloads
    Bridge,       \* flush_batch of the bridge client
    NoInput,      \* the input of a turn that has only pending input
    MaxTasks,     \* bound: AgentTasks ever spawned
    MaxOps,       \* bound: operations of the user, agents' completions and
                  \* bridge batches, together
    MaxCompacts   \* MAX_PENDING_MANUAL_COMPACTS

ASSUME SessionAssumption ==
    /\ MaxTasks \in Nat /\ MaxOps \in Nat
    /\ MaxCompacts \in Nat \ {0}
    /\ NoInput \notin Users /\ Users \cap Devs = {}
    /\ {Loop, Waker, Bridge} \cap Nat = {}
    /\ Loop # Waker /\ Loop # Bridge /\ Waker # Bridge
    /\ "tool" \notin Devs /\ "prompt" \notin Devs

Tasks == 1 .. MaxTasks

\* Whoever may be in the middle of starting a turn.
Starters == {Loop, Waker, Bridge} \cup Tasks

NoTask == 0

VARIABLES
    current,     \* state.current_task: a task, or NoTask
    task,        \* every AgentTask: what it runs, how far it is, aborted or not
    spawned,     \* number of tasks spawned so far
    pending_input,
    pending_post_turn_input,
    pending_user_input,
    pending_manual_compacts,
    start,       \* per starter: the turn it is about to start
    aborting,    \* aborts spawned by Op::Interrupt or Op::Shutdown, not yet run
    ops,         \* operations so far
    sent,        \* the inputs and messages already sent to the session
    given,       \* per user input: the ordinary turns that got it
    blocked,     \* user inputs a hook refused
    waited,      \* user inputs that were ever in pending_user_input
    lost,        \* user inputs dropped with the task that was starting their turn
    copied,      \* per user input: the kinds of turns that got a copy of it
    lastExit     \* how the slot was last emptied

sessionVars == <<current, task, spawned, pending_input, pending_post_turn_input,
                 pending_user_input, pending_manual_compacts, start, aborting,
                 ops, sent, given, blocked, waited, lost, copied, lastExit>>

queues == <<pending_input, pending_post_turn_input, pending_user_input,
            pending_manual_compacts>>
ghosts == <<given, blocked, waited, lost, copied>>

Kinds == {"user", "pending", "postturn", "review", "compact"}

\* A task is at the top of run_agent's loop, waits for the model, handles its
\* answer, leaves the loop, looks for follow-up work, starts it, or is over.
Stages == {"unborn", "top", "asking", "answered", "ending", "follow", "starting", "over"}
InTurn == {"top", "asking", "answered", "ending"}

\* All that AbortHandle::is_finished tells of a future that returned or was dropped.
Over == [kind |-> "pending", stage |-> "over", aborted |-> FALSE, begun |-> FALSE]

NoStart == [stage |-> "none", kind |-> "pending", input |-> NoInput, task |-> NoTask]

Starting(stage, kind, input) ==
    [stage |-> stage, kind |-> kind, input |-> input, task |-> NoTask]

SessionInit ==
    /\ current = NoTask
    /\ task = [t \in Tasks |-> [kind |-> "pending", stage |-> "unborn",
                          aborted |-> FALSE, begun |-> FALSE]]
    /\ spawned = 0
    /\ pending_input = {} /\ pending_post_turn_input = {}
    /\ pending_user_input = <<>> /\ pending_manual_compacts = 0
    /\ start = [p \in Starters |-> NoStart]
    /\ aborting = 0
    /\ ops = 0
    /\ sent = {}
    /\ given = [u \in Users |-> {}] /\ blocked = {}
    /\ waited = {} /\ lost = {}
    /\ copied = [u \in Users |-> {}]
    /\ lastExit = "none"

-----------------------------------------------------------------------------
(* AgentTask::abort and Session::abort.  A finished task is left alone; of  *)
(* another one the runtime stops the future the next time it has to wait.   *)

Aborted(t) ==
    IF t = NoTask \/ task[t].stage = "over"
    THEN task
    ELSE [task EXCEPT ![t].aborted = TRUE]

\* The queues are kept: see the comment in Session::abort.
AbortCurrent ==
    /\ current' = NoTask
    /\ task' = Aborted(current)
    /\ lastExit' = IF current = NoTask THEN lastExit ELSE "aborted"

\* The abort runs in a task of its own, some time after Op::Interrupt.
RunAbort ==
    /\ aborting > 0
    /\ aborting' = aborting - 1
    /\ AbortCurrent
    /\ UNCHANGED <<spawned, queues, start, ops, sent, ghosts>>

\* An aborted future is dropped where it waits, with the input it holds.  Once
\* it left the loop it waits for nothing but the hooks of a queued input: the
\* event channel is unbounded and cleanup_old_status_items has no await.
Killed(t) ==
    /\ task[t].aborted
    /\ task[t].stage \in InTurn \/ start[t].stage = "hooks"
    /\ task' = [task EXCEPT ![t] = Over]
    /\ start' = [start EXCEPT ![t] = NoStart]
    /\ lost' = lost \cup ({start[t].input} \cap Users)
    /\ UNCHANGED <<current, spawned, queues, aborting, ops, sent, given, blocked, waited,
                   copied, lastExit>>

-----------------------------------------------------------------------------
(* submission_loop: one operation at a time.                                *)

Operation == ops < MaxOps /\ ops' = ops + 1

LoopFree == start[Loop] = NoStart

OpInterrupt ==
    /\ LoopFree
    /\ Operation
    /\ aborting' = aborting + 1
    /\ UNCHANGED <<current, task, spawned, queues, start, sent, ghosts, lastExit>>

\* Op::ExecApproval and Op::PatchApproval with ReviewDecision::Abort.
OpApprovalAbort ==
    /\ LoopFree
    /\ Operation
    /\ AbortCurrent
    /\ UNCHANGED <<spawned, queues, start, aborting, sent, ghosts>>

OpShutdown ==
    /\ LoopFree
    /\ Operation
    /\ aborting' = aborting + 1
    /\ start' = [start EXCEPT ![Loop] = Starting("ended", "pending", NoInput)]
    /\ UNCHANGED <<current, task, spawned, queues, sent, ghosts, lastExit>>

OpUserInput(u) ==
    /\ LoopFree /\ u \notin sent
    /\ Operation
    /\ sent' = sent \cup {u}
    /\ AbortCurrent
    /\ start' = [start EXCEPT ![Loop] = Starting("hooks", "user", u)]
    /\ UNCHANGED <<spawned, queues, aborting, ghosts>>

\* has_running_task; the input is queued in a second section.
OpQueueUserInput(u) ==
    /\ LoopFree /\ u \notin sent
    /\ Operation
    /\ sent' = sent \cup {u}
    /\ start' = [start EXCEPT ![Loop] =
                    Starting(IF current # NoTask THEN "queue" ELSE "hooks", "user", u)]
    /\ UNCHANGED <<current, task, spawned, queues, aborting, ghosts, lastExit>>

QueueUserInput ==
    /\ start[Loop].stage = "queue"
    /\ pending_user_input' = Append(pending_user_input, start[Loop].input)
    /\ waited' = waited \cup {start[Loop].input}
    /\ start' = [start EXCEPT ![Loop] = NoStart]
    /\ UNCHANGED <<current, task, spawned, pending_input, pending_post_turn_input,
                   pending_manual_compacts, aborting, ops, sent, given, blocked, lost,
                   copied, lastExit>>

\* enqueue_out_of_turn_item tells in the same section whether the session is
\* idle; only then does the caller p start a turn.
EnqueueOutOfTurn(p, d) ==
    /\ start[p] = NoStart /\ d \notin sent
    /\ Operation
    /\ sent' = sent \cup {d}
    /\ pending_input' = pending_input \cup {d}
    /\ start' = IF current = NoTask
                THEN [start EXCEPT ![p] = Starting("spawn", "pending", NoInput)]
                ELSE start
    /\ UNCHANGED <<current, task, spawned, pending_post_turn_input, pending_user_input,
                   pending_manual_compacts, aborting, ghosts, lastExit>>

OpAddPendingInputDeveloper(d) == EnqueueOutOfTurn(Loop, d)

\* enqueue_agent_completion_wake, in the task of the agents' status.
AgentCompletionWake(d) == EnqueueOutOfTurn(Waker, d)

OpAddPostTurnDeveloperInput(d) ==
    /\ LoopFree /\ d \notin sent
    /\ Operation
    /\ sent' = sent \cup {d}
    /\ pending_post_turn_input' = pending_post_turn_input \cup {d}
    /\ start' = IF current = NoTask
                THEN [start EXCEPT ![Loop] = Starting("postturn", "postturn", NoInput)]
                ELSE start
    /\ UNCHANGED <<current, task, spawned, pending_input, pending_user_input,
                   pending_manual_compacts, aborting, ghosts, lastExit>>

\* inject_input: the prompt joins a running turn, and a compact is queued too.
OpCompact ==
    /\ LoopFree
    /\ Operation
    /\ IF current # NoTask
       THEN /\ pending_input' = pending_input \cup {"prompt"}
            /\ start' = [start EXCEPT ![Loop] = Starting("queue_compact", "compact", NoInput)]
       ELSE /\ start' = [start EXCEPT ![Loop] = Starting("spawn", "compact", NoInput)]
            /\ UNCHANGED pending_input
    /\ UNCHANGED <<current, task, spawned, pending_post_turn_input, pending_user_input,
                   pending_manual_compacts, aborting, sent, ghosts, lastExit>>

\* A full queue drops its oldest request before it takes the new one.
EnqueueManualCompact ==
    /\ start[Loop].stage = "queue_compact"
    /\ pending_manual_compacts' =
           IF pending_manual_compacts >= MaxCompacts
           THEN MaxCompacts ELSE pending_manual_compacts + 1
    /\ start' = [start EXCEPT ![Loop] = NoStart]
    /\ UNCHANGED <<current, task, spawned, pending_input, pending_post_turn_input,
                   pending_user_input, aborting, ops, sent, ghosts, lastExit>>

OpReview ==
    /\ LoopFree
    /\ Operation
    /\ AbortCurrent
    /\ start' = [start EXCEPT ![Loop] = Starting("spawn", "review", NoInput)]
    /\ UNCHANGED <<spawned, queues, aborting, sent, ghosts>>

\* flush_batch of a batch with an error: start_pending_only_turn_if_idle.
FlushBatch ==
    /\ start[Bridge] = NoStart
    /\ Operation
    /\ start' = [start EXCEPT ![Bridge] = Starting("checkidle", "pending", NoInput)]
    /\ UNCHANGED <<current, task, spawned, queues, aborting, sent, ghosts, lastExit>>

-----------------------------------------------------------------------------
(* Starting a turn: the sections of whoever does it, from the first check to *)
(* set_task.                                                                 *)

\* The starter p is through; a finished task that started follow-up work ends.
StartOver(p) ==
    /\ start' = [start EXCEPT ![p] = NoStart]
    /\ task' = IF p \in Tasks THEN [task EXCEPT ![p] = Over] ELSE task

MoveOn(p, stage) == start' = [start EXCEPT ![p].stage = stage]

\* start_post_turn_pending_only_turn_if_idle.
StartPostTurn(p) ==
    /\ start[p].stage = "postturn"
    /\ IF current # NoTask \/ pending_post_turn_input = {}
       THEN /\ StartOver(p)
            /\ UNCHANGED <<pending_input, pending_post_turn_input>>
       ELSE /\ pending_input' = pending_input \cup pending_post_turn_input
            /\ pending_post_turn_input' = {}
            /\ MoveOn(p, "checkidle")
            /\ UNCHANGED task
    /\ UNCHANGED <<current, spawned, pending_user_input, pending_manual_compacts, aborting,
                   ops, sent, ghosts, lastExit>>

\* start_internal_pending_only_turn: the check is over before the turn starts.
CheckIdle(p) ==
    /\ start[p].stage = "checkidle"
    /\ IF current # NoTask
       THEN StartOver(p)
       ELSE MoveOn(p, "spawn") /\ UNCHANGED task
    /\ UNCHANGED <<current, spawned, queues, aborting, ops, sent, ghosts, lastExit>>

\* spawn_user_turn: the hooks for a prompt let it pass ...
HooksPass(p) ==
    /\ start[p].stage = "hooks"
    /\ MoveOn(p, "spawn")
    /\ UNCHANGED <<current, task, spawned, queues, aborting, ops, sent, ghosts, lastExit>>

\* ... or block it; handle_follow_up_action then looks for other work.
HooksBlock(p) ==
    /\ start[p].stage = "hooks"
    /\ blocked' = blocked \cup {start[p].input}
    /\ start' = [start EXCEPT ![p] = NoStart]
    /\ task' = IF p \in Tasks THEN [task EXCEPT ![p].stage = "follow"] ELSE task
    /\ UNCHANGED <<current, spawned, queues, aborting, ops, sent, given, waited, lost, copied,
                   lastExit>>

\* AgentTask::spawn, ::compact, ::review: the task runs from here on.
SpawnTask(p) ==
    /\ start[p].stage = "spawn" /\ spawned < MaxTasks
    /\ spawned' = spawned + 1
    /\ LET t == spawned + 1
           u == start[p].input
       IN /\ task' = [task EXCEPT ![t] =
                        [kind |-> start[p].kind, aborted |-> FALSE,
                         begun |-> start[p].kind \in {"user", "review", "compact"},
                         stage |-> IF start[p].kind = "compact" THEN "asking" ELSE "top"]]
          /\ start' = [start EXCEPT ![p] = [stage |-> "install", kind |-> start[p].kind,
                                           input |-> NoInput, task |-> t]]
          /\ given' = IF u \in Users THEN [given EXCEPT ![u] = @ \cup {t}] ELSE given
    /\ UNCHANGED <<current, queues, aborting, ops, sent, blocked, waited, lost, copied, lastExit>>

\* set_task: the task in the slot, if there is one, is aborted and replaced.
SetTask(p) ==
    /\ start[p].stage = "install"
    /\ current' = start[p].task
    /\ task' = IF p \in Tasks THEN [Aborted(current) EXCEPT ![p] = Over]
                              ELSE Aborted(current)
    /\ start' = [start EXCEPT ![p] = NoStart]
    /\ UNCHANGED <<spawned, queues, aborting, ops, sent, ghosts, lastExit>>

-----------------------------------------------------------------------------
(* run_agent, for every kind of task but "compact".                         *)

\* get_pending_input_filtered: reviews and post-turn turns see a copy of the
\* queued user inputs; another turn takes them, but only together with
\* pending input.
Copies(t) == task[t].kind \in {"review", "postturn"}
Drains(t) == ~ Copies(t) /\ pending_input # {}
SeesInput(t) == pending_input # {} \/ (Copies(t) /\ pending_user_input # <<>>)

UsersQueued == {pending_user_input[i] : i \in DOMAIN pending_user_input}

Gets(t) == [u \in Users |-> IF u \in UsersQueued THEN given[u] \cup {t} ELSE given[u]]

\* A mistake InputAccounted would catch: every turn gets a copy.
CopyUserInput(t) ==
    IF Drains(t)
    THEN given' = Gets(t) /\ UNCHANGED pending_user_input
    ELSE UNCHANGED <<pending_user_input, given>>

DrainUserInput(t) ==
    IF Drains(t)
    THEN given' = Gets(t) /\ pending_user_input' = <<>>
    ELSE UNCHANGED <<pending_user_input, given>>

\* The copies reach the model: a review adds them to its own history, a post-turn
\* turn to the session's.
CopyQueued(t) ==
    copied' = IF Copies(t)
              THEN [u \in Users |-> IF u \in UsersQueued THEN copied[u] \cup {task[t].kind}
                                                        ELSE copied[u]]
              ELSE copied

\* begun: initial_response_item is set.  A turn without input of its own ends
\* at its first pass when nothing is pending.
TopOfLoop(t) ==
    /\ task[t].stage = "top"
    /\ pending_input' = {}
    /\ DrainUserInput(t)
    /\ CopyQueued(t)
    /\ task' = IF SeesInput(t) \/ task[t].begun
               THEN [task EXCEPT ![t].stage = "asking", ![t].begun = TRUE]
               ELSE [task EXCEPT ![t].stage = "ending"]
    /\ UNCHANGED <<current, spawned, pending_post_turn_input, pending_manual_compacts,
                   start, aborting, ops, sent, blocked, waited, lost, lastExit>>

\* The answer of the model; a future that has to wait for it after an abort
\* is dropped instead.
ModelAnswers(t) ==
    /\ task[t].stage = "asking" /\ ~ task[t].aborted
    /\ task' = [task EXCEPT ![t].stage = "answered"]
    /\ UNCHANGED <<current, spawned, queues, start, aborting, ops, sent, ghosts, lastExit>>

\* The loop goes round again: for tool outputs (a review keeps them to itself),
\* after an inline compaction, or because a stop hook asks for it.
GoesOn(t) ==
    /\ task[t].stage = "answered" /\ task[t].kind # "compact"
    /\ task' = [task EXCEPT ![t].stage = "top"]
    /\ \/ pending_input' = pending_input
       \/ task[t].kind # "review" /\ pending_input' = pending_input \cup {"tool"}
    /\ UNCHANGED <<current, spawned, pending_post_turn_input, pending_user_input,
                   pending_manual_compacts, start, aborting, ops, sent, ghosts, lastExit>>

\* A final message or an error.
TurnEnds(t) ==
    /\ task[t].stage = "answered" /\ task[t].kind # "compact"
    /\ task' = [task EXCEPT ![t].stage = "ending"]
    /\ UNCHANGED <<current, spawned, queues, start, aborting, ops, sent, ghosts, lastExit>>

\* A mistake NoOrphanTurn would catch: the slot is emptied whoever is in it.
EmptySlotUnchecked(t, how) ==
    /\ current' = NoTask
    /\ lastExit' = IF current = NoTask THEN lastExit ELSE how

\* remove_task empties the slot of its own task only.
EmptySlotOf(t, how) ==
    /\ current' = IF current = t THEN NoTask ELSE current
    /\ lastExit' = IF current = t THEN how ELSE lastExit

\* A mistake IdleServed would catch: the turn ends without looking for work.
RemoveTaskAndReturn(t) ==
    /\ task[t].stage = "ending"
    /\ EmptySlotOf(t, "done")
    /\ task' = [task EXCEPT ![t] = Over]
    /\ UNCHANGED <<spawned, queues, start, aborting, ops, sent, ghosts>>

RemoveTask(t) ==
    /\ task[t].stage = "ending"
    /\ EmptySlotOf(t, "done")
    /\ task' = [task EXCEPT ![t].stage = "follow"]
    /\ UNCHANGED <<spawned, queues, start, aborting, ops, sent, ghosts>>

\* take_follow_up_turn_action, and the first step of handle_follow_up_action.
FollowUp(t, stage, kind, input) ==
    /\ start' = [start EXCEPT ![t] = Starting(stage, kind, input)]
    /\ task' = [task EXCEPT ![t].stage = "starting"]

TakeFollowUp(t) ==
    /\ task[t].stage = "follow"
    /\ \/ /\ pending_post_turn_input # {}
          /\ pending_input' = pending_input \cup pending_post_turn_input
          /\ pending_post_turn_input' = {}
          /\ FollowUp(t, "checkidle", "postturn", NoInput)
          /\ UNCHANGED <<pending_user_input, pending_manual_compacts>>
       \/ /\ pending_post_turn_input = {} /\ pending_manual_compacts > 0
          /\ pending_manual_compacts' = pending_manual_compacts - 1
          /\ FollowUp(t, "spawn", "compact", NoInput)
          /\ UNCHANGED <<pending_input, pending_post_turn_input, pending_user_input>>
       \/ /\ pending_post_turn_input = {} /\ pending_manual_compacts = 0
          /\ pending_input # {}
          /\ FollowUp(t, "checkidle", "pending", NoInput)
          /\ UNCHANGED queues
       \/ /\ pending_post_turn_input = {} /\ pending_manual_compacts = 0
          /\ pending_input = {} /\ pending_user_input # <<>>
          /\ pending_user_input' = Tail(pending_user_input)
          /\ FollowUp(t, "hooks", "user", Head(pending_user_input))
          /\ UNCHANGED <<pending_input, pending_post_turn_input, pending_manual_compacts>>
       \/ /\ pending_post_turn_input = {} /\ pending_manual_compacts = 0
          /\ pending_input = {} /\ pending_user_input = <<>>
          /\ task' = [task EXCEPT ![t] = Over]
          /\ UNCHANGED <<queues, start>>
    /\ UNCHANGED <<current, spawned, aborting, ops, sent, ghosts, lastExit>>

\* run_compact_task: the slot is emptied when the compaction succeeded, and
\* no follow-up work is looked for.
CompactSucceeds(t) ==
    /\ task[t].stage = "answered" /\ task[t].kind = "compact"
    /\ EmptySlotOf(t, "compacted")
    /\ task' = [task EXCEPT ![t] = Over]
    /\ UNCHANGED <<spawned, queues, start, aborting, ops, sent, ghosts>>

CompactFails(t) ==
    /\ task[t].stage = "answered" /\ task[t].kind = "compact"
    /\ task' = [task EXCEPT ![t] = Over]
    /\ UNCHANGED <<current, spawned, queues, start, aborting, ops, sent, ghosts, lastExit>>

-----------------------------------------------------------------------------
LoopOps ==
    \/ OpInterrupt \/ OpApprovalAbort \/ OpShutdown
    \/ \E u \in Users : OpUserInput(u) \/ OpQueueUserInput(u)
    \/ QueueUserInput
    \/ \E d \in Devs : OpAddPendingInputDeveloper(d) \/ OpAddPostTurnDeveloperInput(d)
    \/ OpCompact \/ EnqueueManualCompact \/ OpReview

Outside == RunAbort \/ FlushBatch \/ (\E d \in Devs : AgentCompletionWake(d))

StartSteps(p) ==
    \/ StartPostTurn(p) \/ CheckIdle(p) \/ HooksPass(p) \/ HooksBlock(p)
    \/ SpawnTask(p) \/ SetTask(p)

TaskSteps(t) ==
    \/ TopOfLoop(t) \/ ModelAnswers(t) \/ GoesOn(t) \/ TurnEnds(t)
    \/ RemoveTask(t) \/ TakeFollowUp(t)
    \/ CompactSucceeds(t) \/ CompactFails(t) \/ Killed(t)

SessionNext ==
    \/ LoopOps
    \/ Outside
    \/ \E p \in Starters : StartSteps(p)
    \/ \E t \in Tasks : TaskSteps(t)

SessionSpec == SessionInit /\ [][SessionNext]_sessionVars

-----------------------------------------------------------------------------
StartRecords ==
    [stage : {"none", "ended", "queue", "queue_compact", "postturn", "checkidle",
              "hooks", "spawn", "install"},
     kind : Kinds, input : Users \cup {NoInput}, task : Tasks \cup {NoTask}]

SessionTypeOK ==
    /\ current \in Tasks \cup {NoTask}
    /\ task \in [Tasks -> [kind : Kinds, stage : Stages,
                          aborted : BOOLEAN, begun : BOOLEAN]]
    /\ spawned \in 0 .. MaxTasks
    /\ pending_input \subseteq Devs \cup {"tool", "prompt"}
    /\ pending_post_turn_input \subseteq Devs
    /\ pending_user_input \in Seq(Users)
    /\ pending_manual_compacts \in 0 .. MaxCompacts
    /\ start \in [Starters -> StartRecords]
    /\ aborting \in Nat
    /\ ops \in 0 .. MaxOps
    /\ sent \subseteq Users \cup Devs
    /\ given \in [Users -> SUBSET Tasks]
    /\ blocked \subseteq Users
    /\ waited \subseteq Users /\ lost \subseteq Users
    /\ copied \in [Users -> SUBSET Kinds]
    /\ lastExit \in {"none", "done", "aborted", "compacted"}

\* NoOrphanTurn: every turn that talks to the model and has not been told to
\* stop is in the slot, where an interrupt finds it, or in the hands of the
\* one who is about to put it there.  (set_task, remove_task,
\* Session::abort.)
NoOrphanTurn ==
    \A t \in Tasks :
        task[t].stage \in InTurn /\ ~ task[t].aborted =>
            current = t \/ \E p \in Starters : start[p].stage = "install" /\ start[p].task = t

\* Nobody runs, starts or is about to look for a turn.
Idle ==
    /\ current = NoTask
    /\ \A p \in Starters : start[p].stage \in {"none", "ended"}
    /\ \A t \in Tasks : task[t].stage # "follow"

\* IdleServed: a session that has fallen idle has no developer message and no
\* compact prompt left to give to the model, unless an abort or a compaction
\* was the last to empty the slot.  (enqueue_out_of_turn_item,
\* enqueue_post_turn_item, remove_task, take_follow_up_turn_action.)
IdleServed ==
    Idle /\ lastExit \in {"none", "done"} =>
        pending_input \subseteq {"tool"} /\ pending_post_turn_input = {}

\* What became of a user input: it is queued, in the hands of whoever starts its
\* turn, given to a turn, refused by a hook, or was dropped with its starter.
Places(u) ==
    {<<"queue", i>> : i \in {j \in DOMAIN pending_user_input : pending_user_input[j] = u}}
        \cup {<<"hand", p>> : p \in {q \in Starters : start[q].input = u}}
        \cup {<<"turn", t>> : t \in given[u]}
        \cup {<<"hook", h>> : h \in {v \in blocked : v = u}}
        \cup {<<"lost", h>> : h \in {v \in lost : v = u}}

\* InputAccounted: a user input that reached the session is in exactly one place, so
\* no two ordinary turns get it, and the only way to lose one is to abort a task that
\* runs the hooks for it.  That befalls only inputs that waited in the queue; one
\* that Op::UserInput or Op::QueueUserInput starts at once never disappears.  (What
\* copies reviews and post-turn turns see on top of that is ReviewSeesNoQueuedInput's
\* subject.)  (queue_user_input, get_pending_input_filtered,
\* take_follow_up_turn_action, spawn_user_turn.)
InputAccounted ==
    /\ \A u \in Users \cap sent : \E place \in Places(u) : Places(u) = {place}
    /\ lost \subseteq waited

\* ReviewSeesNoQueuedInput: no queued user input is injected into a review's
\* conversation, as the comment above the loop of run_agent demands.
ReviewSeesNoQueuedInput == \A u \in Users : "review" \notin copied[u]

=============================================================================
