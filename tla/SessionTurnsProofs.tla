------------------------- MODULE SessionTurnsProofs -------------------------
(***************************************************************************)
(* The session's turn slot: type correctness, no turn escapes an           *)
(* interrupt, an idle session has no message left over, and every user     *)
(* input is in one place, for every number of tasks, inputs, messages and  *)
(* operations.                                                             *)
(***************************************************************************)
EXTENDS SessionTurns, TLAPS

USE SessionAssumption

TaskRecords == [kind : Kinds, stage : Stages, aborted : BOOLEAN, begun : BOOLEAN]

\* What a starter holds at each of its steps; a task starts follow-up work only
\* once it is past its turn.
HandsOK ==
    /\ \A p \in Starters :
          /\ start[p].stage \in {"queue", "hooks"} => start[p].input \in Users
          /\ start[p].stage = "install" => start[p].task \in Tasks
    /\ \A t \in Tasks : start[t].stage # "none" => task[t].stage = "starting"
    /\ \A t \in Tasks : t > spawned => task[t].stage = "unborn"

SessionInv == SessionTypeOK /\ HandsOK

-----------------------------------------------------------------------------
(* The records that the actions build.                                      *)

LEMMA Names ==
    /\ Loop \in Starters /\ Waker \in Starters /\ Bridge \in Starters
    /\ Loop \notin Tasks /\ Waker \notin Tasks /\ Bridge \notin Tasks
    /\ Tasks \subseteq Starters
    /\ Tasks \subseteq Nat /\ NoTask \notin Tasks
BY DEF Starters, Tasks, NoTask

LEMMA StartTyped ==
    ASSUME NEW stage \in {"none", "ended", "queue", "queue_compact", "postturn", "checkidle",
                          "hooks", "spawn", "install"},
           NEW kind \in Kinds, NEW input \in Users \cup {NoInput}
    PROVE  /\ Starting(stage, kind, input) \in StartRecords
           /\ Starting(stage, kind, input).stage = stage
           /\ Starting(stage, kind, input).input = input
BY DEF Starting, StartRecords

LEMMA NoStartTyped == NoStart \in StartRecords /\ NoStart.stage = "none"
BY DEF NoStart, StartRecords, Kinds

LEMMA OverTyped == Over \in TaskRecords /\ Over.stage = "over"
BY DEF Over, TaskRecords, Kinds, Stages

\* An abort changes no task's stage.
LEMMA AbortedTyped ==
    ASSUME SessionTypeOK, NEW t \in Tasks \cup {NoTask}
    PROVE  /\ Aborted(t) \in [Tasks -> TaskRecords]
           /\ \A s \in Tasks : Aborted(t)[s].stage = task[s].stage
           /\ \A s \in Tasks : s # t => Aborted(t)[s] = task[s]
           /\ t \in Tasks => Aborted(t)[t].aborted \/ Aborted(t)[t].stage = "over"
<1>1. task \in [Tasks -> TaskRecords] BY DEF SessionTypeOK, TaskRecords
<1>2. CASE t = NoTask \/ task[t].stage = "over"
  BY <1>1, <1>2, Names DEF Aborted
<1>3. CASE ~ (t = NoTask \/ task[t].stage = "over")
  <2>1. t \in Tasks /\ Aborted(t) = [task EXCEPT ![t].aborted = TRUE] BY <1>3 DEF Aborted
  <2>2. task[t] \in TaskRecords BY <1>1, <2>1
  <2> DEFINE r == [task[t] EXCEPT !.aborted = TRUE]
  <2>3. r \in TaskRecords /\ r.stage = task[t].stage /\ r.aborted BY <2>2 DEF TaskRecords
  <2>4. Aborted(t) = [task EXCEPT ![t] = r] BY <2>1
  <2> HIDE DEF r
  <2> QED BY <1>1, <2>1, <2>3, <2>4
<1> QED BY <1>2, <1>3

\* One step further in starting a turn.
LEMMA StageTyped ==
    ASSUME SessionTypeOK, NEW p \in Starters,
           NEW stage \in {"checkidle", "spawn"},
           start' = [start EXCEPT ![p].stage = stage]
    PROVE  /\ start' \in [Starters -> StartRecords]
           /\ \A q \in Starters : q # p => start'[q] = start[q]
           /\ start'[p].stage = stage
           /\ start'[p].input = start[p].input
<1>1. start \in [Starters -> StartRecords] BY DEF SessionTypeOK
<1> DEFINE r == [start[p] EXCEPT !.stage = stage]
<1>2. start[p] \in StartRecords BY <1>1
<1>3. r \in StartRecords /\ r.stage = stage /\ r.input = start[p].input
  BY <1>2 DEF StartRecords
<1>4. start' = [start EXCEPT ![p] = r] BY <1>1
<1> HIDE DEF r
<1> QED BY <1>1, <1>3, <1>4

-----------------------------------------------------------------------------
(* Type correctness.                                                        *)

LEMMA LoopOpsTyped ==
    ASSUME SessionInv, LoopOps
    PROVE  SessionTypeOK'
<1> USE Names DEF Operation, LoopFree, queues, ghosts, AbortCurrent, SessionInv
<1>1. CASE OpInterrupt BY <1>1 DEF OpInterrupt, SessionTypeOK
<1>2. CASE OpApprovalAbort BY <1>2, AbortedTyped DEF OpApprovalAbort, SessionTypeOK, TaskRecords
<1>3. CASE OpShutdown
  <2> Starting("ended", "pending", NoInput) \in StartRecords BY StartTyped DEF Kinds
  <2> QED BY <1>3 DEF OpShutdown, SessionTypeOK
<1>4. ASSUME NEW u \in Users, OpUserInput(u) PROVE SessionTypeOK'
  <2> Starting("hooks", "user", u) \in StartRecords BY StartTyped DEF Kinds
  <2> QED BY <1>4, AbortedTyped DEF OpUserInput, SessionTypeOK, TaskRecords
<1>5. ASSUME NEW u \in Users, OpQueueUserInput(u) PROVE SessionTypeOK'
  <2> /\ Starting("hooks", "user", u) \in StartRecords
      /\ Starting("queue", "user", u) \in StartRecords BY StartTyped DEF Kinds
  <2> QED BY <1>5 DEF OpQueueUserInput, SessionTypeOK
<1>6. CASE QueueUserInput
  <2>1. waited' \subseteq Users BY <1>6 DEF QueueUserInput, SessionTypeOK, HandsOK
  <2> QED BY <1>6, <2>1, NoStartTyped DEF QueueUserInput, SessionTypeOK, HandsOK
<1>7. ASSUME NEW d \in Devs, OpAddPendingInputDeveloper(d) PROVE SessionTypeOK'
  <2> Starting("spawn", "pending", NoInput) \in StartRecords BY StartTyped DEF Kinds
  <2> QED BY <1>7 DEF OpAddPendingInputDeveloper, EnqueueOutOfTurn, SessionTypeOK
<1>8. ASSUME NEW d \in Devs, OpAddPostTurnDeveloperInput(d) PROVE SessionTypeOK'
  <2> Starting("postturn", "postturn", NoInput) \in StartRecords BY StartTyped DEF Kinds
  <2> QED BY <1>8 DEF OpAddPostTurnDeveloperInput, SessionTypeOK
<1>9. CASE OpCompact
  <2> /\ Starting("queue_compact", "compact", NoInput) \in StartRecords
      /\ Starting("spawn", "compact", NoInput) \in StartRecords BY StartTyped DEF Kinds
  <2> QED BY <1>9 DEF OpCompact, SessionTypeOK
<1>10. CASE EnqueueManualCompact
  BY <1>10, NoStartTyped DEF EnqueueManualCompact, SessionTypeOK
<1>11. CASE OpReview
  <2> Starting("spawn", "review", NoInput) \in StartRecords BY StartTyped DEF Kinds
  <2> QED BY <1>11, AbortedTyped DEF OpReview, SessionTypeOK, TaskRecords
<1> QED
  BY <1>1, <1>2, <1>3, <1>4, <1>5, <1>6, <1>7, <1>8, <1>9, <1>10, <1>11 DEF LoopOps

LEMMA OutsideTyped ==
    ASSUME SessionInv, Outside
    PROVE  SessionTypeOK'
<1> USE Names DEF Operation, queues, ghosts, AbortCurrent, SessionInv
<1>1. CASE RunAbort BY <1>1, AbortedTyped DEF RunAbort, SessionTypeOK, TaskRecords
<1>2. CASE FlushBatch
  <2> Starting("checkidle", "pending", NoInput) \in StartRecords BY StartTyped DEF Kinds
  <2> QED BY <1>2 DEF FlushBatch, SessionTypeOK
<1>3. ASSUME NEW d \in Devs, AgentCompletionWake(d) PROVE SessionTypeOK'
  <2> Starting("spawn", "pending", NoInput) \in StartRecords BY StartTyped DEF Kinds
  <2> QED BY <1>3 DEF AgentCompletionWake, EnqueueOutOfTurn, SessionTypeOK
<1> QED BY <1>1, <1>2, <1>3 DEF Outside

LEMMA StartStepsTyped ==
    ASSUME SessionInv, NEW p \in Starters, StartSteps(p)
    PROVE  SessionTypeOK'
<1> USE Names, NoStartTyped, OverTyped DEF queues, ghosts, SessionInv
<1>0. StartOver(p) => /\ start' \in [Starters -> StartRecords]
                      /\ task' \in [Tasks -> TaskRecords]
  BY DEF StartOver, SessionTypeOK, TaskRecords
<1>1. ASSUME NEW stage \in {"checkidle", "spawn"}, MoveOn(p, stage)
      PROVE  start' \in [Starters -> StartRecords]
  BY <1>1, StageTyped DEF MoveOn
<1>2. CASE StartPostTurn(p) BY <1>0, <1>1, <1>2 DEF StartPostTurn, SessionTypeOK, TaskRecords
<1>3. CASE CheckIdle(p) BY <1>0, <1>1, <1>3 DEF CheckIdle, SessionTypeOK, TaskRecords
<1>4. CASE HooksPass(p) BY <1>1, <1>4 DEF HooksPass, SessionTypeOK
<1>5. CASE HooksBlock(p)
  <2>1. blocked' \subseteq Users BY <1>5 DEF HooksBlock, HandsOK, SessionTypeOK
  <2>2. task' \in [Tasks -> TaskRecords]
    BY <1>5 DEF HooksBlock, SessionTypeOK, TaskRecords, Stages
  <2> QED BY <1>5, <2>1, <2>2 DEF HooksBlock, SessionTypeOK, TaskRecords
<1>6. CASE SpawnTask(p)
  <2> DEFINE t == spawned + 1
             k == start[p].kind
  <2>1. t \in Tasks /\ spawned' \in 0 .. MaxTasks BY <1>6 DEF SpawnTask, SessionTypeOK, Tasks
  <2>2. k \in Kinds BY DEF SessionTypeOK, StartRecords
  <2>3. [stage |-> "install", kind |-> k, input |-> NoInput, task |-> t] \in StartRecords
    BY <2>1, <2>2 DEF StartRecords
  <2>4. start' \in [Starters -> StartRecords] BY <1>6, <2>3 DEF SpawnTask, SessionTypeOK
  <2>5. [kind |-> k, aborted |-> FALSE, begun |-> k \in {"user", "review", "compact"},
         stage |-> IF k = "compact" THEN "asking" ELSE "top"] \in TaskRecords
    BY <2>2 DEF TaskRecords, Stages
  <2>6. task' \in [Tasks -> TaskRecords] BY <1>6, <2>5 DEF SpawnTask, SessionTypeOK, TaskRecords
  <2>7. given' \in [Users -> SUBSET Tasks] BY <1>6, <2>1 DEF SpawnTask, SessionTypeOK
  <2> QED BY <1>6, <2>1, <2>4, <2>6, <2>7 DEF SpawnTask, SessionTypeOK, TaskRecords
<1>7. CASE SetTask(p)
  <2>1. current' \in Tasks BY <1>7 DEF SetTask, HandsOK
  <2>2. Aborted(current) \in [Tasks -> TaskRecords] BY AbortedTyped DEF SessionTypeOK
  <2>3. task' \in [Tasks -> TaskRecords] BY <1>7, <2>2 DEF SetTask
  <2> QED BY <1>7, <2>1, <2>3 DEF SetTask, SessionTypeOK, TaskRecords
<1> QED BY <1>2, <1>3, <1>4, <1>5, <1>6, <1>7 DEF StartSteps

LEMMA TaskStepsTyped ==
    ASSUME SessionInv, NEW t \in Tasks, TaskSteps(t)
    PROVE  SessionTypeOK'
<1> USE Names, OverTyped DEF queues, ghosts, SessionInv
<1>0. task \in [Tasks -> TaskRecords] BY DEF SessionTypeOK, TaskRecords
<1>a. \A stage \in Stages : [task EXCEPT ![t].stage = stage] \in [Tasks -> TaskRecords]
  BY <1>0 DEF TaskRecords
<1>b. [task EXCEPT ![t] = Over] \in [Tasks -> TaskRecords] BY <1>0
<1>c. \A how : EmptySlotOf(t, how) => current' \in Tasks \cup {NoTask}
  BY DEF EmptySlotOf, SessionTypeOK
<1>1. CASE TopOfLoop(t)
  <2>1. task' \in [Tasks -> TaskRecords] BY <1>0, <1>1 DEF TopOfLoop, TaskRecords, Stages
  <2>2. Gets(t) \in [Users -> SUBSET Tasks] BY DEF Gets, SessionTypeOK
  <2>a. <<>> \in Seq(Users) OBVIOUS
  <2>b. ASSUME Drains(t)
        PROVE  given' \in [Users -> SUBSET Tasks] /\ pending_user_input' \in Seq(Users)
    BY <1>1, <2>2, <2>a, <2>b DEF TopOfLoop, DrainUserInput
  <2>c. ASSUME ~ Drains(t)
        PROVE  given' \in [Users -> SUBSET Tasks] /\ pending_user_input' \in Seq(Users)
    BY <1>1, <2>c DEF TopOfLoop, DrainUserInput, SessionTypeOK
  <2>3. given' \in [Users -> SUBSET Tasks] /\ pending_user_input' \in Seq(Users)
    BY <2>b, <2>c
  <2>4. copied' \in [Users -> SUBSET Kinds]
    <3>1. task[t].kind \in Kinds BY <1>0 DEF TaskRecords
    <3> QED BY <1>1, <3>1 DEF TopOfLoop, CopyQueued, SessionTypeOK
  <2> QED BY <1>1, <2>1, <2>3, <2>4 DEF TopOfLoop, SessionTypeOK, TaskRecords
<1>2. CASE ModelAnswers(t) BY <1>a, <1>2 DEF ModelAnswers, SessionTypeOK, TaskRecords, Stages
<1>3. CASE GoesOn(t) BY <1>a, <1>3 DEF GoesOn, SessionTypeOK, TaskRecords, Stages
<1>4. CASE TurnEnds(t) BY <1>a, <1>4 DEF TurnEnds, SessionTypeOK, TaskRecords, Stages
<1>5. CASE RemoveTask(t)
  <2>1. task' \in [Tasks -> TaskRecords] BY <1>a, <1>5 DEF RemoveTask, Stages
  <2>2. lastExit' \in {"none", "done", "aborted", "compacted"}
    BY <1>5 DEF RemoveTask, EmptySlotOf, SessionTypeOK
  <2> QED BY <1>5, <1>c, <2>1, <2>2 DEF RemoveTask, SessionTypeOK, TaskRecords
<1>6. CASE TakeFollowUp(t)
  <2>1. task' \in [Tasks -> TaskRecords]
    BY <1>a, <1>b, <1>6 DEF TakeFollowUp, FollowUp, Stages
  <2>2. pending_user_input # <<>> => /\ Head(pending_user_input) \in Users
                                     /\ Tail(pending_user_input) \in Seq(Users)
    BY DEF SessionTypeOK
  <2>3. /\ Starting("checkidle", "postturn", NoInput) \in StartRecords
        /\ Starting("spawn", "compact", NoInput) \in StartRecords
        /\ Starting("checkidle", "pending", NoInput) \in StartRecords
        /\ pending_user_input # <<>> =>
             Starting("hooks", "user", Head(pending_user_input)) \in StartRecords
    BY <2>2, StartTyped DEF Kinds
  <2>4. start' \in [Starters -> StartRecords]
    <3>1. start \in [Starters -> StartRecords] BY DEF SessionTypeOK
    <3>2. ASSUME NEW r \in StartRecords, start' = [start EXCEPT ![t] = r]
          PROVE  start' \in [Starters -> StartRecords]
      BY <3>1, <3>2
    <3> QED BY <1>6, <2>3, <3>1, <3>2 DEF TakeFollowUp, FollowUp
  <2>5. pending_user_input' \in Seq(Users)
    BY <1>6, <2>2 DEF TakeFollowUp, SessionTypeOK
  <2>6. pending_manual_compacts' \in 0 .. MaxCompacts
    BY <1>6 DEF TakeFollowUp, SessionTypeOK
  <2>7. /\ pending_input' \subseteq Devs \cup {"tool", "prompt"}
        /\ pending_post_turn_input' \subseteq Devs
    BY <1>6 DEF TakeFollowUp, SessionTypeOK
  <2> QED BY <1>6, <2>1, <2>4, <2>5, <2>6, <2>7 DEF TakeFollowUp, SessionTypeOK, TaskRecords
<1>7. CASE CompactSucceeds(t)
  <2>1. lastExit' \in {"none", "done", "aborted", "compacted"}
    BY <1>7 DEF CompactSucceeds, EmptySlotOf, SessionTypeOK
  <2> QED BY <1>7, <1>b, <1>c, <2>1 DEF CompactSucceeds, SessionTypeOK, TaskRecords
<1>8. CASE CompactFails(t) BY <1>b, <1>8 DEF CompactFails, SessionTypeOK, TaskRecords
<1>9. CASE Killed(t)
  <2>1. start' \in [Starters -> StartRecords] BY <1>9, NoStartTyped DEF Killed, SessionTypeOK
  <2>2. lost' \subseteq Users BY <1>9 DEF Killed, SessionTypeOK
  <2> QED BY <1>b, <1>9, <2>1, <2>2 DEF Killed, SessionTypeOK, TaskRecords
<1> QED BY <1>1, <1>2, <1>3, <1>4, <1>5, <1>6, <1>7, <1>8, <1>9 DEF TaskSteps

-----------------------------------------------------------------------------
(* Who holds what.                                                          *)

\* An operation of the loop, the waker or the bridge leaves every task's stage
\* and hands alone.
LEMMA OutsidersKeepHands ==
    ASSUME SessionInv, NEW p \in Starters \ Tasks, NEW r \in StartRecords,
           r.stage \in {"queue", "hooks"} => r.input \in Users,
           r.stage = "install" => r.task \in Tasks,
           start' = [start EXCEPT ![p] = r],
           spawned' = spawned,
           \A t \in Tasks : task'[t].stage = task[t].stage
    PROVE  HandsOK'
<1>1. \A q \in Starters : start'[q] = IF q = p THEN r ELSE start[q]
  BY DEF SessionInv, SessionTypeOK
<1>2. \A t \in Tasks : start'[t] = start[t] BY <1>1, Names
<1> QED BY <1>1, <1>2 DEF SessionInv, HandsOK

LEMMA SameHands ==
    ASSUME SessionInv, start' = start, spawned' = spawned,
           \A t \in Tasks : task'[t].stage = task[t].stage
    PROVE  HandsOK'
BY DEF SessionInv, HandsOK

LEMMA LoopOpsHands ==
    ASSUME SessionInv, LoopOps
    PROVE  HandsOK'
<1> USE Names DEF AbortCurrent, SessionInv
<1>a. current \in Tasks \cup {NoTask} BY DEF SessionTypeOK
<1>b. AbortCurrent => \A t \in Tasks : task'[t].stage = task[t].stage
  BY <1>a, AbortedTyped
<1>1. CASE OpInterrupt BY <1>1, SameHands DEF OpInterrupt
<1>2. CASE OpApprovalAbort BY <1>2, <1>b, SameHands DEF OpApprovalAbort
<1>3. CASE OpShutdown
  <2> DEFINE r == Starting("ended", "pending", NoInput)
  <2>1. r \in StartRecords /\ r.stage = "ended" BY StartTyped DEF Kinds
  <2> HIDE DEF r
  <2> QED BY <1>3, <2>1, OutsidersKeepHands DEF OpShutdown, r
<1>4. ASSUME NEW u \in Users, OpUserInput(u) PROVE HandsOK'
  <2> DEFINE r == Starting("hooks", "user", u)
  <2>1. r \in StartRecords /\ r.stage = "hooks" /\ r.input = u BY StartTyped DEF Kinds
  <2> QED BY <1>4, <1>b, <2>1, OutsidersKeepHands DEF OpUserInput
<1>5. ASSUME NEW u \in Users, OpQueueUserInput(u) PROVE HandsOK'
  <2> DEFINE r == Starting(IF current # NoTask THEN "queue" ELSE "hooks", "user", u)
  <2>1. r \in StartRecords /\ r.stage \in {"queue", "hooks"} /\ r.input = u
    BY StartTyped DEF Kinds
  <2> QED BY <1>5, <2>1, OutsidersKeepHands DEF OpQueueUserInput
<1>6. CASE QueueUserInput BY <1>6, NoStartTyped, OutsidersKeepHands DEF QueueUserInput
<1>7. ASSUME NEW d \in Devs, OpAddPendingInputDeveloper(d) PROVE HandsOK'
  <2> DEFINE r == Starting("spawn", "pending", NoInput)
  <2>1. r \in StartRecords /\ r.stage = "spawn" BY StartTyped DEF Kinds
  <2>2. CASE start' = start BY <1>7, <2>2, SameHands DEF OpAddPendingInputDeveloper, EnqueueOutOfTurn
  <2>3. CASE start' = [start EXCEPT ![Loop] = r]
    BY <1>7, <2>1, <2>3, OutsidersKeepHands DEF OpAddPendingInputDeveloper, EnqueueOutOfTurn
  <2> QED BY <1>7, <2>2, <2>3 DEF OpAddPendingInputDeveloper, EnqueueOutOfTurn
<1>8. ASSUME NEW d \in Devs, OpAddPostTurnDeveloperInput(d) PROVE HandsOK'
  <2> DEFINE r == Starting("postturn", "postturn", NoInput)
  <2>1. r \in StartRecords /\ r.stage = "postturn" BY StartTyped DEF Kinds
  <2>2. CASE start' = start BY <1>8, <2>2, SameHands DEF OpAddPostTurnDeveloperInput
  <2>3. CASE start' = [start EXCEPT ![Loop] = r]
    BY <1>8, <2>1, <2>3, OutsidersKeepHands DEF OpAddPostTurnDeveloperInput
  <2> QED BY <1>8, <2>2, <2>3 DEF OpAddPostTurnDeveloperInput
<1>9. CASE OpCompact
  <2>1. PICK stage \in {"queue_compact", "spawn"} :
            start' = [start EXCEPT ![Loop] = Starting(stage, "compact", NoInput)]
    BY <1>9 DEF OpCompact
  <2> DEFINE r == Starting(stage, "compact", NoInput)
  <2>2. r \in StartRecords /\ r.stage = stage BY StartTyped DEF Kinds
  <2> QED BY <1>9, <2>1, <2>2, OutsidersKeepHands DEF OpCompact
<1>10. CASE EnqueueManualCompact
  BY <1>10, NoStartTyped, OutsidersKeepHands DEF EnqueueManualCompact
<1>11. CASE OpReview
  <2> DEFINE r == Starting("spawn", "review", NoInput)
  <2>1. r \in StartRecords /\ r.stage = "spawn" BY StartTyped DEF Kinds
  <2> QED BY <1>11, <1>b, <2>1, OutsidersKeepHands DEF OpReview
<1> QED
  BY <1>1, <1>2, <1>3, <1>4, <1>5, <1>6, <1>7, <1>8, <1>9, <1>10, <1>11 DEF LoopOps

LEMMA OutsideHands ==
    ASSUME SessionInv, Outside
    PROVE  HandsOK'
<1> USE Names DEF SessionInv
<1>1. CASE RunAbort
  <2>1. \A t \in Tasks : task'[t].stage = task[t].stage
    BY <1>1, AbortedTyped DEF RunAbort, AbortCurrent, SessionTypeOK
  <2> QED BY <1>1, <2>1, SameHands DEF RunAbort
<1>2. CASE FlushBatch
  <2> DEFINE r == Starting("checkidle", "pending", NoInput)
  <2>1. r \in StartRecords /\ r.stage = "checkidle" BY StartTyped DEF Kinds
  <2> QED BY <1>2, <2>1, OutsidersKeepHands DEF FlushBatch
<1>3. ASSUME NEW d \in Devs, AgentCompletionWake(d) PROVE HandsOK'
  <2> DEFINE r == Starting("spawn", "pending", NoInput)
  <2>1. r \in StartRecords /\ r.stage = "spawn" BY StartTyped DEF Kinds
  <2>2. CASE start' = start BY <1>3, <2>2, SameHands DEF AgentCompletionWake, EnqueueOutOfTurn
  <2>3. CASE start' = [start EXCEPT ![Waker] = r]
    BY <1>3, <2>1, <2>3, OutsidersKeepHands DEF AgentCompletionWake, EnqueueOutOfTurn
  <2> QED BY <1>3, <2>2, <2>3 DEF AgentCompletionWake, EnqueueOutOfTurn
<1> QED BY <1>1, <1>2, <1>3 DEF Outside

LEMMA StartStepsHands ==
    ASSUME SessionInv, NEW p \in Starters, StartSteps(p)
    PROVE  HandsOK'
<1> USE Names, NoStartTyped, OverTyped DEF SessionInv
<1>a. start \in [Starters -> StartRecords] /\ task \in [Tasks -> TaskRecords]
  BY DEF SessionTypeOK, TaskRecords
<1>b. start[p].stage # "none" BY DEF StartSteps, StartPostTurn, CheckIdle, HooksPass,
                                   HooksBlock, SpawnTask, SetTask
<1>c. p \in Tasks => task[p].stage = "starting" /\ p <= spawned
  BY <1>b DEF HandsOK, SessionTypeOK
<1>d. ASSUME StartOver(p), spawned' = spawned PROVE HandsOK'
  <2>1. \A q \in Starters : start'[q] = IF q = p THEN NoStart ELSE start[q]
    BY <1>a, <1>d DEF StartOver
  <2>2. \A t \in Tasks : task'[t] = IF t = p THEN Over ELSE task[t]
    BY <1>a, <1>d DEF StartOver
  <2> QED BY <1>c, <1>d, <2>1, <2>2 DEF HandsOK
<1>e. ASSUME NEW stage \in {"checkidle", "spawn"}, MoveOn(p, stage), task' = task,
             spawned' = spawned
      PROVE  HandsOK'
  <2>1. /\ \A q \in Starters : q # p => start'[q] = start[q]
        /\ start'[p].stage = stage
    BY <1>e, StageTyped DEF MoveOn
  <2> QED BY <1>c, <1>e, <2>1 DEF HandsOK
<1>1. CASE StartPostTurn(p) BY <1>1, <1>d, <1>e DEF StartPostTurn
<1>2. CASE CheckIdle(p) BY <1>2, <1>d, <1>e DEF CheckIdle
<1>3. CASE HooksPass(p) BY <1>3, <1>e DEF HooksPass
<1>4. CASE HooksBlock(p)
  <2>1. \A q \in Starters : start'[q] = IF q = p THEN NoStart ELSE start[q]
    BY <1>a, <1>4 DEF HooksBlock
  <2>2. \A t \in Tasks : t # p => task'[t] = task[t]
    BY <1>a, <1>4 DEF HooksBlock
  <2> QED BY <1>c, <1>4, <2>1, <2>2 DEF HandsOK, HooksBlock
<1>5. CASE SpawnTask(p)
  <2> DEFINE n == spawned + 1
  <2>1. n \in Tasks /\ spawned' = n /\ spawned \in Nat
    BY <1>5 DEF SpawnTask, SessionTypeOK, Tasks
  <2>2. \A q \in Starters : q # p => start'[q] = start[q]
    BY <1>a, <1>5 DEF SpawnTask
  <2>3. start'[p].stage = "install" /\ start'[p].task = n BY <1>a, <1>5 DEF SpawnTask
  <2>4. \A t \in Tasks : t # n => task'[t] = task[t] BY <1>a, <1>5 DEF SpawnTask
  <2>5. task[n].stage = "unborn" BY <2>1 DEF HandsOK
  <2>6. p # n /\ start[n].stage = "none" BY <1>b, <2>1, <2>5 DEF HandsOK
  <2>7. start'[n].stage = "none" BY <2>1, <2>2, <2>6
  <2> QED BY <1>c, <2>1, <2>2, <2>3, <2>4, <2>7 DEF HandsOK
<1>6. CASE SetTask(p)
  <2>1. \A q \in Starters : start'[q] = IF q = p THEN NoStart ELSE start[q]
    BY <1>a, <1>6 DEF SetTask
  <2>2. /\ Aborted(current) \in [Tasks -> TaskRecords]
        /\ \A t \in Tasks : Aborted(current)[t].stage = task[t].stage
    BY AbortedTyped DEF SessionTypeOK
  <2>3. \A t \in Tasks : t # p => task'[t].stage = task[t].stage
    BY <1>6, <2>2 DEF SetTask
  <2>4. spawned' = spawned BY <1>6 DEF SetTask
  <2> QED BY <1>c, <2>1, <2>3, <2>4 DEF HandsOK
<1> QED BY <1>1, <1>2, <1>3, <1>4, <1>5, <1>6 DEF StartSteps

LEMMA TaskStepsHands ==
    ASSUME SessionInv, NEW t \in Tasks, TaskSteps(t)
    PROVE  HandsOK'
<1> USE Names, OverTyped DEF SessionInv
<1>a. start \in [Starters -> StartRecords] /\ task \in [Tasks -> TaskRecords]
  BY DEF SessionTypeOK, TaskRecords
<1>b. task[t].stage # "unborn" /\ spawned' = spawned
  BY DEF TaskSteps, TopOfLoop, ModelAnswers, GoesOn, TurnEnds, RemoveTask, TakeFollowUp,
         CompactSucceeds, CompactFails, Killed, HandsOK, InTurn
<1>c. \A s \in Tasks : s # t => task'[s] = task[s]
  BY <1>a DEF TaskSteps, TopOfLoop, ModelAnswers, GoesOn, TurnEnds, RemoveTask,
              TakeFollowUp, FollowUp, CompactSucceeds, CompactFails, Killed
<1>d. t <= spawned BY <1>b DEF HandsOK, SessionTypeOK
<1>1. CASE task[t].stage \in InTurn /\ ~ Killed(t)
  <2>1. start' = start
    BY <1>1 DEF TaskSteps, TopOfLoop, ModelAnswers, GoesOn, TurnEnds, RemoveTask,
                TakeFollowUp, CompactSucceeds, CompactFails, InTurn
  <2>2. start[t].stage = "none" BY <1>1 DEF HandsOK, InTurn
  <2> QED BY <1>b, <1>c, <1>d, <2>1, <2>2 DEF HandsOK
<1>2. CASE TakeFollowUp(t)
  <2>1. start[t].stage = "none" BY <1>2 DEF HandsOK, TakeFollowUp
  <2>2. CASE start' = start BY <1>b, <1>c, <1>d, <2>1, <2>2 DEF HandsOK
  <2>3. ASSUME NEW stage \in {"checkidle", "spawn", "hooks"}, NEW kind \in Kinds,
               NEW input \in Users \cup {NoInput}, FollowUp(t, stage, kind, input),
               stage = "hooks" => input \in Users
        PROVE  HandsOK'
    <3>1. \A q \in Starters : q # t => start'[q] = start[q] BY <1>a, <2>3 DEF FollowUp
    <3>2. start'[t].stage = stage /\ start'[t].input = input
      BY <1>a, <2>3, StartTyped DEF FollowUp
    <3>3. task'[t].stage = "starting" BY <1>a, <2>3 DEF FollowUp, TaskRecords
    <3> QED BY <1>b, <1>c, <1>d, <2>3, <3>1, <3>2, <3>3 DEF HandsOK
  <2>4. pending_user_input # <<>> => Head(pending_user_input) \in Users
    BY DEF SessionTypeOK
  <2>5. CASE FollowUp(t, "checkidle", "postturn", NoInput) BY <2>3, <2>5 DEF Kinds
  <2>6. CASE FollowUp(t, "spawn", "compact", NoInput) BY <2>3, <2>6 DEF Kinds
  <2>7. CASE FollowUp(t, "checkidle", "pending", NoInput) BY <2>3, <2>7 DEF Kinds
  <2>8. CASE pending_user_input # <<>> /\ FollowUp(t, "hooks", "user", Head(pending_user_input))
    BY <2>3, <2>4, <2>8 DEF Kinds
  <2> QED BY <1>2, <2>2, <2>5, <2>6, <2>7, <2>8 DEF TakeFollowUp
<1>3. CASE Killed(t)
  <2>1. /\ \A q \in Starters : q # t => start'[q] = start[q]
        /\ start'[t].stage = "none"
    BY <1>a, <1>3, NoStartTyped DEF Killed
  <2> QED BY <1>b, <1>c, <1>d, <2>1 DEF HandsOK
<1>4. task[t].stage \in InTurn \/ TakeFollowUp(t) \/ Killed(t)
  BY DEF TaskSteps, TopOfLoop, ModelAnswers, GoesOn, TurnEnds, RemoveTask,
         CompactSucceeds, CompactFails, InTurn
<1> QED BY <1>1, <1>2, <1>3, <1>4

-----------------------------------------------------------------------------
THEOREM SessionInductive == SessionSpec => []SessionInv
<1>1. SessionInit => SessionInv
  <2> SUFFICES ASSUME SessionInit PROVE SessionInv OBVIOUS
  <2>1. SessionTypeOK
    BY NoStartTyped, Names DEF SessionInit, SessionTypeOK, Kinds, Stages
  <2>2. HandsOK BY NoStartTyped, Names DEF SessionInit, HandsOK
  <2> QED BY <2>1, <2>2 DEF SessionInv
<1>2. SessionInv /\ [SessionNext]_sessionVars => SessionInv'
  <2> SUFFICES ASSUME SessionInv, [SessionNext]_sessionVars PROVE SessionInv' OBVIOUS
  <2>1. CASE LoopOps BY <2>1, LoopOpsTyped, LoopOpsHands DEF SessionInv
  <2>2. CASE Outside BY <2>2, OutsideTyped, OutsideHands DEF SessionInv
  <2>3. ASSUME NEW p \in Starters, StartSteps(p) PROVE SessionInv'
    BY <2>3, StartStepsTyped, StartStepsHands DEF SessionInv
  <2>4. ASSUME NEW t \in Tasks, TaskSteps(t) PROVE SessionInv'
    BY <2>4, TaskStepsTyped, TaskStepsHands DEF SessionInv
  <2>5. CASE UNCHANGED sessionVars
    BY <2>5 DEF sessionVars, SessionInv, SessionTypeOK, HandsOK
  <2> QED BY <2>1, <2>2, <2>3, <2>4, <2>5 DEF SessionNext
<1> QED BY <1>1, <1>2, PTL DEF SessionSpec

\* SessionTyped: the state of the turn slot is always well formed.
THEOREM SessionTyped == SessionSpec => []SessionTypeOK
BY SessionInductive, PTL DEF SessionInv

-----------------------------------------------------------------------------
(* No turn escapes an interrupt.                                            *)

\* An operation that starts no task and puts none into the slot.
LEMMA OutsidersKeepTurns ==
    ASSUME SessionInv, NoOrphanTurn,
           \A q \in Starters : start[q].stage = "install" => start'[q] = start[q],
           \/ current' = current /\ task' = task
           \/ AbortCurrent
    PROVE  NoOrphanTurn'
<1>1. CASE current' = current /\ task' = task
  BY <1>1 DEF NoOrphanTurn
<1>2. CASE AbortCurrent
  <2>1. current \in Tasks \cup {NoTask} BY DEF SessionInv, SessionTypeOK
  <2>2. \A t \in Tasks : t # current => task'[t] = task[t]
    BY <1>2, <2>1, AbortedTyped DEF AbortCurrent, SessionInv
  <2>3. current \in Tasks => task'[current].aborted \/ task'[current].stage = "over"
    BY <1>2, <2>1, AbortedTyped DEF AbortCurrent, SessionInv
  <2> QED BY <2>2, <2>3 DEF NoOrphanTurn, InTurn
<1> QED BY <1>1, <1>2

LEMMA LoopOpsTurns ==
    ASSUME SessionInv, NoOrphanTurn, LoopOps \/ Outside
    PROVE  NoOrphanTurn'
<1> USE Names, NoStartTyped
<1>a. start \in [Starters -> StartRecords] BY DEF SessionInv, SessionTypeOK
<1>1. ASSUME NEW p \in {Loop, Waker, Bridge}, start[p].stage # "install",
             \/ start' = start
             \/ \E r : start' = [start EXCEPT ![p] = r],
             \/ current' = current /\ task' = task
             \/ AbortCurrent
      PROVE  NoOrphanTurn'
  <2>1. \A q \in Starters : start[q].stage = "install" => start'[q] = start[q]
    BY <1>a, <1>1
  <2> QED BY <1>1, <2>1, OutsidersKeepTurns
<1>2. CASE OpInterrupt BY <1>1, <1>2 DEF OpInterrupt, LoopFree
<1>3. CASE OpApprovalAbort BY <1>1, <1>3 DEF OpApprovalAbort, LoopFree
<1>4. CASE OpShutdown BY <1>1, <1>4 DEF OpShutdown, LoopFree
<1>5. ASSUME NEW u \in Users, OpUserInput(u) PROVE NoOrphanTurn'
  BY <1>1, <1>5 DEF OpUserInput, LoopFree
<1>6. ASSUME NEW u \in Users, OpQueueUserInput(u) PROVE NoOrphanTurn'
  BY <1>1, <1>6 DEF OpQueueUserInput, LoopFree
<1>7. CASE QueueUserInput BY <1>1, <1>7 DEF QueueUserInput
<1>8. ASSUME NEW p \in {Loop, Waker}, NEW d \in Devs, EnqueueOutOfTurn(p, d)
      PROVE  NoOrphanTurn'
  BY <1>1, <1>8 DEF EnqueueOutOfTurn
<1>9. ASSUME NEW d \in Devs, OpAddPostTurnDeveloperInput(d) PROVE NoOrphanTurn'
  BY <1>1, <1>9 DEF OpAddPostTurnDeveloperInput, LoopFree
<1>10. CASE OpCompact BY <1>1, <1>10 DEF OpCompact, LoopFree
<1>11. CASE EnqueueManualCompact BY <1>1, <1>11 DEF EnqueueManualCompact
<1>12. CASE OpReview BY <1>1, <1>12 DEF OpReview, LoopFree
<1>13. CASE RunAbort BY <1>13, OutsidersKeepTurns DEF RunAbort
<1>14. CASE FlushBatch BY <1>1, <1>14 DEF FlushBatch
<1> QED
  BY <1>2, <1>3, <1>4, <1>5, <1>6, <1>7, <1>8, <1>9, <1>10, <1>11, <1>12, <1>13, <1>14
     DEF LoopOps, Outside, OpAddPendingInputDeveloper, AgentCompletionWake

LEMMA StartStepsTurns ==
    ASSUME SessionInv, NoOrphanTurn, NEW p \in Starters, StartSteps(p)
    PROVE  NoOrphanTurn'
<1> USE Names, NoStartTyped, OverTyped
<1>a. start \in [Starters -> StartRecords] /\ task \in [Tasks -> TaskRecords]
  BY DEF SessionInv, SessionTypeOK, TaskRecords
<1>b. ASSUME start[p].stage # "install", current' = current,
             \A q \in Starters : q # p => start'[q] = start[q],
             \A t \in Tasks : task'[t] = task[t] \/ task'[t].stage \notin InTurn
      PROVE  NoOrphanTurn'
  BY <1>b DEF NoOrphanTurn
<1>c. ASSUME StartOver(p)
      PROVE  /\ \A q \in Starters : q # p => start'[q] = start[q]
             /\ \A t \in Tasks : task'[t] = task[t] \/ task'[t].stage \notin InTurn
  BY <1>a, <1>c DEF StartOver, InTurn
<1>d. ASSUME NEW stage, MoveOn(p, stage)
      PROVE  \A q \in Starters : q # p => start'[q] = start[q]
  BY <1>a, <1>d DEF MoveOn
<1>1. CASE StartPostTurn(p) BY <1>1, <1>b, <1>c, <1>d DEF StartPostTurn
<1>2. CASE CheckIdle(p) BY <1>2, <1>b, <1>c, <1>d DEF CheckIdle
<1>3. CASE HooksPass(p) BY <1>3, <1>b, <1>d DEF HooksPass
<1>4. CASE HooksBlock(p)
  <2>1. \A q \in Starters : q # p => start'[q] = start[q] BY <1>4, <1>a DEF HooksBlock
  <2>2. \A t \in Tasks : task'[t] = task[t] \/ task'[t].stage \notin InTurn
    BY <1>4, <1>a DEF HooksBlock, InTurn, TaskRecords
  <2> QED BY <1>4, <1>b, <2>1, <2>2 DEF HooksBlock
<1>5. CASE SpawnTask(p)
  <2> DEFINE n == spawned + 1
  <2>1. \A q \in Starters : q # p => start'[q] = start[q] BY <1>5, <1>a DEF SpawnTask
  <2>2. start'[p].stage = "install" /\ start'[p].task = n BY <1>5, <1>a DEF SpawnTask
  <2>3. \A t \in Tasks : t # n => task'[t] = task[t] BY <1>5, <1>a DEF SpawnTask
  <2>4. start[p].stage # "install" /\ current' = current BY <1>5 DEF SpawnTask
  <2> QED BY <2>1, <2>2, <2>3, <2>4 DEF NoOrphanTurn
<1>6. CASE SetTask(p)
  <2>1. \A q \in Starters : q # p => start'[q] = start[q] BY <1>6, <1>a DEF SetTask
  <2>2. current \in Tasks \cup {NoTask} BY DEF SessionInv, SessionTypeOK
  <2>3. /\ Aborted(current) \in [Tasks -> TaskRecords]
        /\ \A t \in Tasks : t # current => Aborted(current)[t] = task[t]
        /\ current \in Tasks => \/ Aborted(current)[current].aborted
                               \/ Aborted(current)[current].stage = "over"
    BY <2>2, AbortedTyped DEF SessionInv
  <2>4. \A t \in Tasks : \/ task'[t] = Aborted(current)[t]
                         \/ task'[t].stage = "over"
    BY <1>6, <2>3 DEF SetTask
  <2>5. \A t \in Tasks : task'[t].stage \in InTurn /\ ~ task'[t].aborted =>
            t # current /\ task'[t] = task[t]
    BY <2>2, <2>3, <2>4 DEF InTurn
  <2>6. current' = start[p].task BY <1>6 DEF SetTask
  <2> QED BY <2>1, <2>5, <2>6 DEF NoOrphanTurn
<1> QED BY <1>1, <1>2, <1>3, <1>4, <1>5, <1>6 DEF StartSteps

LEMMA TaskStepsTurns ==
    ASSUME SessionInv, NoOrphanTurn, NEW t \in Tasks, TaskSteps(t)
    PROVE  NoOrphanTurn'
<1> USE Names, OverTyped
<1>a. start \in [Starters -> StartRecords] /\ task \in [Tasks -> TaskRecords]
  BY DEF SessionInv, SessionTypeOK, TaskRecords
<1>b. \A s \in Tasks : s # t => task'[s] = task[s]
  BY <1>a DEF TaskSteps, TopOfLoop, ModelAnswers, GoesOn, TurnEnds, RemoveTask,
              TakeFollowUp, FollowUp, CompactSucceeds, CompactFails, Killed
<1>c. \A q \in Starters : start[q].stage = "install" => start'[q] = start[q]
  <2>1. start' = start \/ TakeFollowUp(t) \/ Killed(t)
    BY DEF TaskSteps, TopOfLoop, ModelAnswers, GoesOn, TurnEnds, RemoveTask,
           CompactSucceeds, CompactFails
  <2>2. CASE TakeFollowUp(t)
    <3>1. start[t].stage = "none" BY <2>2 DEF TakeFollowUp, SessionInv, HandsOK
    <3>2. \A q \in Starters : q # t => start'[q] = start[q]
      BY <1>a, <2>2 DEF TakeFollowUp, FollowUp
    <3> QED BY <3>1, <3>2
  <2>3. CASE Killed(t)
    <3>1. start[t].stage # "install" BY <2>3 DEF Killed, SessionInv, HandsOK, InTurn
    <3>2. \A q \in Starters : q # t => start'[q] = start[q] BY <1>a, <2>3 DEF Killed
    <3> QED BY <3>1, <3>2
  <2> QED BY <2>1, <2>2, <2>3
<1>d. \/ current' = current
      \/ current = t /\ current' = NoTask /\ task'[t].stage \notin InTurn
  BY <1>a DEF TaskSteps, TopOfLoop, ModelAnswers, GoesOn, TurnEnds, RemoveTask, EmptySlotOf,
              TakeFollowUp, FollowUp, CompactSucceeds, CompactFails, Killed, InTurn, TaskRecords
<1>e. task'[t].stage \in InTurn =>
          task[t].stage \in InTurn /\ task'[t].aborted = task[t].aborted
  BY <1>a DEF TaskSteps, TopOfLoop, ModelAnswers, GoesOn, TurnEnds, RemoveTask,
              TakeFollowUp, FollowUp, CompactSucceeds, CompactFails, Killed, InTurn, TaskRecords
<1> QED BY <1>b, <1>c, <1>d, <1>e DEF NoOrphanTurn

\* NoTurnEscapes: whatever the interleaving of operations, wakes, follow-ups
\* and aborts, a turn that talks to the model and has not been told to stop is
\* in the slot or about to be put there.
THEOREM NoTurnEscapes == SessionSpec => []NoOrphanTurn
<1>1. SessionInit => NoOrphanTurn
  BY DEF SessionInit, NoOrphanTurn, InTurn
<1>2. SessionInv /\ NoOrphanTurn /\ [SessionNext]_sessionVars => NoOrphanTurn'
  <2> SUFFICES ASSUME SessionInv, NoOrphanTurn, [SessionNext]_sessionVars
               PROVE  NoOrphanTurn' OBVIOUS
  <2>1. CASE LoopOps \/ Outside BY <2>1, LoopOpsTurns
  <2>2. ASSUME NEW p \in Starters, StartSteps(p) PROVE NoOrphanTurn'
    BY <2>2, StartStepsTurns
  <2>3. ASSUME NEW t \in Tasks, TaskSteps(t) PROVE NoOrphanTurn' BY <2>3, TaskStepsTurns
  <2>4. CASE UNCHANGED sessionVars BY <2>4 DEF sessionVars, NoOrphanTurn
  <2> QED BY <2>1, <2>2, <2>3, <2>4 DEF SessionNext
<1> QED BY <1>1, <1>2, SessionInductive, PTL DEF SessionSpec

-----------------------------------------------------------------------------
(* An idle session has no message left over.                                *)

\* Someone looks for work, or is on the way to a turn.
Follower == \E t \in Tasks : task[t].stage = "follow"
Owner == \E p \in Starters : start[p].stage \in {"checkidle", "spawn", "install"}
PostOwner == \E p \in Starters : start[p].stage = "postturn"

\* While the slot is empty, and neither an abort nor a compaction emptied it,
\* every message has someone who will give it to a turn.
Served ==
    current = NoTask /\ lastExit \in {"none", "done"} =>
        /\ ~ (pending_input \subseteq {"tool"}) => Follower \/ Owner
        /\ pending_post_turn_input # {} => Follower \/ Owner \/ PostOwner

\* No message is added, and nobody who would give one to a turn steps back.
LEMMA OthersStillServe ==
    ASSUME Served,
           current' = NoTask => current = NoTask \/ lastExit' \notin {"none", "done"},
           current = NoTask => lastExit' = lastExit,
           pending_input' \subseteq pending_input \cup {"tool"},
           pending_post_turn_input' \subseteq pending_post_turn_input,
           \A t \in Tasks : task[t].stage = "follow" => task'[t].stage = "follow",
           \A p \in Starters : start[p].stage \in {"checkidle", "spawn", "install", "postturn"}
                                  => start'[p].stage = start[p].stage
    PROVE  Served'
BY DEF Served, Follower, Owner, PostOwner

LEMMA LoopOpsServe ==
    ASSUME SessionInv, Served, LoopOps \/ Outside
    PROVE  Served'
<1> USE Names, NoStartTyped
<1>a. start \in [Starters -> StartRecords] /\ current \in Tasks \cup {NoTask}
  BY DEF SessionInv, SessionTypeOK
<1>b. AbortCurrent => /\ current' = NoTask
                      /\ current # NoTask => lastExit' = "aborted"
                      /\ current = NoTask => lastExit' = lastExit
                      /\ \A t \in Tasks : task'[t].stage = task[t].stage
  BY <1>a, AbortedTyped DEF AbortCurrent, SessionInv
<1>1. ASSUME NEW p \in {Loop, Waker, Bridge},
             start[p].stage \in {"none", "queue", "queue_compact"},
             \/ start' = start
             \/ \E r : start' = [start EXCEPT ![p] = r],
             \/ current' = current /\ task' = task /\ lastExit' = lastExit
             \/ AbortCurrent,
             pending_input' = pending_input,
             pending_post_turn_input' = pending_post_turn_input
      PROVE  Served'
  <2>1. \A q \in Starters :
            start[q].stage \in {"checkidle", "spawn", "install", "postturn"}
                => start'[q].stage = start[q].stage
    BY <1>a, <1>1
  <2> QED BY <1>1, <1>b, <2>1, OthersStillServe
<1>2. CASE OpInterrupt BY <1>1, <1>2 DEF OpInterrupt, LoopFree, queues
<1>3. CASE OpApprovalAbort BY <1>1, <1>3 DEF OpApprovalAbort, LoopFree, queues
<1>4. CASE OpShutdown BY <1>1, <1>4 DEF OpShutdown, LoopFree, queues
<1>5. ASSUME NEW u \in Users, OpUserInput(u) PROVE Served'
  BY <1>1, <1>5 DEF OpUserInput, LoopFree, queues
<1>6. ASSUME NEW u \in Users, OpQueueUserInput(u) PROVE Served'
  BY <1>1, <1>6 DEF OpQueueUserInput, LoopFree, queues
<1>7. CASE QueueUserInput BY <1>1, <1>7 DEF QueueUserInput
<1>8. ASSUME NEW p \in {Loop, Waker}, NEW d \in Devs, EnqueueOutOfTurn(p, d)
      PROVE  Served'
  <2>1. CASE current # NoTask
    BY <1>8, <2>1 DEF EnqueueOutOfTurn, Served
  <2>2. CASE current = NoTask
    <3>1. start'[p].stage = "spawn"
      BY <1>8, <1>a, <2>2, StartTyped DEF EnqueueOutOfTurn, Kinds
    <3>2. Owner' BY <3>1 DEF Owner
    <3> QED BY <3>2 DEF Served
  <2> QED BY <2>1, <2>2
<1>9. ASSUME NEW d \in Devs, OpAddPostTurnDeveloperInput(d) PROVE Served'
  <2>1. CASE current # NoTask
    BY <1>9, <2>1 DEF OpAddPostTurnDeveloperInput, Served
  <2>2. CASE current = NoTask
    <3>1. start'[Loop].stage = "postturn"
      BY <1>9, <1>a, <2>2, StartTyped DEF OpAddPostTurnDeveloperInput, Kinds
    <3>2. PostOwner' BY <3>1 DEF PostOwner
    <3>3. \A q \in Starters : start[q].stage # "none" => start'[q] = start[q]
      BY <1>9, <1>a DEF OpAddPostTurnDeveloperInput, LoopFree
    <3>4. Follower' = Follower BY <1>9 DEF OpAddPostTurnDeveloperInput, Follower
    <3>5. Owner => Owner' BY <3>3 DEF Owner
    <3> QED BY <1>9, <2>2, <3>2, <3>4, <3>5 DEF OpAddPostTurnDeveloperInput, Served
  <2> QED BY <2>1, <2>2
<1>10. CASE OpCompact
  <2>1. CASE current # NoTask BY <1>10, <2>1 DEF OpCompact, Served
  <2>2. CASE current = NoTask BY <1>1, <1>10, <2>2 DEF OpCompact, LoopFree
  <2> QED BY <2>1, <2>2
<1>11. CASE EnqueueManualCompact BY <1>1, <1>11 DEF EnqueueManualCompact
<1>12. CASE OpReview BY <1>1, <1>12 DEF OpReview, LoopFree, queues
<1>13. CASE RunAbort BY <1>13, <1>b, OthersStillServe DEF RunAbort, queues
<1>14. CASE FlushBatch BY <1>1, <1>14 DEF FlushBatch, queues
<1> QED
  BY <1>2, <1>3, <1>4, <1>5, <1>6, <1>7, <1>8, <1>9, <1>10, <1>11, <1>12, <1>13, <1>14
     DEF LoopOps, Outside, OpAddPendingInputDeveloper, AgentCompletionWake

LEMMA StartStepsServe ==
    ASSUME SessionInv, Served, NEW p \in Starters, StartSteps(p)
    PROVE  Served'
<1> USE Names, NoStartTyped, OverTyped
<1>a. start \in [Starters -> StartRecords] /\ task \in [Tasks -> TaskRecords]
  BY DEF SessionInv, SessionTypeOK, TaskRecords
<1>b. start[p].stage # "none" BY DEF StartSteps, StartPostTurn, CheckIdle, HooksPass,
                                   HooksBlock, SpawnTask, SetTask
<1>c. p \in Tasks => task[p].stage = "starting"
  BY <1>b DEF SessionInv, HandsOK
<1>d. ASSUME NEW stage \in {"checkidle", "spawn"}, MoveOn(p, stage) PROVE Owner'
  <2>1. start'[p].stage = stage BY <1>d, StageTyped DEF MoveOn, SessionInv
  <2> QED BY <2>1 DEF Owner
<1>1. CASE StartPostTurn(p)
  <2>1. CASE current # NoTask BY <1>1, <2>1 DEF StartPostTurn, Served
  <2>2. CASE current = NoTask /\ pending_post_turn_input = {}
    <3>1. /\ \A q \in Starters : q # p => start'[q] = start[q]
          /\ \A t \in Tasks : t # p => task'[t] = task[t]
      BY <1>1, <1>a, <2>2 DEF StartPostTurn, StartOver
    <3>2. Follower => Follower' BY <1>c, <3>1 DEF Follower
    <3>3. Owner => Owner' BY <1>1, <3>1 DEF Owner, StartPostTurn
    <3> QED BY <1>1, <2>2, <3>2, <3>3 DEF StartPostTurn, Served
  <2>3. CASE current = NoTask /\ pending_post_turn_input # {}
    BY <1>1, <1>d, <2>3 DEF StartPostTurn, Served
  <2> QED BY <2>1, <2>2, <2>3
<1>2. CASE CheckIdle(p)
  <2>1. CASE current # NoTask BY <1>2, <2>1 DEF CheckIdle, Served
  <2>2. CASE current = NoTask BY <1>2, <1>d, <2>2 DEF CheckIdle, Served
  <2> QED BY <2>1, <2>2
<1>3. CASE HooksPass(p) BY <1>3, <1>d DEF HooksPass, Served
<1>4. CASE HooksBlock(p)
  <2>1. \A q \in Starters : q # p => start'[q] = start[q] BY <1>4, <1>a DEF HooksBlock
  <2>2. \A t \in Tasks : t # p => task'[t] = task[t] BY <1>4, <1>a DEF HooksBlock
  <2>3. start[p].stage = "hooks" BY <1>4 DEF HooksBlock
  <2> QED BY <1>4, <1>c, <2>1, <2>2, <2>3, OthersStillServe DEF HooksBlock, queues
<1>5. CASE SpawnTask(p)
  <2>1. start'[p].stage = "install" BY <1>5, <1>a DEF SpawnTask
  <2>2. Owner' BY <2>1 DEF Owner
  <2> QED BY <2>2 DEF Served
<1>6. CASE SetTask(p)
  <2>1. current' # NoTask BY <1>6 DEF SetTask, SessionInv, HandsOK
  <2> QED BY <2>1 DEF Served
<1> QED BY <1>1, <1>2, <1>3, <1>4, <1>5, <1>6 DEF StartSteps

LEMMA TaskStepsServe ==
    ASSUME SessionInv, Served, NEW t \in Tasks, TaskSteps(t)
    PROVE  Served'
<1> USE Names, OverTyped
<1>a. start \in [Starters -> StartRecords] /\ task \in [Tasks -> TaskRecords]
  BY DEF SessionInv, SessionTypeOK, TaskRecords
<1>b. \A s \in Tasks : s # t => task'[s] = task[s]
  BY <1>a DEF TaskSteps, TopOfLoop, ModelAnswers, GoesOn, TurnEnds, RemoveTask,
              TakeFollowUp, FollowUp, CompactSucceeds, CompactFails, Killed
<1>1. CASE TopOfLoop(t) \/ ModelAnswers(t) \/ GoesOn(t) \/ TurnEnds(t) \/ CompactFails(t)
  <2>1. /\ start' = start /\ current' = current /\ lastExit' = lastExit
        /\ pending_post_turn_input' = pending_post_turn_input
        /\ task[t].stage # "follow"
    BY <1>1 DEF TopOfLoop, ModelAnswers, GoesOn, TurnEnds, CompactFails, queues
  <2>2. pending_input' \subseteq pending_input \cup {"tool"}
    BY <1>1 DEF TopOfLoop, ModelAnswers, GoesOn, TurnEnds, CompactFails, queues
  <2> QED BY <1>b, <2>1, <2>2, OthersStillServe
<1>2. CASE RemoveTask(t)
  <2>1. task'[t].stage = "follow" BY <1>2, <1>a DEF RemoveTask, TaskRecords
  <2>2. Follower' BY <2>1 DEF Follower
  <2> QED BY <2>2 DEF Served
<1>3. CASE TakeFollowUp(t)
  <2>1. ASSUME NEW stage \in {"checkidle", "spawn"}, NEW kind \in Kinds,
               FollowUp(t, stage, kind, NoInput)
        PROVE  Owner'
    <3>1. start'[t].stage = stage BY <1>a, <2>1, StartTyped DEF FollowUp
    <3> QED BY <3>1 DEF Owner
  <2>2. Owner' \/ (pending_input' = {} /\ pending_post_turn_input' = {})
    BY <1>3, <2>1 DEF TakeFollowUp, Kinds, queues
  <2> QED BY <2>2 DEF Served
<1>4. CASE CompactSucceeds(t)
  <2>1. current' = NoTask => current = NoTask \/ lastExit' = "compacted"
    BY <1>4 DEF CompactSucceeds, EmptySlotOf
  <2>2. current = NoTask => lastExit' = lastExit BY <1>4 DEF CompactSucceeds, EmptySlotOf
  <2> QED BY <1>4, <1>b, <2>1, <2>2, OthersStillServe DEF CompactSucceeds, queues
<1>5. CASE Killed(t)
  <2>1. /\ start[t].stage \notin {"checkidle", "spawn", "install", "postturn"}
        /\ task[t].stage # "follow"
    BY <1>5 DEF Killed, SessionInv, HandsOK, InTurn
  <2>2. \A q \in Starters : q # t => start'[q] = start[q] BY <1>5, <1>a DEF Killed
  <2> QED BY <1>5, <1>b, <2>1, <2>2, OthersStillServe DEF Killed, queues
<1> QED BY <1>1, <1>2, <1>3, <1>4, <1>5 DEF TaskSteps

\* IdleIsServed: a session that falls idle by itself has given every developer
\* message and compact prompt to a turn.
THEOREM IdleIsServed == SessionSpec => []IdleServed
<1>1. SessionInit => Served BY DEF SessionInit, Served
<1>2. SessionInv /\ Served /\ [SessionNext]_sessionVars => Served'
  <2> SUFFICES ASSUME SessionInv, Served, [SessionNext]_sessionVars
               PROVE  Served' OBVIOUS
  <2>1. CASE LoopOps \/ Outside BY <2>1, LoopOpsServe
  <2>2. ASSUME NEW p \in Starters, StartSteps(p) PROVE Served' BY <2>2, StartStepsServe
  <2>3. ASSUME NEW t \in Tasks, TaskSteps(t) PROVE Served' BY <2>3, TaskStepsServe
  <2>4. CASE UNCHANGED sessionVars
    BY <2>4 DEF sessionVars, Served, Follower, Owner, PostOwner
  <2> QED BY <2>1, <2>2, <2>3, <2>4 DEF SessionNext
<1>3. Served => IdleServed
  BY DEF Served, IdleServed, Idle, Follower, Owner, PostOwner
<1> QED BY <1>1, <1>2, <1>3, SessionInductive, PTL DEF SessionSpec

-----------------------------------------------------------------------------
(* A user input is in one place.                                            *)

QueuedAt(u) == {i \in DOMAIN pending_user_input : pending_user_input[i] = u}
HeldBy(u) == {p \in Starters : start[p].input = u}

Nowhere(u) == QueuedAt(u) = {} /\ HeldBy(u) = {} /\ given[u] = {} /\ u \notin blocked /\ u \notin lost

InOnePlace(u) ==
    \/ /\ \E i : QueuedAt(u) = {i}
       /\ HeldBy(u) = {} /\ given[u] = {} /\ u \notin blocked /\ u \notin lost
    \/ /\ \E p : HeldBy(u) = {p}
       /\ QueuedAt(u) = {} /\ given[u] = {} /\ u \notin blocked /\ u \notin lost
    \/ /\ \E t : given[u] = {t}
       /\ QueuedAt(u) = {} /\ HeldBy(u) = {} /\ u \notin blocked /\ u \notin lost
    \/ QueuedAt(u) = {} /\ HeldBy(u) = {} /\ given[u] = {} /\ u \in blocked /\ u \notin lost
    \/ QueuedAt(u) = {} /\ HeldBy(u) = {} /\ given[u] = {} /\ u \notin blocked /\ u \in lost

\* Only who is about to queue or start a user's turn holds an input.
EmptyHands ==
    \A p \in Starters :
        start[p].stage \in {"none", "ended", "queue_compact", "postturn", "checkidle", "install"}
            => start[p].input = NoInput

Accounted ==
    /\ EmptyHands
    /\ \A u \in Users : IF u \in sent THEN InOnePlace(u) ELSE Nowhere(u)

LEMMA OnePlace ==
    ASSUME Accounted
    PROVE  \A u \in Users \cap sent : \E place \in Places(u) : Places(u) = {place}
<1> SUFFICES ASSUME NEW u \in Users \cap sent
             PROVE  \E place \in Places(u) : Places(u) = {place}
  OBVIOUS
<1>1. Places(u) = {<<"queue", i>> : i \in QueuedAt(u)} \cup {<<"hand", p>> : p \in HeldBy(u)}
                    \cup {<<"turn", t>> : t \in given[u]}
                    \cup {<<"hook", h>> : h \in {v \in blocked : v = u}}
                    \cup {<<"lost", h>> : h \in {v \in lost : v = u}}
  BY DEF Places, QueuedAt, HeldBy
<1>2. InOnePlace(u) BY DEF Accounted
<1>3. ASSUME NEW i, QueuedAt(u) = {i}, HeldBy(u) = {}, given[u] = {}, u \notin blocked, u \notin lost
      PROVE  Places(u) = {<<"queue", i>>}
  BY <1>1, <1>3
<1>4. ASSUME NEW p, HeldBy(u) = {p}, QueuedAt(u) = {}, given[u] = {}, u \notin blocked, u \notin lost
      PROVE  Places(u) = {<<"hand", p>>}
  BY <1>1, <1>4
<1>5. ASSUME NEW t, given[u] = {t}, QueuedAt(u) = {}, HeldBy(u) = {}, u \notin blocked, u \notin lost
      PROVE  Places(u) = {<<"turn", t>>}
  BY <1>1, <1>5
<1>7. ASSUME QueuedAt(u) = {}, HeldBy(u) = {}, given[u] = {}, u \notin blocked, u \in lost
      PROVE  Places(u) = {<<"lost", u>>}
  BY <1>1, <1>7
<1>6. ASSUME QueuedAt(u) = {}, HeldBy(u) = {}, given[u] = {}, u \in blocked, u \notin lost
      PROVE  Places(u) = {<<"hook", u>>}
  BY <1>1, <1>6
<1> QED BY <1>2, <1>3, <1>4, <1>5, <1>6, <1>7 DEF InOnePlace

\* A step that moves no input.
LEMMA SameAccount ==
    ASSUME Accounted, EmptyHands',
           \A p \in Starters : start'[p].input = start[p].input,
           pending_user_input' = pending_user_input, given' = given, blocked' = blocked, lost' = lost,
           sent' \cap Users = sent \cap Users
    PROVE  Accounted'
<1> SUFFICES ASSUME NEW u \in Users
             PROVE  IF u \in sent' THEN InOnePlace(u)' ELSE Nowhere(u)'
  BY DEF Accounted
<1>1. QueuedAt(u)' = QueuedAt(u) BY DEF QueuedAt
<1>2. HeldBy(u)' = HeldBy(u) BY DEF HeldBy
<1>3. u \in sent' <=> u \in sent OBVIOUS
<1> QED BY <1>1, <1>2, <1>3 DEF Accounted, InOnePlace, Nowhere

\* A step that moves one input from one place to another.
LEMMA OneMoves ==
    ASSUME Accounted, EmptyHands', NEW u \in Users,
           IF u \in sent' THEN InOnePlace(u)' ELSE Nowhere(u)',
           \A v \in Users : v # u =>
               /\ QueuedAt(v)' = QueuedAt(v) \/ \E i : QueuedAt(v) = {i} /\ \E j : QueuedAt(v)' = {j}
               /\ HeldBy(v)' = HeldBy(v)
               /\ given'[v] = given[v]
               /\ v \in blocked' <=> v \in blocked
               /\ v \in lost' <=> v \in lost
               /\ v \in sent' <=> v \in sent
    PROVE  Accounted'
<1> SUFFICES ASSUME NEW v \in Users, v # u
             PROVE  IF v \in sent' THEN InOnePlace(v)' ELSE Nowhere(v)'
  BY DEF Accounted
<1>1. /\ QueuedAt(v)' = QueuedAt(v) \/ \E i : QueuedAt(v) = {i} /\ \E j : QueuedAt(v)' = {j}
      /\ HeldBy(v)' = HeldBy(v)
      /\ given'[v] = given[v]
      /\ v \in blocked' <=> v \in blocked
      /\ v \in lost' <=> v \in lost
      /\ v \in sent' <=> v \in sent
  OBVIOUS
<1>2. IF v \in sent THEN InOnePlace(v) ELSE Nowhere(v) BY DEF Accounted
<1>3. CASE QueuedAt(v)' = QueuedAt(v)
  BY ONLY <1>1, <1>2, <1>3 DEF InOnePlace, Nowhere
<1>4. CASE \E i : QueuedAt(v) = {i} /\ \E j : QueuedAt(v)' = {j}
  <2>1. v \in sent BY <1>2, <1>4 DEF Nowhere
  <2>2. HeldBy(v) = {} /\ given[v] = {} /\ v \notin blocked /\ v \notin lost
    BY ONLY <1>2, <1>4, <2>1 DEF InOnePlace
  <2>3. InOnePlace(v)' BY ONLY <1>1, <1>4, <2>2 DEF InOnePlace
  <2> QED BY <1>1, <2>1, <2>3
<1> QED BY <1>1, <1>3, <1>4

LEMMA OutsidersAccount ==
    ASSUME SessionInv, Accounted, NEW p \in {Loop, Waker, Bridge}, start[p].input = NoInput,
           \/ start' = start
           \/ \E r : start' = [start EXCEPT ![p] = r] /\ r.input = NoInput,
           \A t \in Tasks : task'[t].stage = task[t].stage,
           pending_user_input' = pending_user_input, given' = given, blocked' = blocked, lost' = lost,
           sent' \cap Users = sent \cap Users
    PROVE  Accounted'
<1>1. /\ \A q \in Starters : q # p => start'[q] = start[q]
      /\ start'[p].input = NoInput
  BY Names DEF SessionInv, SessionTypeOK
<1>2. EmptyHands' BY <1>1, Names DEF Accounted, EmptyHands
<1>3. \A q \in Starters : start'[q].input = start[q].input BY <1>1
<1> QED BY <1>2, <1>3, SameAccount

\* A user input arrives: the loop holds it.
LEMMA LoopTakesInput ==
    ASSUME SessionInv, Accounted, NEW u \in Users, u \notin sent, NEW r,
           start[Loop] = NoStart,
           start' = [start EXCEPT ![Loop] = r],
           r.input = u, r.stage \in {"hooks", "queue"},
           \A t \in Tasks : task'[t].stage = task[t].stage,
           pending_user_input' = pending_user_input, given' = given, blocked' = blocked, lost' = lost,
           sent' = sent \cup {u}
    PROVE  Accounted'
<1>1. /\ \A q \in Starters : q # Loop => start'[q] = start[q]
      /\ start'[Loop] = r
      /\ start[Loop].input = NoInput
  BY Names DEF SessionInv, SessionTypeOK, NoStart
<1>2. EmptyHands' BY <1>1, Names DEF Accounted, EmptyHands
<1>3. \A v \in Users : QueuedAt(v)' = QueuedAt(v) BY DEF QueuedAt
<1>4. \A v \in Users : v # u => HeldBy(v)' = HeldBy(v) BY <1>1, Names DEF HeldBy
<1>5. Nowhere(u) BY DEF Accounted
<1>6. HeldBy(u)' = {Loop} BY <1>1, <1>5, Names DEF HeldBy, Nowhere
<1>7. InOnePlace(u)' BY <1>3, <1>5, <1>6 DEF InOnePlace, Nowhere
<1>8. IF u \in sent' THEN InOnePlace(u)' ELSE Nowhere(u)' BY <1>7
<1>9. \A v \in Users : v # u => (v \in sent' <=> v \in sent) OBVIOUS
<1> QED BY <1>2, <1>3, <1>4, <1>8, <1>9, OneMoves

LEMMA LoopOpsAccount ==
    ASSUME SessionInv, Accounted, LoopOps \/ Outside
    PROVE  Accounted'
<1> USE Names, NoStartTyped
<1>a. current \in Tasks \cup {NoTask} BY DEF SessionInv, SessionTypeOK
<1>b. AbortCurrent => \A t \in Tasks : task'[t].stage = task[t].stage
  BY <1>a, AbortedTyped DEF AbortCurrent, SessionInv
<1>c. \A stage, kind : Starting(stage, kind, NoInput).input = NoInput BY DEF Starting
<1>d. NoStart.input = NoInput BY DEF NoStart
<1>e. \A d \in Devs : (sent \cup {d}) \cap Users = sent \cap Users OBVIOUS
<1>2. CASE OpInterrupt
  BY <1>2, <1>d, OutsidersAccount DEF OpInterrupt, LoopFree, queues, ghosts
<1>3. CASE OpApprovalAbort
  BY <1>3, <1>b, <1>d, OutsidersAccount DEF OpApprovalAbort, LoopFree, queues, ghosts
<1>4. CASE OpShutdown
  BY <1>4, <1>c, <1>d, OutsidersAccount DEF OpShutdown, LoopFree, queues, ghosts
<1>5. ASSUME NEW u \in Users, OpUserInput(u) PROVE Accounted'
  <2> DEFINE r == Starting("hooks", "user", u)
  <2>1. r.input = u /\ r.stage = "hooks" BY DEF Starting
  <2> HIDE DEF r
  <2> QED BY <1>5, <1>b, <2>1, LoopTakesInput DEF OpUserInput, LoopFree, queues, ghosts, r
<1>6. ASSUME NEW u \in Users, OpQueueUserInput(u) PROVE Accounted'
  <2> DEFINE r == Starting(IF current # NoTask THEN "queue" ELSE "hooks", "user", u)
  <2>1. r.input = u /\ r.stage \in {"hooks", "queue"} BY DEF Starting
  <2>2. start' = [start EXCEPT ![Loop] = r] BY <1>6 DEF OpQueueUserInput
  <2> HIDE DEF r
  <2> QED BY <1>6, <2>1, <2>2, LoopTakesInput DEF OpQueueUserInput, LoopFree, queues, ghosts
<1>7. CASE QueueUserInput
  <2> PICK u \in Users : start[Loop].input = u
    BY <1>7 DEF QueueUserInput, SessionInv, HandsOK
  <2> PICK n : n = Len(pending_user_input) + 1 OBVIOUS
  <2>0. /\ start \in [Starters -> StartRecords]
        /\ pending_user_input \in Seq(Users) /\ NoInput \notin Users
    BY DEF SessionInv, SessionTypeOK
  <2>1. /\ \A q \in Starters : q # Loop => start'[q] = start[q]
        /\ start'[Loop] = NoStart
        /\ pending_user_input' = Append(pending_user_input, u)
        /\ given' = given /\ blocked' = blocked /\ lost' = lost /\ sent' = sent /\ task' = task
    BY <1>7, <2>0 DEF QueueUserInput, ghosts
  <2>2. EmptyHands' BY <2>1, <1>d DEF Accounted, EmptyHands
  <2>3. Loop \in HeldBy(u) BY DEF HeldBy
  <2>4. /\ HeldBy(u) = {Loop} /\ QueuedAt(u) = {} /\ given[u] = {} /\ u \notin blocked /\ u \notin lost
        /\ u \in sent
    BY <2>0, <2>3 DEF Accounted, InOnePlace, Nowhere
  <2>5. HeldBy(u)' = {} BY <2>0, <2>1, <2>4, <1>d DEF HeldBy
  <2>6. \A v \in Users : v # u => HeldBy(v)' = HeldBy(v)
    BY <2>0, <2>1, <1>d DEF HeldBy
  <2>7. /\ DOMAIN pending_user_input' = DOMAIN pending_user_input \cup {n}
        /\ n \notin DOMAIN pending_user_input
        /\ \A i \in DOMAIN pending_user_input : pending_user_input'[i] = pending_user_input[i]
        /\ pending_user_input'[n] = u
    BY <2>0, <2>1
  <2>8. QueuedAt(u)' = {n} BY <2>4, <2>7 DEF QueuedAt
  <2>9. \A v \in Users : v # u => QueuedAt(v)' = QueuedAt(v) BY <2>7 DEF QueuedAt
  <2>10. InOnePlace(u)' BY <2>1, <2>4, <2>5, <2>8 DEF InOnePlace
  <2>11. IF u \in sent' THEN InOnePlace(u)' ELSE Nowhere(u)' BY <2>1, <2>4, <2>10
  <2> QED BY <2>1, <2>2, <2>6, <2>9, <2>11, OneMoves
<1>8. ASSUME NEW p \in {Loop, Waker}, NEW d \in Devs, EnqueueOutOfTurn(p, d)
      PROVE  Accounted'
  BY <1>8, <1>c, <1>d, <1>e, OutsidersAccount DEF EnqueueOutOfTurn, ghosts
<1>9. ASSUME NEW d \in Devs, OpAddPostTurnDeveloperInput(d) PROVE Accounted'
  BY <1>9, <1>c, <1>d, <1>e, OutsidersAccount DEF OpAddPostTurnDeveloperInput, LoopFree, ghosts
<1>10. CASE OpCompact
  BY <1>10, <1>c, <1>d, OutsidersAccount DEF OpCompact, LoopFree, ghosts
<1>11. CASE EnqueueManualCompact
  <2>1. start[Loop].input = NoInput
    BY <1>11 DEF EnqueueManualCompact, Accounted, EmptyHands
  <2> QED BY <1>11, <1>d, <2>1, OutsidersAccount DEF EnqueueManualCompact, ghosts
<1>12. CASE OpReview
  BY <1>12, <1>b, <1>c, <1>d, OutsidersAccount DEF OpReview, LoopFree, queues, ghosts
<1>13. CASE RunAbort
  <2>1. EmptyHands' BY <1>13, <1>b DEF RunAbort, Accounted, EmptyHands
  <2> QED BY <1>13, <2>1, SameAccount DEF RunAbort, queues, ghosts
<1>14. CASE FlushBatch
  BY <1>14, <1>c, <1>d, OutsidersAccount DEF FlushBatch, queues, ghosts
<1> QED
  BY <1>2, <1>3, <1>4, <1>5, <1>6, <1>7, <1>8, <1>9, <1>10, <1>11, <1>12, <1>13, <1>14
     DEF LoopOps, Outside, OpAddPendingInputDeveloper, AgentCompletionWake

LEMMA StartStepsAccount ==
    ASSUME SessionInv, Accounted, NEW p \in Starters, StartSteps(p)
    PROVE  Accounted'
<1> USE Names, NoStartTyped, OverTyped DEF SessionInv
<1>a. start \in [Starters -> StartRecords] /\ task \in [Tasks -> TaskRecords]
  BY DEF SessionTypeOK, TaskRecords
<1>b. NoStart.input = NoInput BY DEF NoStart
<1>d. ASSUME StartOver(p), start[p].input = NoInput,
             pending_user_input' = pending_user_input, sent' = sent,
             given' = given, blocked' = blocked, lost' = lost
      PROVE  Accounted'
  <2>1. \A q \in Starters : start'[q] = IF q = p THEN NoStart ELSE start[q]
    BY <1>a, <1>d DEF StartOver
  <2>2. \A t \in Tasks : task'[t] = IF t = p THEN Over ELSE task[t]
    BY <1>a, <1>d DEF StartOver
  <2>3. EmptyHands' BY <1>b, <2>1, <2>2 DEF Accounted, EmptyHands
  <2> QED BY <1>b, <1>d, <2>1, <2>3, SameAccount
<1>e. ASSUME NEW stage \in {"checkidle", "spawn"}, MoveOn(p, stage), task' = task,
             stage = "checkidle" => start[p].input = NoInput,
             pending_user_input' = pending_user_input, sent' = sent,
             given' = given, blocked' = blocked, lost' = lost
      PROVE  Accounted'
  <2>1. /\ \A q \in Starters : q # p => start'[q] = start[q]
        /\ start'[p].stage = stage /\ start'[p].input = start[p].input
    BY <1>a, <1>e DEF MoveOn, StartRecords
  <2>2. EmptyHands' BY <1>e, <2>1 DEF Accounted, EmptyHands
  <2> QED BY <1>e, <2>1, <2>2, SameAccount
<1>1. CASE StartPostTurn(p)
  <2>1. start[p].input = NoInput BY <1>1 DEF StartPostTurn, Accounted, EmptyHands
  <2> QED BY <1>1, <1>d, <1>e, <2>1 DEF StartPostTurn, ghosts
<1>2. CASE CheckIdle(p)
  <2>1. start[p].input = NoInput BY <1>2 DEF CheckIdle, Accounted, EmptyHands
  <2> QED BY <1>2, <1>d, <1>e, <2>1 DEF CheckIdle, ghosts, queues
<1>3. CASE HooksPass(p) BY <1>3, <1>e DEF HooksPass, ghosts, queues
<1>4. CASE HooksBlock(p)
  <2> PICK u \in Users : start[p].input = u BY <1>4 DEF HooksBlock, HandsOK
  <2>1. /\ \A q \in Starters : q # p => start'[q] = start[q]
        /\ start'[p] = NoStart
        /\ blocked' = blocked \cup {u} /\ lost' = lost
        /\ given' = given /\ sent' = sent /\ pending_user_input' = pending_user_input
    BY <1>a, <1>4 DEF HooksBlock, queues
  <2>2. \A t \in Tasks : t # p => task'[t] = task[t] BY <1>a, <1>4 DEF HooksBlock
  <2>3. EmptyHands' BY <1>b, <2>1, <2>2 DEF Accounted, EmptyHands
  <2>4. p \in HeldBy(u) BY DEF HeldBy
  <2>5. /\ HeldBy(u) = {p} /\ QueuedAt(u) = {} /\ given[u] = {} /\ u \notin blocked /\ u \notin lost
        /\ u \in sent
    BY <2>4 DEF Accounted, InOnePlace, Nowhere
  <2>6. HeldBy(u)' = {} BY <1>b, <2>1, <2>5 DEF HeldBy
  <2>7. \A v \in Users : v # u => HeldBy(v)' = HeldBy(v) BY <1>b, <2>1 DEF HeldBy
  <2>8. \A v \in Users : QueuedAt(v)' = QueuedAt(v) BY <2>1 DEF QueuedAt
  <2>9. InOnePlace(u)' BY <2>1, <2>5, <2>6, <2>8 DEF InOnePlace
  <2>10. IF u \in sent' THEN InOnePlace(u)' ELSE Nowhere(u)' BY <2>1, <2>5, <2>9
  <2> QED BY <2>1, <2>3, <2>7, <2>8, <2>10, OneMoves
<1>5. CASE SpawnTask(p)
  <2> PICK n : n = spawned + 1 OBVIOUS
  <2>1. n \in Tasks /\ n > spawned BY <1>5 DEF SpawnTask, SessionTypeOK, Tasks
  <2>2. /\ \A q \in Starters : q # p => start'[q] = start[q]
        /\ start'[p].stage = "install" /\ start'[p].input = NoInput
    BY <1>a, <1>5 DEF SpawnTask
  <2>3. \A t \in Tasks : t # n => task'[t] = task[t] BY <1>a, <1>5 DEF SpawnTask
  <2>4. task[n].stage = "unborn" /\ start[n].stage = "none" BY <2>1 DEF HandsOK
  <2>5. EmptyHands' BY <2>2, <2>3, <2>4 DEF Accounted, EmptyHands
  <2>6. /\ blocked' = blocked /\ lost' = lost /\ sent' = sent
        /\ pending_user_input' = pending_user_input
    BY <1>5 DEF SpawnTask, queues
  <2>7. CASE start[p].input = NoInput
    <3>1. given' = given BY <1>5, <2>7 DEF SpawnTask
    <3> QED BY <2>2, <2>5, <2>6, <2>7, <3>1, SameAccount
  <2>8. ASSUME NEW u \in Users, start[p].input = u PROVE Accounted'
    <3>1. given' = [given EXCEPT ![u] = @ \cup {n}] BY <1>5, <2>8 DEF SpawnTask
    <3>2. given \in [Users -> SUBSET Tasks] BY DEF SessionTypeOK
    <3>3. given'[u] = given[u] \cup {n} /\ \A v \in Users : v # u => given'[v] = given[v]
      BY <3>1, <3>2
    <3>4. p \in HeldBy(u) BY <2>8 DEF HeldBy
    <3>5. HeldBy(u) = {p} /\ QueuedAt(u) = {} /\ given[u] = {} /\ u \notin blocked /\ u \notin lost /\ u \in sent
      BY <3>4 DEF Accounted, InOnePlace, Nowhere
    <3>a. \A q \in Starters : q # p => start[q].input # u BY <3>5 DEF HeldBy
    <3>b. NoInput # u OBVIOUS
    <3>6. HeldBy(u)' = {} BY <2>2, <3>a, <3>b DEF HeldBy
    <3>7. \A v \in Users : v # u => HeldBy(v)' = HeldBy(v) BY <2>2, <2>8 DEF HeldBy
    <3>8. \A v \in Users : QueuedAt(v)' = QueuedAt(v) BY <2>6 DEF QueuedAt
    <3>9. InOnePlace(u)' BY <2>6, <3>3, <3>5, <3>6, <3>8 DEF InOnePlace
    <3>10. IF u \in sent' THEN InOnePlace(u)' ELSE Nowhere(u)' BY <2>6, <3>5, <3>9
    <3> QED BY <2>5, <2>6, <3>3, <3>7, <3>8, <3>10, OneMoves
  <2> QED BY <1>a, <2>7, <2>8 DEF StartRecords
<1>6. CASE SetTask(p)
  <2>1. start[p].input = NoInput BY <1>6 DEF SetTask, Accounted, EmptyHands
  <2>2. \A q \in Starters : start'[q] = IF q = p THEN NoStart ELSE start[q]
    BY <1>a, <1>6 DEF SetTask
  <2>3. /\ Aborted(current) \in [Tasks -> TaskRecords]
        /\ \A t \in Tasks : Aborted(current)[t].stage = task[t].stage
    BY AbortedTyped DEF SessionTypeOK
  <2>4. \A t \in Tasks : t # p => task'[t].stage = task[t].stage BY <1>6, <2>3 DEF SetTask
  <2>5. EmptyHands' BY <1>b, <2>2, <2>4 DEF Accounted, EmptyHands
  <2>6. /\ pending_user_input' = pending_user_input /\ sent' = sent
        /\ given' = given /\ blocked' = blocked /\ lost' = lost
    BY <1>6 DEF SetTask, queues, ghosts
  <2> QED BY <1>b, <2>1, <2>2, <2>5, <2>6, SameAccount
<1> QED BY <1>1, <1>2, <1>3, <1>4, <1>5, <1>6 DEF StartSteps

LEMMA TaskStepsAccount ==
    ASSUME SessionInv, Accounted, NEW t \in Tasks, TaskSteps(t)
    PROVE  Accounted'
<1> USE Names, OverTyped DEF SessionInv
<1>a. start \in [Starters -> StartRecords] /\ task \in [Tasks -> TaskRecords]
  BY DEF SessionTypeOK, TaskRecords
<1>b. \A s \in Tasks : s # t => task'[s] = task[s]
  BY <1>a DEF TaskSteps, TopOfLoop, ModelAnswers, GoesOn, TurnEnds, RemoveTask,
              TakeFollowUp, FollowUp, CompactSucceeds, CompactFails, Killed
<1>c. pending_user_input \in Seq(Users) BY DEF SessionTypeOK
<1>d. sent' = sent /\ blocked' = blocked /\ (Killed(t) \/ lost' = lost)
  BY DEF TaskSteps, TopOfLoop, ModelAnswers, GoesOn, TurnEnds, RemoveTask,
         TakeFollowUp, CompactSucceeds, CompactFails, Killed, ghosts
<1>e. start' = start => EmptyHands' BY DEF Accounted, EmptyHands
<1>1. CASE ModelAnswers(t) \/ GoesOn(t) \/ TurnEnds(t) \/ RemoveTask(t) \/ CompactSucceeds(t)
           \/ CompactFails(t)
  <2>1. /\ start' = start /\ given' = given /\ lost' = lost
        /\ pending_user_input' = pending_user_input
    BY <1>1 DEF ModelAnswers, GoesOn, TurnEnds, RemoveTask, CompactSucceeds, CompactFails,
                queues, ghosts
  <2> QED BY <1>d, <1>e, <2>1, SameAccount
<1>2. CASE Killed(t)
  <2>1. /\ \A q \in Starters : q # t => start'[q] = start[q]
        /\ start'[t] = NoStart
        /\ given' = given /\ pending_user_input' = pending_user_input
        /\ lost' = lost \cup ({start[t].input} \cap Users)
    BY <1>a, <1>2 DEF Killed, queues
  <2>2. NoStart.input = NoInput BY DEF NoStart
  <2>3. EmptyHands' BY <2>1, <2>2 DEF Accounted, EmptyHands
  <2>4. CASE start[t].stage # "hooks"
    <3>1. start[t].stage = "none" BY <1>2, <2>4 DEF Killed, HandsOK, InTurn
    <3>2. start[t].input = NoInput BY <3>1 DEF Accounted, EmptyHands
    <3>3. lost' = lost BY <2>1, <3>2
    <3> QED BY <1>d, <2>1, <2>2, <2>3, <3>2, <3>3, SameAccount
  <2>5. CASE start[t].stage = "hooks"
    <3> PICK u \in Users : start[t].input = u BY <2>5 DEF HandsOK
    <3>1. t \in HeldBy(u) BY DEF HeldBy
    <3>2. /\ HeldBy(u) = {t} /\ QueuedAt(u) = {} /\ given[u] = {}
          /\ u \notin blocked /\ u \notin lost /\ u \in sent
      BY <3>1 DEF Accounted, InOnePlace, Nowhere
    <3>a. \A q \in Starters : q # t => start[q].input # u BY <3>2 DEF HeldBy
    <3>b. NoInput # u OBVIOUS
    <3>3. HeldBy(u)' = {} BY <2>1, <2>2, <3>a, <3>b DEF HeldBy
    <3>4. \A v \in Users : v # u => HeldBy(v)' = HeldBy(v) BY <2>1, <2>2 DEF HeldBy
    <3>5. \A v \in Users : QueuedAt(v)' = QueuedAt(v) BY <2>1 DEF QueuedAt
    <3>6. lost' = lost \cup {u} BY <2>1
    <3>7. InOnePlace(u)' BY <1>d, <2>1, <3>2, <3>3, <3>5, <3>6 DEF InOnePlace
    <3>8. IF u \in sent' THEN InOnePlace(u)' ELSE Nowhere(u)' BY <1>d, <3>2, <3>7
    <3>9. \A v \in Users : v # u => (v \in lost' <=> v \in lost) BY <3>6
    <3> QED BY <1>d, <2>1, <2>3, <3>4, <3>5, <3>8, <3>9, OneMoves
  <2> QED BY <2>4, <2>5
<1>3. CASE TopOfLoop(t)
  <2>1. start' = start /\ lost' = lost BY <1>3 DEF TopOfLoop
  <2>3. EmptyHands' BY <1>e, <2>1
  <2>4. CASE ~ Drains(t)
    <3>1. given' = given /\ pending_user_input' = pending_user_input
      BY <1>3, <2>4 DEF TopOfLoop, DrainUserInput
    <3> QED BY <1>d, <2>1, <2>3, <3>1, SameAccount
  <2>5. CASE Drains(t)
    <3>1. given' = Gets(t) /\ pending_user_input' = <<>>
      BY <1>3, <2>5 DEF TopOfLoop, DrainUserInput
    <3> SUFFICES ASSUME NEW u \in Users
                 PROVE  IF u \in sent' THEN InOnePlace(u)' ELSE Nowhere(u)'
      BY <2>3 DEF Accounted
    <3>2. HeldBy(u)' = HeldBy(u) BY <2>1 DEF HeldBy
    <3>3. QueuedAt(u)' = {} BY <3>1 DEF QueuedAt
    <3>4. u \in UsersQueued <=> QueuedAt(u) # {} BY DEF UsersQueued, QueuedAt
    <3>5. given'[u] = IF QueuedAt(u) # {} THEN given[u] \cup {t} ELSE given[u]
      BY <3>1, <3>4 DEF Gets
    <3>6. IF u \in sent THEN InOnePlace(u) ELSE Nowhere(u) BY DEF Accounted
    <3>7. CASE QueuedAt(u) = {}
      <4>1. given'[u] = given[u] BY <3>5, <3>7
      <4> QED BY ONLY <1>d, <2>1, <3>2, <3>3, <3>6, <3>7, <4>1 DEF InOnePlace, Nowhere
    <3>8. CASE QueuedAt(u) # {}
      <4>1. u \in sent BY <3>6, <3>8 DEF Nowhere
      <4>2. HeldBy(u) = {} /\ given[u] = {} /\ u \notin blocked /\ u \notin lost
        BY ONLY <3>6, <3>8, <4>1 DEF InOnePlace
      <4>3. given'[u] = {t} BY <3>5, <3>8, <4>2
      <4>4. InOnePlace(u)' BY ONLY <1>d, <2>1, <3>2, <3>3, <4>2, <4>3 DEF InOnePlace
      <4> QED BY <1>d, <4>1, <4>4
    <3> QED BY <3>7, <3>8
  <2> QED BY <2>4, <2>5
<1>4. CASE TakeFollowUp(t)
  <2>1. task[t].stage = "follow" /\ given' = given /\ lost' = lost
    BY <1>4 DEF TakeFollowUp, ghosts
  <2>2. start[t].stage = "none" BY <2>1 DEF HandsOK
  <2>3. start[t].input = NoInput BY <2>2 DEF Accounted, EmptyHands
  <2>4. ASSUME start' = start, pending_user_input' = pending_user_input PROVE Accounted'
    BY <1>d, <1>e, <2>1, <2>4, SameAccount
  <2>5. ASSUME NEW stage \in {"checkidle", "spawn"}, NEW kind \in Kinds,
               FollowUp(t, stage, kind, NoInput), pending_user_input' = pending_user_input
        PROVE  Accounted'
    <3>1. /\ \A q \in Starters : q # t => start'[q] = start[q]
          /\ start'[t].stage = stage /\ start'[t].input = NoInput
      BY <1>a, <2>5, StartTyped DEF FollowUp
    <3>2. EmptyHands' BY <1>b, <3>1 DEF Accounted, EmptyHands
    <3> QED BY <1>d, <2>1, <2>3, <2>5, <3>1, <3>2, SameAccount
  <2>6. ASSUME pending_user_input # <<>>, pending_user_input' = Tail(pending_user_input),
               FollowUp(t, "hooks", "user", Head(pending_user_input))
        PROVE  Accounted'
    <3> PICK u \in Users : u = Head(pending_user_input) BY <1>c, <2>6
    <3>1. /\ \A q \in Starters : q # t => start'[q] = start[q]
          /\ start'[t].stage = "hooks" /\ start'[t].input = u
      BY <1>a, <2>6, StartTyped DEF FollowUp, Kinds
    <3>2. EmptyHands' BY <1>b, <3>1 DEF Accounted, EmptyHands
    <3>3. 1 \in DOMAIN pending_user_input /\ pending_user_input[1] = u BY <1>c, <2>6
    <3>4. 1 \in QueuedAt(u) BY <3>3 DEF QueuedAt
    <3>5. QueuedAt(u) = {1} /\ HeldBy(u) = {} /\ given[u] = {} /\ u \notin blocked /\ u \notin lost /\ u \in sent
      BY <3>4 DEF Accounted, InOnePlace, Nowhere
    <3>6. HeldBy(u)' = {t} BY <3>1, <3>5 DEF HeldBy
    <3>7. \A v \in Users : v # u => HeldBy(v)' = HeldBy(v) BY <2>3, <3>1 DEF HeldBy
    <3>8. \A j \in DOMAIN pending_user_input' :
            j \in Nat /\ j + 1 \in DOMAIN pending_user_input /\ j + 1 # 1
            /\ pending_user_input'[j] = pending_user_input[j + 1]
      BY <1>c, <2>6
    <3>9. \A i \in DOMAIN pending_user_input :
            i # 1 => i \in Nat /\ i - 1 \in DOMAIN pending_user_input'
                     /\ pending_user_input'[i - 1] = pending_user_input[i]
      BY <1>c, <2>6
    <3>10. QueuedAt(u)' = {} BY <3>5, <3>8 DEF QueuedAt
    <3>11. ASSUME NEW v \in Users, v # u
           PROVE  \/ QueuedAt(v)' = QueuedAt(v)
                  \/ \E i : QueuedAt(v) = {i} /\ \E j : QueuedAt(v)' = {j}
      <4>1. \A j : j \in QueuedAt(v)' => j \in Nat /\ j + 1 \in QueuedAt(v)
        BY <3>8 DEF QueuedAt
      <4>2. \A i \in QueuedAt(v) : i \in Nat /\ i - 1 \in QueuedAt(v)'
        BY <3>3, <3>9, <3>11 DEF QueuedAt
      <4>3. QueuedAt(v) = {} \/ \E i : QueuedAt(v) = {i}
        BY DEF Accounted, InOnePlace, Nowhere
      <4>4. CASE QueuedAt(v) = {} BY <4>1, <4>4
      <4>5. ASSUME NEW i, QueuedAt(v) = {i} PROVE QueuedAt(v)' = {i - 1}
        <5>1. i \in Nat /\ i - 1 \in QueuedAt(v)' BY <4>2, <4>5
        <5>2. \A j : j \in QueuedAt(v)' => j = i - 1 BY <4>1, <4>5, <5>1
        <5> QED BY <5>1, <5>2
      <4> QED BY <4>3, <4>4, <4>5
    <3>12. InOnePlace(u)' BY <1>d, <2>1, <3>5, <3>6, <3>10 DEF InOnePlace
    <3>13. IF u \in sent' THEN InOnePlace(u)' ELSE Nowhere(u)' BY <1>d, <3>5, <3>12
    <3> QED BY <1>d, <2>1, <3>2, <3>7, <3>11, <3>13, OneMoves
  <2> QED BY <1>4, <2>4, <2>5, <2>6 DEF TakeFollowUp, Kinds, queues
<1> QED BY <1>1, <1>2, <1>3, <1>4 DEF TaskSteps

\* What a task may lose was queued before: it waits, it waited, or it is lost.
Waits ==
    /\ UsersQueued \subseteq waited
    /\ \A t \in Tasks : start[t].input \in Users => start[t].input \in waited
    /\ lost \subseteq waited

LEMMA OutsidersWait ==
    ASSUME SessionInv, Waits, LoopOps \/ Outside
    PROVE  Waits'
<1> USE Names DEF SessionInv
<1>a. start \in [Starters -> StartRecords] BY DEF SessionTypeOK
<1>1. \A t \in Tasks : start'[t] = start[t]
  BY <1>a DEF LoopOps, Outside, OpInterrupt, OpApprovalAbort, OpShutdown, OpUserInput,
     OpQueueUserInput, QueueUserInput, OpAddPendingInputDeveloper, AgentCompletionWake,
     EnqueueOutOfTurn, OpAddPostTurnDeveloperInput, OpCompact, EnqueueManualCompact, OpReview,
     RunAbort, FlushBatch
<1>2. CASE QueueUserInput
  <2>1. /\ pending_user_input' = Append(pending_user_input, start[Loop].input)
        /\ waited' = waited \cup {start[Loop].input} /\ lost' = lost
    BY <1>2 DEF QueueUserInput
  <2>2. start[Loop].input \in Users /\ pending_user_input \in Seq(Users)
    BY <1>2 DEF QueueUserInput, HandsOK, SessionTypeOK
  <2>3. \A i \in DOMAIN pending_user_input' :
            \/ pending_user_input'[i] = start[Loop].input
            \/ i \in DOMAIN pending_user_input /\ pending_user_input'[i] = pending_user_input[i]
    BY <2>1, <2>2
  <2>4. UsersQueued' \subseteq waited' BY <2>1, <2>3 DEF Waits, UsersQueued
  <2> QED BY <1>1, <2>1, <2>4 DEF Waits
<1>3. CASE ~ QueueUserInput
  <2>1. pending_user_input' = pending_user_input /\ waited' = waited /\ lost' = lost
    BY <1>3 DEF LoopOps, Outside, OpInterrupt, OpApprovalAbort, OpShutdown, OpUserInput,
       OpQueueUserInput, OpAddPendingInputDeveloper, AgentCompletionWake,
       EnqueueOutOfTurn, OpAddPostTurnDeveloperInput, OpCompact, EnqueueManualCompact, OpReview,
       RunAbort, FlushBatch, queues, ghosts
  <2> QED BY <1>1, <2>1 DEF Waits, UsersQueued
<1> QED BY <1>2, <1>3

LEMMA StartStepsWait ==
    ASSUME SessionInv, Waits, NEW p \in Starters, StartSteps(p)
    PROVE  Waits'
<1> USE Names DEF SessionInv
<1>a. start \in [Starters -> StartRecords] BY DEF SessionTypeOK
<1>1. pending_user_input' = pending_user_input /\ waited' = waited /\ lost' = lost
  BY DEF StartSteps, StartPostTurn, CheckIdle, HooksPass, HooksBlock, SpawnTask, SetTask,
         queues, ghosts
<1>2. \A q \in Starters : start'[q].input = start[q].input \/ start'[q].input = NoInput
  BY <1>a DEF StartSteps, StartPostTurn, CheckIdle, HooksPass, HooksBlock, SpawnTask, SetTask,
              StartOver, MoveOn, NoStart, StartRecords
<1> QED BY <1>1, <1>2 DEF Waits, UsersQueued

LEMMA TaskStepsWait ==
    ASSUME SessionInv, Waits, NEW t \in Tasks, TaskSteps(t)
    PROVE  Waits'
<1> USE Names DEF SessionInv
<1>a. start \in [Starters -> StartRecords] /\ pending_user_input \in Seq(Users)
  BY DEF SessionTypeOK
<1>b. waited' = waited
  BY DEF TaskSteps, TopOfLoop, ModelAnswers, GoesOn, TurnEnds, RemoveTask,
         TakeFollowUp, CompactSucceeds, CompactFails, Killed, ghosts
<1>1. CASE Killed(t)
  <2>1. /\ \A q \in Starters : start'[q] = IF q = t THEN NoStart ELSE start[q]
        /\ pending_user_input' = pending_user_input
        /\ lost' = lost \cup ({start[t].input} \cap Users)
    BY <1>a, <1>1 DEF Killed, queues
  <2>2. NoStart.input = NoInput BY DEF NoStart
  <2> QED BY <1>b, <2>1, <2>2 DEF Waits, UsersQueued
<1>2. CASE TakeFollowUp(t)
  <2>1. lost' = lost BY <1>2 DEF TakeFollowUp, ghosts
  <2>2. /\ UsersQueued' \subseteq UsersQueued
        /\ pending_user_input # <<>> => Head(pending_user_input) \in UsersQueued
    <3>1. \/ pending_user_input' = pending_user_input
          \/ pending_user_input # <<>> /\ pending_user_input' = Tail(pending_user_input)
      BY <1>2 DEF TakeFollowUp, queues
    <3>2. pending_user_input # <<>> =>
            /\ 1 \in DOMAIN pending_user_input /\ Head(pending_user_input) = pending_user_input[1]
            /\ \A j \in DOMAIN Tail(pending_user_input) :
                  j + 1 \in DOMAIN pending_user_input
                  /\ Tail(pending_user_input)[j] = pending_user_input[j + 1]
      BY <1>a
    <3> QED BY <3>1, <3>2 DEF UsersQueued
  <2>3. \A q \in Starters : \/ start'[q].input = start[q].input
                           \/ start'[q].input = NoInput
                           \/ /\ pending_user_input # <<>>
                              /\ start'[q].input = Head(pending_user_input)
    BY <1>a, <1>2 DEF TakeFollowUp, FollowUp, Starting
  <2> QED BY <1>b, <2>1, <2>2, <2>3 DEF Waits
<1>3. CASE TopOfLoop(t)
  <2>1. start' = start /\ lost' = lost BY <1>3 DEF TopOfLoop
  <2>2. pending_user_input' = pending_user_input \/ pending_user_input' = <<>>
    BY <1>3 DEF TopOfLoop, DrainUserInput
  <2>3. UsersQueued' \subseteq UsersQueued BY <2>2 DEF UsersQueued
  <2> QED BY <1>b, <2>1, <2>3 DEF Waits
<1>4. CASE ModelAnswers(t) \/ GoesOn(t) \/ TurnEnds(t) \/ RemoveTask(t) \/ CompactSucceeds(t)
           \/ CompactFails(t)
  <2>1. start' = start /\ lost' = lost /\ pending_user_input' = pending_user_input
    BY <1>4 DEF ModelAnswers, GoesOn, TurnEnds, RemoveTask, CompactSucceeds, CompactFails,
                queues, ghosts
  <2> QED BY <1>b, <2>1 DEF Waits, UsersQueued
<1> QED BY <1>1, <1>2, <1>3, <1>4 DEF TaskSteps

\* UserInputAccounted: every user input that reached the session is queued, in the
\* hands of who starts its turn, given to one ordinary turn, refused by a hook, or was
\* dropped with an aborted task, and only an input that waited in the queue can be
\* dropped.
THEOREM UserInputAccounted == SessionSpec => []InputAccounted
<1>1. SessionInit => Accounted /\ Waits
  <2> SUFFICES ASSUME SessionInit PROVE Accounted /\ Waits OBVIOUS
  <2>1. \A p \in Starters : start[p].input = NoInput BY DEF SessionInit, NoStart
  <2>2. \A u \in Users : QueuedAt(u) = {} BY DEF SessionInit, QueuedAt
  <2>3. \A u \in Users : HeldBy(u) = {} BY <2>1 DEF HeldBy
  <2>4. \A u \in Users : Nowhere(u) BY <2>2, <2>3 DEF SessionInit, Nowhere
  <2>5. EmptyHands BY <2>1 DEF EmptyHands
  <2>6. sent = {} BY DEF SessionInit
  <2>7. Waits BY <2>1, Names DEF SessionInit, Waits, UsersQueued
  <2> QED BY <2>4, <2>5, <2>6, <2>7 DEF Accounted
<1>2. SessionInv /\ Accounted /\ Waits /\ [SessionNext]_sessionVars => Accounted' /\ Waits'
  <2> SUFFICES ASSUME SessionInv, Accounted, Waits, [SessionNext]_sessionVars
               PROVE  Accounted' /\ Waits' OBVIOUS
  <2>1. CASE LoopOps \/ Outside BY <2>1, LoopOpsAccount, OutsidersWait
  <2>2. ASSUME NEW p \in Starters, StartSteps(p) PROVE Accounted' /\ Waits'
    BY <2>2, StartStepsAccount, StartStepsWait
  <2>3. ASSUME NEW t \in Tasks, TaskSteps(t) PROVE Accounted' /\ Waits'
    BY <2>3, TaskStepsAccount, TaskStepsWait
  <2>4. CASE UNCHANGED sessionVars
    <3>1. EmptyHands' BY <2>4 DEF sessionVars, Accounted, EmptyHands
    <3>2. Waits' BY <2>4 DEF sessionVars, Waits, UsersQueued
    <3> QED BY <2>4, <3>1, <3>2, SameAccount DEF sessionVars
  <2> QED BY <2>1, <2>2, <2>3, <2>4 DEF SessionNext
<1>3. Accounted /\ Waits => InputAccounted BY OnePlace DEF InputAccounted, Waits
<1> QED BY <1>1, <1>2, <1>3, SessionInductive, PTL DEF SessionSpec
=============================================================================
