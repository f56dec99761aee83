------------------------- MODULE CoordinatorClient -------------------------
(***************************************************************************)
(* The coordinator thread with the most general client its handle allows:  *)
(* snapshots and user prompts at any time, acks late or repeated, Stop,    *)
(* cancel and dropping the handle at any point.  The clients in the TUI    *)
(* and in exec are special cases.                                          *)
(***************************************************************************)
EXTENDS AutoCoordinator

VARIABLES
    next_snapshot,  \* the number of the next conversation the client sends
    received,       \* decisions the client has taken from the event channel
    owed,           \* those it has not acknowledged yet
    dups            \* acknowledgements it has repeated

clientVars == <<next_snapshot, received, owed, dups>>
vars == <<threadVars, cmds, cancelled, closed, clientVars>>

\* The loop's variables and both channels keep their types, the queue never outgrows its
\* cap, and the failure counter stays within the recovery limit.
TypeOK ==
    /\ pc \in {"top", "request", "recv", "exited"}
    /\ pending_conversation \in Snapshots \union {None}
    /\ pending_ack_seq \in Nat \union {None}
    /\ queued_updates \in Seq(Snapshots)
    /\ Len(queued_updates) <= QueueCap
    /\ decision_seq \in Nat
    /\ consecutive_decision_failures \in 0 .. MaxRecovery
    /\ coordinator_turns_seen \in Nat
    /\ working \in Snapshots \union {None}
    /\ cmds \in Seq(Commands)
    /\ events \in Seq(Events)
    /\ cancelled \in BOOLEAN
    /\ closed \in BOOLEAN
    /\ attempts \in Nat
    /\ continues \in Nat
    /\ done \subseteq Snapshots
    /\ dropped \subseteq Snapshots
    /\ accepted \subseteq Snapshots
    /\ unacked \subseteq Nat
    /\ next_snapshot \in Nat \ {0}
    /\ received \subseteq Nat
    /\ owed \subseteq received
    /\ dups \in 0 .. MaxDupAcks

Init ==
    /\ CoordInit
    /\ next_snapshot = 2
    /\ received = {}
    /\ owed = {}
    /\ dups = 0

ClientSend(cmd) ==
    /\ ~closed
    /\ cmds' = Append(cmds, cmd)
    /\ UNCHANGED <<threadVars, cancelled, closed>>

SendConversation ==
    /\ next_snapshot <= MaxSnapshots
    /\ next_snapshot' = next_snapshot + 1
    /\ ClientSend(UpdateConversation(next_snapshot)) \/ ClientSend(HandleUserPrompt(next_snapshot))
    /\ UNCHANGED <<received, owed, dups>>

SendAck(s) ==
    /\ s \in owed
    /\ owed' = owed \ {s}
    /\ ClientSend(AckDecision(s))
    /\ UNCHANGED <<next_snapshot, received, dups>>

RepeatAck(s) ==
    /\ s \in received \ owed
    /\ dups < MaxDupAcks
    /\ dups' = dups + 1
    /\ ClientSend(AckDecision(s))
    /\ UNCHANGED <<next_snapshot, received, owed>>

SendStop ==
    /\ Cardinality({i \in 1 .. Len(cmds) : cmds[i] = Stop}) < MaxStops
    /\ ClientSend(Stop)
    /\ UNCHANGED clientVars

Cancel ==
    /\ ~cancelled
    /\ cancelled' = TRUE
    /\ UNCHANGED <<threadVars, cmds, closed, clientVars>>

DropHandle ==
    /\ ~closed
    /\ closed' = TRUE
    /\ UNCHANGED <<threadVars, cmds, cancelled, clientVars>>

TakeEvent ==
    /\ events # <<>>
    /\ events' = Tail(events)
    /\ LET e == Head(events)
           new == IF e.kind = "Decision" THEN {e.seq} ELSE {}
       IN  received' = received \union new /\ owed' = owed \union new
    /\ UNCHANGED <<pc, loopVars, histVars, cmds, cancelled, closed, next_snapshot, dups>>

ClientNext ==
    \/ SendConversation \/ SendStop \/ Cancel \/ DropHandle \/ TakeEvent
    \/ \E s \in received : SendAck(s) \/ RepeatAck(s)

ThreadStep == CoordNext /\ UNCHANGED clientVars

Next == ThreadStep \/ ClientNext

Spec == Init /\ [][Next]_vars

\* The thread runs, requests end (retry_with_backoff bounds them), and the client
\* handles its events and acknowledges every decision, as both clients do first
\* thing.
FairSpec ==
    /\ Spec
    /\ WF_vars(ThreadStep)
    /\ WF_vars(TakeEvent)
    /\ WF_vars(\E s \in owed : SendAck(s))

-----------------------------------------------------------------------------
(* Properties *)

\* A decision is requested only when the previous one has been acknowledged: the
\* user-prompt path, which ignores the ack, must not overtake it.
OneDecisionAtATime ==
    /\ \A a, b \in unacked : a = b
    /\ pc = "request" => unacked = {}

\* Snapshots are decided on in the order they were sent, whatever mix of acks,
\* retries, user prompts and queue overflow happens; a decision never goes back to
\* an older conversation.
DecidesInOrder == [][working # None => working' >= working]_vars

Queued == {queued_updates[i] : i \in 1 .. Len(queued_updates)}

\* No snapshot vanishes: while the loop runs, everything taken from the channel is
\* pending, queued, was decided on, or was evicted from the full queue.
NothingVanishes ==
    pc # "exited" =>
        accepted \subseteq done \union dropped \union {pending_conversation} \union Queued

\* A queued snapshot never waits for anything but an ack: when none is due, a pending
\* conversation goes first and the loop does not sleep.  So nothing is stranded in the
\* queue, and two branches of run_auto_loop are dead code: the pop at the top of the
\* loop and the test of pending_conversation when an update arrives.
QueueWaitsForAck ==
    /\ pc \in {"top", "recv"} /\ queued_updates # <<>> =>
           pending_ack_seq # None \/ pending_conversation # None
    /\ pc = "recv" => pending_conversation = None

\* Invalid answers cannot keep the coordinator busy for ever: between two commands
\* it makes one request and at most MaxRecovery repetitions.
BoundedRetries == attempts <= MaxRecovery + 1

\* With a cap of n at most n - 1 Continue decisions follow the seed.
TurnCapRespected == TurnCap > 0 => continues < TurnCap

InChannel(kind) == {cmds[i].conv : i \in {j \in 1 .. Len(cmds) : cmds[j].kind = kind}}
StopWanted == cancelled \/ closed \/ \E i \in 1 .. Len(cmds) : cmds[i] = Stop
AckSent(s) == \E i \in 1 .. Len(cmds) : cmds[i] = AckDecision(s)

\* To the client an ack takes effect when it is sent, and a conversation is the
\* coordinator's from when it is sent until the decision on it.
ContractMode == IF pc = "exited" THEN "ended" ELSE IF StopWanted THEN "stopping" ELSE "running"
ContractGate == IF pc = "exited" \/ AckSent(pending_ack_seq) THEN None ELSE pending_ack_seq
ContractWork ==
    IF pc = "exited" THEN {}
    ELSE InChannel("Update") \union Queued
         \union ({pending_conversation, IF pc = "request" THEN working ELSE None} \ {None})
ContractPrompts == IF pc = "exited" THEN {} ELSE InChannel("User")

Contract == INSTANCE CoordinatorContract WITH
    mode <- ContractMode, gate <- ContractGate, seq <- decision_seq,
    work <- ContractWork, prompts <- ContractPrompts

\* Whatever its loop, its queue and its two channels do, the coordinator looks to its
\* client like CoordinatorContract: conversations are decided on one at a time, oldest
\* first, each once and only after the last ack, prompts are answered in between, only
\* a full queue gives up a conversation, and only a failure or the client ends it.
ImplementsContract == Contract!ContractSpec

\* The loop catches up again and again: every accepted snapshot is decided on or
\* evicted, unless the run ends first.  (A client that sends for ever faster than
\* decisions come is not in the model, which bounds the snapshots.)
SnapshotsHandled == []<>(accepted \subseteq done \union dropped \/ pc = "exited")

\* After a Stop command, or once the handle is gone, the thread ends.
StopEndsThread ==
    (closed \/ \E i \in 1 .. Len(cmds) : cmds[i] = Stop) ~> (pc = "exited")
=============================================================================
