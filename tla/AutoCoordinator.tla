-------------------------- MODULE AutoCoordinator --------------------------
(***************************************************************************)
(* code-auto-drive-core/auto_coordinator: the coordinator thread of Auto   *)
(* Drive.  It turns conversation snapshots into decisions, one at a time:  *)
(* after a decision it queues every later snapshot until its client has    *)
(* acknowledged that decision.  Commands arrive on an unbounded channel,   *)
(* events leave on another; the model's answer to a request is arbitrary.  *)
(* A conversation is the number of the snapshot it came from: the order of *)
(* the snapshots is all the properties look at.                            *)
(***************************************************************************)
EXTENDS Integers, Sequences, FiniteSets

CONSTANTS None,
          QueueCap,       \* MAX_QUEUED_CONVERSATION_UPDATES
          MaxRecovery,    \* MAX_DECISION_RECOVERY_ATTEMPTS
          TurnCap,        \* auto_drive.coordinator_turn_cap; 0 means no cap
          MaxSnapshots,   \* bound: conversations a client sends
          MaxDupAcks,     \* bound: acknowledgements repeated by a client
          MaxStops        \* bound: Stop commands in the channel

ASSUME NoneAssumption == None \notin Nat
ASSUME QueueCapAssumption == QueueCap \in Nat \ {0}
ASSUME MaxRecoveryAssumption == MaxRecovery \in Nat
ASSUME TurnCapAssumption == TurnCap \in Nat
ASSUME MaxSnapshotsAssumption == MaxSnapshots \in Nat \ {0}
ASSUME MaxDupAcksAssumption == MaxDupAcks \in Nat
ASSUME MaxStopsAssumption == MaxStops \in Nat \ {0}

VARIABLES
    pc,                     \* top of the loop, request, recv, exited
    pending_conversation,   \* a snapshot to decide on next, or None
    pending_ack_seq,        \* the decision that awaits its ack, or None
    queued_updates,
    decision_seq,
    consecutive_decision_failures,
    coordinator_turns_seen,
    working,                \* the snapshot of the current or last request
    cmds,                   \* the command channel
    events,                 \* the event channel: decisions, user replies, StopAck
    cancelled,              \* the CancellationToken
    closed,                 \* every sender of the command channel is gone
    attempts,               \* history: requests since the last command or success
    continues,              \* history: Continue decisions sent, the seed not counted
    done,                   \* history: snapshots handed to a request
    dropped,                \* history: snapshots the capped queue threw away
    accepted,               \* history: snapshots taken from the command channel
    unacked                 \* history: decisions sent whose ack was not consumed

loopVars == <<pending_conversation, pending_ack_seq, queued_updates, decision_seq,
              consecutive_decision_failures, coordinator_turns_seen, working>>
histVars == <<attempts, continues, done, dropped, accepted, unacked>>
threadVars == <<pc, loopVars, histVars, events>>

Statuses == {"Continue", "Success", "Failed"}
Decision(seq, status) == [kind |-> "Decision", seq |-> seq, status |-> status]
UserReply(command) == [kind |-> "UserReply", cli |-> command]
StopAck == [kind |-> "StopAck"]

AckDecision(s) == [kind |-> "Ack", seq |-> s]
UpdateConversation(n) == [kind |-> "Update", conv |-> n]
HandleUserPrompt(n) == [kind |-> "User", conv |-> n]
Stop == [kind |-> "Stop"]

Snapshots == 1 .. MaxSnapshots

Commands == [kind : {"Ack"}, seq : Nat] \union [kind : {"Update", "User"}, conv : Snapshots]
            \union {Stop}
Events == [kind : {"Decision"}, seq : Nat, status : Statuses] \union [kind : {"UserReply"}, cli : BOOLEAN]
          \union {StopAck}

\* With a goal the loop is seeded with a planning decision and drops the initial
\* conversation; without one the initial conversation, snapshot 1, comes first.  A
\* thread that gets no runtime returns before either, with a line in the log.
CoordInit ==
    /\ \/ /\ pc = "top"
          /\ pending_conversation = None
          /\ pending_ack_seq = 0
          /\ events = <<Decision(0, "Continue")>>
          /\ unacked = {0}
          /\ accepted = {}
       \/ /\ pc = "top"
          /\ pending_conversation = 1
          /\ pending_ack_seq = None
          /\ events = <<>>
          /\ unacked = {}
          /\ accepted = {1}
       \/ /\ pc = "exited"
          /\ pending_conversation = None
          /\ pending_ack_seq = None
          /\ events = <<>>
          /\ unacked = {}
          /\ accepted = {}
    /\ queued_updates = <<>>
    /\ decision_seq = 0
    /\ consecutive_decision_failures = 0
    /\ coordinator_turns_seen = 0
    /\ working = None
    /\ cmds = <<>>
    /\ cancelled = FALSE
    /\ closed = FALSE
    /\ attempts = 0
    /\ continues = 0
    /\ done = {}
    /\ dropped = {}

-----------------------------------------------------------------------------
\* Mutant of queue_update_capped: the newest snapshot jumps the queue.
queue_update_front(n) ==
    IF Len(queued_updates) >= QueueCap
    THEN /\ queued_updates' = <<n>> \o Tail(queued_updates)
         /\ dropped' = dropped \union {Head(queued_updates)}
    ELSE /\ queued_updates' = <<n>> \o queued_updates
         /\ UNCHANGED dropped

\* Mutant of queue_update_capped: a full queue overwrites its newest snapshot.
queue_update_overwrite(n) ==
    /\ queued_updates' = IF Len(queued_updates) >= QueueCap
                         THEN [queued_updates EXCEPT ![Len(queued_updates)] = n]
                         ELSE Append(queued_updates, n)
    /\ UNCHANGED dropped

\* Mutant of queue_update_capped: the cap is off by one.
queue_update_over(n) ==
    IF Len(queued_updates) > QueueCap
    THEN /\ queued_updates' = Append(Tail(queued_updates), n)
         /\ dropped' = dropped \union {Head(queued_updates)}
    ELSE /\ queued_updates' = Append(queued_updates, n)
         /\ UNCHANGED dropped

\* A full queue loses its oldest snapshot.
queue_update_capped(n) ==
    IF Len(queued_updates) >= QueueCap
    THEN /\ queued_updates' = Append(Tail(queued_updates), n)
         /\ dropped' = dropped \union {Head(queued_updates)}
    ELSE /\ queued_updates' = Append(queued_updates, n)
         /\ UNCHANGED dropped

-----------------------------------------------------------------------------
(* The top of the loop *)

\* A pending conversation waits in the queue until the decision is acknowledged.
TopQueue ==
    /\ pc = "top"
    /\ pending_conversation # None
    /\ pending_ack_seq # None
    /\ queue_update_capped(pending_conversation)
    /\ pending_conversation' = None
    /\ pc' = "recv"
    /\ UNCHANGED <<pending_ack_seq, decision_seq, consecutive_decision_failures,
                   coordinator_turns_seen, working, events, attempts, continues, done,
                   accepted, unacked>>

\* Mutant of TopRequest: a pending conversation does not wait for the ack.
TopRequestUngated ==
    /\ pc = "top"
    /\ pending_conversation # None
    /\ ~cancelled
    /\ working' = pending_conversation
    /\ pending_conversation' = None
    /\ done' = done \union {working'}
    /\ attempts' = attempts + 1
    /\ pc' = "request"
    /\ UNCHANGED <<pending_ack_seq, queued_updates, decision_seq, consecutive_decision_failures,
                   coordinator_turns_seen, events, continues, dropped, accepted, unacked>>

\* The next conversation is decided on: the pending one, else the oldest queued one.
TopRequest ==
    /\ pc = "top"
    /\ pending_ack_seq = None
    /\ pending_conversation # None \/ queued_updates # <<>>
    /\ ~cancelled
    /\ working' = IF pending_conversation # None THEN pending_conversation ELSE Head(queued_updates)
    /\ queued_updates' = IF pending_conversation # None THEN queued_updates ELSE Tail(queued_updates)
    /\ pending_conversation' = None
    /\ done' = done \union {working'}
    /\ attempts' = attempts + 1
    /\ pc' = "request"
    /\ UNCHANGED <<pending_ack_seq, decision_seq, consecutive_decision_failures,
                   coordinator_turns_seen, events, continues, dropped, accepted, unacked>>

\* A cancelled run stops instead of asking for a decision.
TopCancelled ==
    /\ pc = "top"
    /\ pending_ack_seq = None
    /\ pending_conversation # None \/ queued_updates # <<>>
    /\ cancelled
    /\ queued_updates' = IF pending_conversation # None THEN queued_updates ELSE Tail(queued_updates)
    /\ pending_conversation' = None
    /\ pc' = "exited"
    /\ UNCHANGED <<pending_ack_seq, decision_seq, consecutive_decision_failures,
                   coordinator_turns_seen, working, histVars, events>>

TopIdle ==
    /\ pc = "top"
    /\ pending_conversation = None
    /\ pending_ack_seq # None \/ queued_updates = <<>>
    /\ pc' = "recv"
    /\ UNCHANGED <<loopVars, histVars, events>>

-----------------------------------------------------------------------------
(* The answer of request_coordinator_decision *)

\* A decision goes out under a new sequence number and must be acknowledged.
Send(status) ==
    /\ decision_seq' = decision_seq + 1
    /\ pending_ack_seq' = decision_seq + 1
    /\ events' = Append(events, Decision(decision_seq + 1, status))
    /\ unacked' = unacked \union {decision_seq + 1}

\* Mutant of AtTurnCap: one turn too many.
PastTurnCap(turns) == TurnCap > 0 /\ turns > TurnCap

AtTurnCap(turns) == TurnCap > 0 /\ turns >= TurnCap

RequestOk(status) ==
    /\ pc = "request"
    /\ coordinator_turns_seen' = coordinator_turns_seen + 1
    /\ consecutive_decision_failures' = 0
    /\ attempts' = 0
    /\ \/ /\ status = "Continue"
          /\ AtTurnCap(coordinator_turns_seen + 1)
          /\ Send("Failed")
          /\ pc' = "exited"
          /\ UNCHANGED continues
       \/ /\ status = "Continue"
          /\ ~AtTurnCap(coordinator_turns_seen + 1)
          /\ Send("Continue")
          /\ pc' = "top"
          /\ continues' = continues + 1
       \/ /\ status # "Continue"
          /\ Send(status)
          /\ pc' = IF status = "Failed" THEN "exited" ELSE "top"
          /\ UNCHANGED continues
    /\ UNCHANGED <<pending_conversation, queued_updates, working, done, dropped, accepted>>

\* Mutant of RequestInvalid: the failure counter is not advanced.
RequestInvalidUncounted ==
    /\ pc = "request"
    /\ pending_conversation' = working
    /\ pc' = "top"
    /\ UNCHANGED <<pending_ack_seq, queued_updates, decision_seq, consecutive_decision_failures,
                   coordinator_turns_seen, working, events, histVars>>

\* An answer that fails validation is retried from a snapshot that adds the error.
RequestInvalid ==
    /\ pc = "request"
    /\ consecutive_decision_failures + 1 <= MaxRecovery
    /\ consecutive_decision_failures' = consecutive_decision_failures + 1
    /\ pending_conversation' = working
    /\ pc' = "top"
    /\ UNCHANGED <<pending_ack_seq, queued_updates, decision_seq, coordinator_turns_seen,
                   working, events, histVars>>

\* Any other failure, or one validation failure too many, ends the run.
RequestFailed ==
    /\ pc = "request"
    /\ consecutive_decision_failures' = 0
    /\ Send("Failed")
    /\ pc' = "exited"
    /\ UNCHANGED <<pending_conversation, queued_updates, coordinator_turns_seen, working,
                   attempts, continues, done, dropped, accepted>>

\* Mutant of RequestCancelled: a request that is given up ends the run without a word.
RequestGivenUp ==
    /\ pc = "request"
    /\ pc' = "exited"
    /\ UNCHANGED <<loopVars, histVars, events>>

RequestCancelled ==
    /\ pc = "request"
    /\ cancelled
    /\ pc' = "exited"
    /\ UNCHANGED <<loopVars, histVars, events>>

-----------------------------------------------------------------------------
(* cmd_rx.recv() *)

Receive(kind) ==
    /\ pc = "recv"
    /\ cmds # <<>>
    /\ Head(cmds).kind = kind
    /\ cmds' = Tail(cmds)

\* Mutant of RecvAck: the sequence number is off by one, no ack ever matches.
RecvAckOffByOne ==
    /\ Receive("Ack")
    /\ pc' = "top"
    /\ attempts' = 0
    /\ UNCHANGED <<loopVars, events, continues, done, dropped, accepted, unacked>>

\* Mutant of RecvAck: the ack leaves the queue alone.
RecvAckKeepsQueue ==
    /\ Receive("Ack")
    /\ \/ /\ pending_ack_seq = Head(cmds).seq
          /\ pending_ack_seq' = None
          /\ unacked' = unacked \ {Head(cmds).seq}
       \/ pending_ack_seq # Head(cmds).seq /\ UNCHANGED <<pending_ack_seq, unacked>>
    /\ pc' = "top"
    /\ attempts' = 0
    /\ UNCHANGED <<pending_conversation, queued_updates, decision_seq,
                   consecutive_decision_failures, coordinator_turns_seen, working, events,
                   continues, done, dropped, accepted>>

\* The matching ack lets the oldest queued snapshot through; another is ignored.
RecvAck ==
    /\ Receive("Ack")
    /\ \/ /\ pending_ack_seq = Head(cmds).seq
          /\ pending_ack_seq' = None
          /\ unacked' = unacked \ {Head(cmds).seq}
          /\ pending_conversation' = IF queued_updates # <<>> THEN Head(queued_updates) ELSE pending_conversation
          /\ queued_updates' = IF queued_updates # <<>> THEN Tail(queued_updates) ELSE queued_updates
       \/ /\ pending_ack_seq # Head(cmds).seq
          /\ UNCHANGED <<pending_ack_seq, unacked, pending_conversation, queued_updates>>
    /\ pc' = "top"
    /\ attempts' = 0
    /\ UNCHANGED <<decision_seq, consecutive_decision_failures, coordinator_turns_seen, working,
                   events, continues, done, dropped, accepted>>

\* A user prompt is answered at once, ack or no ack; on success its conversation,
\* with the reply, becomes pending.  On an error only the reply is sent.
RecvUser ==
    /\ Receive("User")
    /\ \/ /\ pending_conversation' = Head(cmds).conv
          /\ accepted' = accepted \union {Head(cmds).conv}
          /\ \E command \in BOOLEAN : events' = Append(events, UserReply(command))
       \/ /\ events' = Append(events, UserReply(FALSE))
          /\ UNCHANGED <<pending_conversation, accepted>>
    /\ pc' = "top"
    /\ attempts' = 0
    /\ UNCHANGED <<pending_ack_seq, queued_updates, decision_seq, consecutive_decision_failures,
                   coordinator_turns_seen, working, continues, done, dropped, unacked>>

RecvUpdate ==
    /\ Receive("Update")
    /\ consecutive_decision_failures' = 0
    /\ accepted' = accepted \union {Head(cmds).conv}
    /\ IF pending_ack_seq # None \/ pending_conversation # None
       THEN queue_update_capped(Head(cmds).conv) /\ UNCHANGED pending_conversation
       ELSE pending_conversation' = Head(cmds).conv /\ UNCHANGED <<queued_updates, dropped>>
    /\ pc' = "top"
    /\ attempts' = 0
    /\ UNCHANGED <<pending_ack_seq, decision_seq, coordinator_turns_seen, working, events,
                   continues, done, unacked>>

\* Mutant of RecvStop: a disconnected channel does not stop the loop.
RecvStopOnly ==
    /\ Receive("Stop")
    /\ pc' = "exited"
    /\ events' = Append(events, StopAck)
    /\ pending_ack_seq' = None
    /\ queued_updates' = <<>>
    /\ UNCHANGED <<pending_conversation, decision_seq, consecutive_decision_failures,
                   coordinator_turns_seen, working, histVars>>

\* Stop, or a channel without senders that has been drained.
RecvStop ==
    /\ \/ Receive("Stop")
       \/ pc = "recv" /\ cmds = <<>> /\ closed /\ UNCHANGED cmds
    /\ pc' = "exited"
    /\ events' = Append(events, StopAck)
    /\ pending_ack_seq' = None
    /\ queued_updates' = <<>>
    /\ UNCHANGED <<pending_conversation, decision_seq, consecutive_decision_failures,
                   coordinator_turns_seen, working, histVars>>

-----------------------------------------------------------------------------
LoopStep ==
    /\ \/ TopQueue \/ TopRequest \/ TopCancelled \/ TopIdle
       \/ \E status \in Statuses : RequestOk(status)
       \/ RequestInvalid \/ RequestFailed \/ RequestCancelled
    /\ UNCHANGED cmds

RecvStep == RecvAck \/ RecvUser \/ RecvUpdate \/ RecvStop

CoordNext == (LoopStep \/ RecvStep) /\ UNCHANGED <<cancelled, closed>>
=============================================================================
