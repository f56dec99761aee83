--------------------------- MODULE AutoDriveExec ---------------------------
(***************************************************************************)
(* exec/run_auto_drive_session: the headless driver of Auto Drive, run     *)
(* against the coordinator thread.  It takes an event, acknowledges a      *)
(* decision, runs the turn the decision asks for in the session and sends  *)
(* the new conversation back.  Its variables are added to those of         *)
(* CoordinatorClient, whose client it claims to be.                        *)
(*                                                                         *)
(* A goal is required, so the loop is always seeded; the driver never      *)
(* sends a user prompt, so the UserReply arm of its match is dead.  A      *)
(* decision has a CLI action exactly when its status is Continue           *)
(* (convert_decision refuses any other answer).                            *)
(***************************************************************************)
EXTENDS CoordinatorClient

CONSTANT Reviews    \* auto-review agents the session may start

VARIABLES
    at,             \* where the driver is
    decision,       \* the event it is handling, or None
    silent,         \* the turn's task is complete but carried no agent message
    run_deadline,   \* --max-seconds was given
    expired,        \* the deadline has passed
    running,        \* AutoReviewTracker.running
    processed,      \* AutoReviewTracker.processed
    shutdown_sent

driverVars == <<at, decision, silent, run_deadline, expired, running, processed, shutdown_sent>>
driveVars == <<vars, driverVars>>

Places == {"recv", "ack", "stop", "turn", "update", "abort", "abort_cancel", "cancel",
           "grace", "drain", "shutdown", "final", "return", "ended"}

\* The driver is at a place of its code, handles an event of the coordinator and tracks
\* only auto reviews of its session.
DriveTypeOK ==
    /\ TypeOK
    /\ at \in Places
    /\ decision \in Events \union {None}
    /\ silent \in BOOLEAN
    /\ run_deadline \in BOOLEAN
    /\ expired \in BOOLEAN
    /\ running \subseteq Reviews
    /\ processed \subseteq Reviews
    /\ shutdown_sent \in BOOLEAN

\* exec always has a goal, so no conversation is to be decided on at the start.
DriveInit ==
    /\ Init
    /\ pending_conversation = None
    /\ at = "recv"
    /\ decision = None
    /\ silent = FALSE
    /\ run_deadline \in BOOLEAN
    /\ expired = FALSE
    /\ running = {}
    /\ processed = {}
    /\ shutdown_sent = FALSE

\* A step of the driver alone.
Local == UNCHANGED <<vars, decision, run_deadline, expired>>
NoSession == UNCHANGED <<silent, running, processed, shutdown_sent>>

Goto(from, to) == at = from /\ at' = to

-----------------------------------------------------------------------------
(* The loop over the coordinator's events *)

RecvEvent ==
    /\ TakeEvent
    /\ decision' = Head(events)
    /\ Goto("recv", IF decision' = StopAck THEN "cancel" ELSE "ack")
    /\ NoSession
    /\ UNCHANGED <<run_deadline, expired>>

\* The thread is gone and with it the sender of the event channel.
RecvClosed ==
    /\ events = <<>>
    /\ pc = "exited"
    /\ Goto("recv", "cancel")
    /\ Local
    /\ NoSession

\* Mutant of Acknowledge: the ack is forgotten.
AcknowledgeNever ==
    /\ Goto("ack", IF decision.status = "Continue" THEN "turn" ELSE "stop")
    /\ Local
    /\ NoSession

\* Mutant of Acknowledge: the conversation goes out with the ack, before the turn.
AcknowledgeAndUpdate ==
    /\ Goto("ack", IF decision.status = "Continue" THEN "turn" ELSE "stop")
    /\ ~closed
    /\ next_snapshot <= MaxSnapshots
    /\ cmds' = cmds \o <<AckDecision(decision.seq), UpdateConversation(next_snapshot)>>
    /\ next_snapshot' = next_snapshot + 1
    /\ owed' = owed \ {decision.seq}
    /\ NoSession
    /\ UNCHANGED <<decision, run_deadline, expired, threadVars, cancelled, closed, received, dups>>

Acknowledge ==
    /\ Goto("ack", IF decision.status = "Continue" THEN "turn" ELSE "stop")
    /\ SendAck(decision.seq)
    /\ NoSession
    /\ UNCHANGED <<decision, run_deadline, expired>>

SendsStop ==
    /\ Goto("stop", "recv")
    /\ SendStop
    /\ NoSession
    /\ UNCHANGED <<decision, run_deadline, expired>>

\* The new conversation goes to the coordinator; if it is gone the loop ends.
SendUpdate ==
    /\ IF pc = "exited"
       THEN Goto("update", "cancel") /\ UNCHANGED vars
       ELSE /\ next_snapshot <= MaxSnapshots
            /\ next_snapshot' = next_snapshot + 1
            /\ ClientSend(UpdateConversation(next_snapshot))
            /\ Goto("update", "recv")
            /\ UNCHANGED <<received, owed, dups>>
    /\ NoSession
    /\ UNCHANGED <<decision, run_deadline, expired>>

-----------------------------------------------------------------------------
(* submit_and_wait: a turn of the session *)

\* TaskComplete with the last agent message, or the end of the session.
TurnMessage ==
    /\ ~silent
    /\ Goto("turn", "update")
    /\ Local
    /\ NoSession

\* TaskComplete without a message, as after a failed turn: the driver waits on.
TurnSilent ==
    /\ ~silent
    /\ Goto("turn", "turn")
    /\ silent' = TRUE
    /\ Local
    /\ UNCHANGED <<running, processed, shutdown_sent>>

\* Ctrl-C, or the session's event channel is closed.
TurnError ==
    /\ Goto("turn", "abort")
    /\ Local
    /\ NoSession

-----------------------------------------------------------------------------
(* The deadline *)

Expire ==
    /\ run_deadline
    /\ ~expired
    /\ expired' = TRUE
    /\ UNCHANGED <<vars, at, decision, run_deadline>>
    /\ NoSession

\* timeout() polls the channel first: an event that is there wins.
DeadlineRecv ==
    /\ expired
    /\ events = <<>>
    /\ pc # "exited"
    /\ Goto("recv", "abort")
    /\ Local
    /\ NoSession

\* Mutant of DeadlineTurn: the deadline is not watched once the task is complete.
DeadlineTurnUnwatched ==
    /\ expired
    /\ ~silent
    /\ Goto("turn", "abort")
    /\ Local
    /\ NoSession

DeadlineTurn ==
    /\ expired
    /\ Goto("turn", "abort")
    /\ Local
    /\ NoSession

\* After the loop there is no coordinator left to stop.
DeadlineEnd ==
    /\ expired
    /\ \E from \in {"drain", "final"} : Goto(from, "return")
    /\ Local
    /\ NoSession

AbortStop ==
    /\ Goto("abort", "abort_cancel")
    /\ SendStop
    /\ NoSession
    /\ UNCHANGED <<decision, run_deadline, expired>>

AbortCancel ==
    /\ Goto("abort_cancel", "return")
    /\ Cancel
    /\ NoSession
    /\ UNCHANGED <<decision, run_deadline, expired>>

Return ==
    /\ Goto("return", "ended")
    /\ DropHandle
    /\ NoSession
    /\ UNCHANGED <<decision, run_deadline, expired>>

-----------------------------------------------------------------------------
(* After the loop: wait for auto reviews, then shut the session down *)

CancelRun ==
    /\ Goto("cancel", IF running = {} THEN "grace" ELSE "drain")
    /\ Cancel
    /\ NoSession
    /\ UNCHANGED <<decision, run_deadline, expired>>

GraceOver ==
    /\ Goto("grace", "shutdown")
    /\ Local
    /\ NoSession

\* send_shutdown_if_ready
SendShutdown ==
    /\ Goto("shutdown", "final")
    /\ shutdown_sent' = (shutdown_sent \/ running = {})
    /\ Local
    /\ UNCHANGED <<silent, running, processed>>

ShutdownComplete ==
    /\ shutdown_sent
    /\ Goto("final", "return")
    /\ Local
    /\ NoSession

SessionLost ==
    /\ \E from \in {"grace", "drain", "final"} : Goto(from, "return")
    /\ Local
    /\ NoSession

\* AutoReviewTracker::update, and the loops' tests of is_running.  An agent's
\* terminal status is final, so "running" is not reported after it.
ReviewReported(a) ==
    /\ at \in {"turn", "grace", "drain", "final"}
    /\ a \notin processed
    /\ \/ /\ running' = running \union {a}
          /\ UNCHANGED processed
       \/ /\ running' = running \ {a}
          /\ processed' = processed \union {a}
    /\ at' = CASE at = "grace" /\ running' # {} -> "drain"
               [] at = "drain" /\ running' = {} -> "shutdown"
               [] OTHER -> at
    /\ Local
    /\ UNCHANGED <<silent, shutdown_sent>>

-----------------------------------------------------------------------------
DriverStep ==
    \/ RecvEvent \/ RecvClosed \/ Acknowledge \/ SendsStop \/ SendUpdate
    \/ DeadlineRecv \/ DeadlineTurn \/ DeadlineEnd \/ AbortStop \/ AbortCancel \/ Return
    \/ CancelRun \/ GraceOver \/ SendShutdown

TurnEnds == TurnMessage \/ TurnSilent \/ TurnError

SessionStep == TurnEnds \/ ShutdownComplete \/ SessionLost \/ \E a \in Reviews : ReviewReported(a)

CoordinatorStep == ThreadStep /\ UNCHANGED driverVars

DriveNext == DriverStep \/ SessionStep \/ Expire \/ CoordinatorStep

DriveSpec == DriveInit /\ [][DriveNext]_driveVars

\* The driver and the thread run and the clock advances.  Only without a deadline is
\* anything expected of the session: turns end, reviews finish, Shutdown is answered.
DriveFairSpec ==
    /\ DriveSpec
    /\ WF_driveVars(DriverStep)
    /\ WF_driveVars(CoordinatorStep)
    /\ WF_driveVars(Expire)
    /\ WF_driveVars(~run_deadline /\ TurnEnds)
    /\ WF_driveVars(~run_deadline /\ ShutdownComplete)
    /\ \A a \in Reviews :
           WF_driveVars(~run_deadline /\ ReviewReported(a) /\ processed' # processed)

-----------------------------------------------------------------------------
(* Properties *)

\* The driver acknowledges a decision before it runs the turn, so the gate is open
\* while the turn runs; yet nothing is decided until the turn's outcome is sent, and
\* the thread is alive to take it (the loop's exit on a failed send is dead code).
NoDecisionDuringTurn ==
    at \in {"turn", "update"} =>
        /\ pc \in {"top", "recv"}
        /\ pending_conversation = None
        /\ events = <<>>

\* With this driver the capped queue is never used: no outcome of a turn is dropped.
QueueUnused == queued_updates = <<>> /\ dropped = {}

\* Every decision is taken on the newest conversation, the one with the outcome of
\* the turn before it.
DecidesOnLatest == pc = "request" => working = next_snapshot - 1

\* The driver waits for an event only while one will come: the event is there, or the
\* coordinator is gone (which the driver notices), is deciding, or has a conversation or
\* a Stop still to deal with.  Without --max-seconds nothing else would end that wait.
EventOnTheWay ==
    at = "recv" =>
        \/ events # <<>>
        \/ pc \in {"request", "exited"}
        \/ pending_conversation # None
        \/ \E i \in 1 .. Len(cmds) : cmds[i].kind \in {"Update", "Stop"}

\* Waiting for the message of a turn that ended without one, and no deadline is set.
Stuck == at = "turn" /\ silent /\ ~run_deadline

\* The run ends and takes the coordinator thread with it, unless it is left Stuck:
\* with --max-seconds whatever the session does, without if the session keeps going.
RunEnds == <>[]((at = "ended" /\ pc = "exited") \/ Stuck)
=============================================================================
