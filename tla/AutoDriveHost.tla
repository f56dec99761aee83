--------------------------- MODULE AutoDriveHost ---------------------------
(***************************************************************************)
(* The terminal UI as host of Auto Drive: tui/chatwidget with the          *)
(* AutoDriveController (code-auto-drive-core/controller).  One action per  *)
(* handler of the app's event loop.  A coordinator thread appears as the   *)
(* contract AutoCoordinator gives its client: one decision at a time, the  *)
(* next one only after the ack, user prompts answered at any time.  The    *)
(* session appears as the tasks it runs and the events it reports.         *)
(*                                                                         *)
(* Everything but keys and countdown ticks reaches the host through one    *)
(* FIFO channel (AppEventSender's bulk channel).  A prompt's text is left  *)
(* out; the auto-resolve loop and slash commands in a reply are too.       *)
(***************************************************************************)
EXTENDS Integers, Sequences, FiniteSets

CONSTANTS None,
          coordinator_routing,   \* configuration
          MaxRuns,      \* bound: coordinators started
          MaxTurns,     \* auto_drive.coordinator_turn_cap
          MaxSuccess,   \* bound: the last decision of a coordinator that claims success
          MaxInputs     \* bound: commands and prompts of the user, errors of the session

ASSUME NoneAssumption == None \notin Nat /\ None \notin [token : Nat, attempt : Nat]
ASSUME RoutingAssumption == coordinator_routing \in BOOLEAN
ASSUME BoundsAssumption ==
    MaxRuns \in Nat /\ MaxTurns \in Nat /\ MaxSuccess \in Nat /\ MaxInputs \in Nat

VARIABLES
    phase,                      \* AutoRunPhase
    continue_mode,
    countdown_id,
    restart_token,
    transient_restart_attempts,
    pending_restart,            \* [token, attempt] or None
    pending_stop_message,       \* set while the diagnostics turn runs
    current_cli_prompt,         \* None, "empty" (bootstrap) or "prompt"
    auto_handle,                \* the coordinator the host talks to, or None
    auto_pending_goal_request,
    review_flow,                \* is_review_flow_active
    bulk,                       \* the event channel
    coord,                      \* the coordinators, by run
    runs,                       \* how many were started
    countdowns,                 \* countdown threads
    restarts,                   \* restart timers
    task,                       \* what the session runs, or None
    queued,                     \* input queued behind it, or None
    draft,                      \* history: which draft of the run awaits submission
    inputs                      \* history: for the bound

draftVars == <<countdown_id, draft>>
retryVars == <<restart_token, transient_restart_attempts, pending_restart>>
controllerVars == <<phase, continue_mode, draftVars, retryVars, pending_stop_message,
                    current_cli_prompt>>
hostVars == <<controllerVars, auto_handle, auto_pending_goal_request, review_flow>>
coordVars == <<coord, runs>>
timerVars == <<countdowns, restarts>>
sessionVars == <<task, queued>>
vars == <<hostVars, bulk, coordVars, timerVars, sessionVars, inputs>>

\* AwaitingDiagnostics is three phases here: with coordinator_waiting set the host
\* waits for a decision, without it for the session's answer.  The draft of a manual
\* edit, or a command while it is edited, goes to the session with coordinator_waiting
\* set although the coordinator owes nothing.
Inactive == {"Idle", "AwaitingGoalEntry"}
Phases == Inactive \union {"Active", "PausedManual", "AwaitingCoordinator", "AwaitingDecision",
                           "AwaitingNothing", "AwaitingResponse", "AwaitingReview",
                           "TransientRecovery"}
is_active == phase \notin Inactive

\* Immediate, 10 s and 60 s differ in the time of the last tick only.
Modes == {"Timed", "Manual"}
Tasks == {"turn", "diagnostics", "review"}
ASSUME NoTaskAssumption == None \notin Tasks
\* A complete goal and an answer that is no verdict both stop the run.
Verdicts == {"stop", "incomplete"}

Runs == 1 .. MaxRuns
Coordinators == [live : BOOLEAN, cancelled : BOOLEAN, gate : Nat \union {None}, seq : Nat,
                 work : Nat, prompts : Nat]

Decision(seq, status) == [kind |-> "Decision", seq |-> seq, status |-> status]
UserReply(cli) == [kind |-> "UserReply", cli |-> cli]
Restart(t) == [kind |-> "Restart", token |-> t.token, attempt |-> t.attempt]
Answer(v) == [kind |-> "Answer", verdict |-> v]
Event(kind) == [kind |-> kind]

Events == [kind : {"Decision"}, seq : Nat, status : {"Planning", "Continue", "Success", "Failed"}]
          \union [kind : {"UserReply"}, cli : BOOLEAN]
          \union [kind : {"Restart"}, token : Nat, attempt : Nat]
          \union [kind : {"Answer"}, verdict : Verdicts]
          \union [kind : {"Error", "Quiescent", "Entered", "Exited"}]

\* Every variable keeps its type: no id, counter or coordinator runs out of its range.
HostTypeOK ==
    /\ phase \in Phases
    /\ continue_mode \in Modes
    /\ countdown_id \in Nat
    /\ restart_token \in Nat
    /\ transient_restart_attempts \in Nat
    /\ pending_restart \in [token : Nat, attempt : Nat] \union {None}
    /\ pending_stop_message \in BOOLEAN
    /\ current_cli_prompt \in {None, "empty", "prompt"}
    /\ auto_handle \in Runs \union {None}
    /\ auto_pending_goal_request \in BOOLEAN
    /\ review_flow \in BOOLEAN
    /\ bulk \in Seq(Events)
    /\ runs \in 0 .. MaxRuns
    /\ coord \in [1 .. runs -> Coordinators]
    /\ countdowns \subseteq [id : Nat, run : Runs, draft : Nat]
    /\ restarts \subseteq [token : Nat, attempt : Nat]
    /\ task \in Tasks \union {None}
    /\ queued \in Tasks \union {None}
    /\ draft \in Nat
    /\ inputs \in 0 .. MaxInputs

Init ==
    /\ phase = "Idle"
    /\ continue_mode \in Modes
    /\ countdown_id = 0
    /\ restart_token = 0
    /\ transient_restart_attempts = 0
    /\ pending_restart = None
    /\ pending_stop_message = FALSE
    /\ current_cli_prompt = None
    /\ auto_handle = None
    /\ auto_pending_goal_request = FALSE
    /\ review_flow = FALSE
    /\ bulk = <<>>
    /\ coord = <<>>
    /\ runs = 0
    /\ countdowns = {}
    /\ restarts = {}
    /\ task = None
    /\ queued = None
    /\ draft = 0
    /\ inputs = 0

-----------------------------------------------------------------------------
(* What the handlers have in common; c stands for the coordinators *)

\* Mutant of Acked: the ack is forgotten.
AckedNever(seq) == coord

\* An ack goes to the coordinator of the handle, whichever sent the decision.
Acked(seq) ==
    IF auto_handle # None /\ coord[auto_handle].gate = seq
    THEN [coord EXCEPT ![auto_handle].gate = None] ELSE coord

\* Mutant of Cancelled: the handle is dropped, its coordinator goes on.
Dropped(c) == c

\* handle.cancel() as the handle is taken
Cancelled(c) == IF auto_handle = None THEN c ELSE [c EXCEPT ![auto_handle].cancelled = TRUE]

\* Input goes to the session: a new task, or queued behind the one that runs.
Submit(kind) ==
    IF task = None THEN task' = kind /\ UNCHANGED queued
                   ELSE queued' = kind /\ UNCHANGED task

\* reset() keeps the mode and the pending stop message; ids and counters restart.
Reset ==
    /\ countdown_id' = 0
    /\ restart_token' = 0
    /\ pending_restart' = None
    /\ current_cli_prompt' = None
    /\ draft' = 0

auto_stop(c) ==
    /\ Reset
    /\ transient_restart_attempts' = 0
    /\ phase' = "AwaitingGoalEntry"
    /\ pending_stop_message' = FALSE
    /\ auto_pending_goal_request' = FALSE
    /\ coord' = Cancelled(c)
    /\ auto_handle' = None
    /\ UNCHANGED <<continue_mode, runs, restarts>>

\* start_auto_coordinator: with a goal the loop starts with a planning decision, to
\* derive the goal it starts with the conversation.  The thread gets its runtime.
NewCoordinator(seeded) ==
    [live |-> TRUE, cancelled |-> FALSE, gate |-> IF seeded THEN 0 ELSE None, seq |-> 0,
     work |-> IF seeded THEN 0 ELSE 1, prompts |-> 0]

Start(seeded) ==
    /\ runs < MaxRuns
    /\ runs' = runs + 1
    /\ coord' = Append(Cancelled(coord), NewCoordinator(seeded))
    /\ auto_handle' = runs + 1
    /\ bulk' = IF seeded THEN Append(bulk, Decision(0, "Planning")) ELSE bulk

\* The thread could not be spawned.
launch_failed ==
    /\ Reset
    /\ phase' = "AwaitingGoalEntry"
    /\ coord' = Cancelled(coord)
    /\ auto_handle' = None
    /\ UNCHANGED <<bulk, runs>>

\* Mutant of auto_pause_for_transient_failure: the restart expected has the old token.
auto_pause_old_token(c) ==
    /\ phase' = "TransientRecovery"
    /\ current_cli_prompt' = None
    /\ transient_restart_attempts' = transient_restart_attempts + 1
    /\ restart_token' = restart_token + 1
    /\ pending_restart' = [token |-> restart_token, attempt |-> transient_restart_attempts']
    /\ restarts' = restarts \union {[token |-> restart_token', attempt |-> transient_restart_attempts']}
    /\ coord' = Cancelled(c)
    /\ auto_handle' = None
    /\ UNCHANGED <<continue_mode, draftVars, pending_stop_message, runs>>

\* A run waits out the backoff; its coordinator is cancelled and the pending stop
\* message stays.
auto_pause_for_transient_failure(c) ==
    /\ phase' = "TransientRecovery"
    /\ current_cli_prompt' = None
    /\ transient_restart_attempts' = transient_restart_attempts + 1
    /\ restart_token' = restart_token + 1
    /\ pending_restart' = [token |-> restart_token', attempt |-> transient_restart_attempts']
    /\ restarts' = restarts \union {pending_restart'}
    /\ coord' = Cancelled(c)
    /\ auto_handle' = None
    /\ UNCHANGED <<continue_mode, draftVars, pending_stop_message, runs>>

\* The effect StartCountdown: a thread that ends with a tick at zero.
StartCountdown(timed) ==
    countdowns' = IF timed THEN countdowns \union {[id |-> countdown_id', run |-> runs', draft |-> draft']}
                           ELSE countdowns

\* Mutant of schedule_cli_prompt: the countdown keeps its id.
schedule_cli_prompt_same_id(id, d) ==
    /\ countdown_id' = id
    /\ draft' = d + 1

\* A draft waits for approval under a new countdown id.
schedule_cli_prompt(id, d) ==
    /\ countdown_id' = id + 1
    /\ draft' = d + 1

auto_dispatch_cli_prompt(kind) ==
    /\ phase' = "AwaitingResponse"
    /\ auto_pending_goal_request' = FALSE
    /\ Submit(kind)

\* The conversation goes to the coordinator.  Without a handle nothing is sent and the
\* phase is the caller's, idle; a dead coordinator ends the run.  The pending stop
\* message and goal request become what the caller set.
auto_send_conversation(idle, message, request) ==
    \/ /\ auto_handle = None
       /\ phase' = idle
       /\ pending_stop_message' = message
       /\ auto_pending_goal_request' = request
       /\ UNCHANGED <<continue_mode, draftVars, retryVars, current_cli_prompt, auto_handle,
                      coordVars, restarts>>
    \/ /\ auto_handle # None
       /\ coord[auto_handle].live
       /\ phase' = "AwaitingDecision"
       /\ pending_stop_message' = message
       /\ auto_pending_goal_request' = request
       /\ current_cli_prompt' = None
       /\ coord' = [coord EXCEPT ![auto_handle].work = @ + 1]
       /\ UNCHANGED <<continue_mode, draftVars, retryVars, auto_handle, runs, restarts>>
    \/ /\ auto_handle # None
       /\ ~coord[auto_handle].live
       /\ auto_stop(coord)

-----------------------------------------------------------------------------
(* The user *)

Input == inputs < MaxInputs /\ inputs' = inputs + 1

\* auto_stop takes the message of an active run; reset() keeps the one that a restart
\* without a thread left behind.
StopMessageKept == pending_stop_message /\ ~is_active

\* /auto <goal>: an active run is stopped first.  The mode is the configuration's, which
\* the settings change together with the controller's.
Launch ==
    /\ Input
    /\ \/ Start(TRUE) /\ Reset /\ phase' = "AwaitingDecision"
       \/ launch_failed
    /\ transient_restart_attempts' = 0
    /\ pending_stop_message' = StopMessageKept
    /\ auto_pending_goal_request' = FALSE
    /\ UNCHANGED <<continue_mode, review_flow, timerVars, sessionVars>>

\* The goal is to come from the history.  An empty draft is scheduled, with a countdown
\* of ten seconds where the mode has none.
BootstrapStarts ==
    /\ Start(FALSE)
    /\ restart_token' = 0
    /\ pending_restart' = None
    /\ current_cli_prompt' = "empty"
    /\ schedule_cli_prompt(0, 0)
    /\ StartCountdown(continue_mode # "Manual")
    /\ phase' = "AwaitingCoordinator"
    /\ auto_pending_goal_request' = TRUE

\* /auto: without a history to begin with, or without a thread, the goal is asked for.
Bootstrap ==
    /\ Input
    /\ \/ BootstrapStarts
       \/ launch_failed /\ auto_pending_goal_request' = FALSE /\ UNCHANGED countdowns
    /\ transient_restart_attempts' = 0
    /\ pending_stop_message' = StopMessageKept
    /\ UNCHANGED <<continue_mode, review_flow, restarts, sessionVars>>

\* Esc: a turn that runs is interrupted first.
EscStop ==
    /\ Input
    /\ is_active
    /\ auto_stop(coord)
    /\ IF task = "review" THEN UNCHANGED sessionVars
                         ELSE task' = None /\ queued' = None
    /\ UNCHANGED <<review_flow, bulk, countdowns>>

\* auto_submit_prompt, for Enter and for the last tick of a countdown.  The session's
\* input is a turn; an empty draft can only be submitted as a goal request.
auto_submit_prompt ==
    \/ /\ auto_pending_goal_request
       /\ auto_send_conversation(phase, pending_stop_message, FALSE)
       /\ UNCHANGED sessionVars
    \/ /\ ~auto_pending_goal_request
       /\ current_cli_prompt # "prompt"
       /\ auto_stop(coord)
       /\ UNCHANGED sessionVars
    \/ /\ ~auto_pending_goal_request
       /\ current_cli_prompt = "prompt"
       /\ auto_dispatch_cli_prompt("turn")
       /\ UNCHANGED <<continue_mode, draftVars, retryVars, pending_stop_message,
                      current_cli_prompt, auto_handle, coordVars, restarts>>

PressEnter ==
    /\ phase = "AwaitingCoordinator"
    /\ auto_submit_prompt
    /\ UNCHANGED <<review_flow, bulk, countdowns, inputs>>

\* 'e' or Esc on a draft: the countdown that runs loses its id.
auto_pause_for_manual_edit ==
    /\ Input
    /\ phase = "AwaitingCoordinator"
    /\ phase' = "PausedManual"
    /\ countdown_id' = countdown_id + 1
    /\ UNCHANGED <<continue_mode, retryVars, pending_stop_message, current_cli_prompt, draft,
                   auto_handle, auto_pending_goal_request, review_flow, bulk, coordVars,
                   timerVars, sessionVars>>

\* A new mode restarts the countdown of a draft that waits.
update_continue_mode(mode) ==
    /\ Input
    /\ mode # continue_mode
    /\ continue_mode' = mode
    /\ UNCHANGED <<runs, draft>>
    /\ IF phase = "AwaitingCoordinator"
       THEN countdown_id' = countdown_id + 1 /\ StartCountdown(mode # "Manual")
       ELSE UNCHANGED <<countdown_id, countdowns>>
    /\ UNCHANGED <<phase, retryVars, pending_stop_message, current_cli_prompt, auto_handle,
                   auto_pending_goal_request, review_flow, bulk, coord, restarts, sessionVars>>

Routed == is_active /\ coordinator_routing /\ auto_handle # None /\ coord[auto_handle].live

\* A message typed by the user goes to the coordinator or to the session.
submit_user_message ==
    /\ Input
    /\ IF Routed
       THEN /\ coord' = [coord EXCEPT ![auto_handle].prompts = @ + 1]
            /\ phase' = "AwaitingDecision"
            /\ UNCHANGED sessionVars
       ELSE /\ Submit("turn")
            /\ phase' = IF phase = "PausedManual" THEN "AwaitingNothing" ELSE phase
            /\ UNCHANGED coord
    /\ UNCHANGED <<continue_mode, draftVars, retryVars, pending_stop_message, current_cli_prompt,
                   auto_handle, auto_pending_goal_request, review_flow, bulk, runs, timerVars>>

\* /review, while the session is free and the lock too.
begin_review ==
    /\ Input
    /\ task = None
    /\ ~review_flow
    /\ task' = "review"
    /\ bulk' = Append(bulk, Event("Entered"))
    /\ UNCHANGED <<hostVars, queued, coordVars, timerVars>>

User ==
    \/ Launch \/ Bootstrap \/ EscStop \/ PressEnter \/ auto_pause_for_manual_edit
    \/ \E mode \in Modes : update_continue_mode(mode)
    \/ submit_user_message \/ begin_review

-----------------------------------------------------------------------------
(* The handlers of the bulk channel *)

Receive(kind) ==
    /\ bulk # <<>>
    /\ Head(bulk).kind = kind
    /\ UNCHANGED inputs

\* auto_handle_decision on an idle host: only the ack.
DecisionIgnored ==
    /\ Receive("Decision")
    /\ ~is_active
    /\ bulk' = Tail(bulk)
    /\ coord' = Acked(Head(bulk).seq)
    /\ UNCHANGED <<hostVars, runs, timerVars, sessionVars>>

\* Any decision but a failure ends a recovery, whatever the phase was.
Recovered == transient_restart_attempts' = 0 /\ pending_restart' = None

\* The planning turn is dispatched without a countdown.
DecisionPlanning ==
    /\ Receive("Decision")
    /\ is_active
    /\ Head(bulk).status = "Planning"
    /\ bulk' = Tail(bulk)
    /\ coord' = Acked(Head(bulk).seq)
    /\ Recovered
    /\ current_cli_prompt' = "prompt"
    /\ auto_dispatch_cli_prompt("turn")
    /\ UNCHANGED <<continue_mode, draftVars, restart_token, pending_stop_message, auto_handle,
                   review_flow, runs, timerVars>>

DecisionContinue ==
    /\ Receive("Decision")
    /\ is_active
    /\ Head(bulk).status = "Continue"
    /\ bulk' = Tail(bulk)
    /\ coord' = Acked(Head(bulk).seq)
    /\ Recovered
    /\ current_cli_prompt' = "prompt"
    /\ phase' = "AwaitingCoordinator"
    /\ auto_pending_goal_request' = FALSE
    /\ schedule_cli_prompt(countdown_id, draft)
    /\ UNCHANGED runs
    /\ StartCountdown(continue_mode # "Manual")
    /\ UNCHANGED <<continue_mode, restart_token, pending_stop_message, auto_handle, review_flow,
                   restarts, sessionVars>>

\* The coordinator claims success: a diagnostics turn is scheduled and submitted at once.
DecisionSuccess ==
    /\ Receive("Decision")
    /\ is_active
    /\ Head(bulk).status = "Success"
    /\ bulk' = Tail(bulk)
    /\ coord' = Acked(Head(bulk).seq)
    /\ Recovered
    /\ pending_stop_message' = TRUE
    /\ current_cli_prompt' = "prompt"
    /\ schedule_cli_prompt(countdown_id, draft)
    /\ UNCHANGED runs
    /\ StartCountdown(continue_mode # "Manual")
    /\ auto_dispatch_cli_prompt("diagnostics")
    /\ UNCHANGED <<continue_mode, restart_token, auto_handle, review_flow, restarts>>

\* auto_failure_is_transient goes by the wording of the error.
DecisionFailed ==
    /\ Receive("Decision")
    /\ is_active
    /\ Head(bulk).status = "Failed"
    /\ bulk' = Tail(bulk)
    /\ \/ auto_pause_for_transient_failure(Acked(Head(bulk).seq)) /\ auto_pending_goal_request' = FALSE
       \/ auto_stop(Acked(Head(bulk).seq))
    /\ UNCHANGED <<review_flow, countdowns, sessionVars>>

\* A command goes to the session; without one the host is Active, run or no run.
auto_handle_user_reply ==
    /\ Receive("UserReply")
    /\ bulk' = Tail(bulk)
    /\ IF Head(bulk).cli
       THEN /\ Submit("turn")
            /\ phase' = IF phase = "PausedManual" THEN "AwaitingNothing" ELSE phase
       ELSE phase' = "Active" /\ UNCHANGED sessionVars
    /\ UNCHANGED <<continue_mode, draftVars, retryVars, pending_stop_message, current_cli_prompt,
                   auto_handle, auto_pending_goal_request, review_flow, coordVars, timerVars>>

Expected(e) == phase = "TransientRecovery" /\ pending_restart = [token |-> e.token, attempt |-> e.attempt]

\* The run starts again with its goal; attempts and the stop message survive.
auto_handle_restart ==
    /\ Receive("Restart")
    /\ Expected(Head(bulk))
    /\ \/ /\ runs < MaxRuns
          /\ runs' = runs + 1
          /\ coord' = Append(Cancelled(coord), NewCoordinator(TRUE))
          /\ auto_handle' = runs + 1
          /\ bulk' = Append(Tail(bulk), Decision(0, "Planning"))
          /\ Reset
          /\ phase' = "AwaitingDecision"
       \/ /\ Reset
          /\ phase' = "AwaitingGoalEntry"
          /\ bulk' = Tail(bulk)
          /\ UNCHANGED <<auto_handle, coordVars>>
    /\ UNCHANGED <<transient_restart_attempts, continue_mode, pending_stop_message,
                   auto_pending_goal_request, review_flow, timerVars, sessionVars>>

RestartIgnored ==
    /\ Receive("Restart")
    /\ ~Expected(Head(bulk))
    /\ bulk' = Tail(bulk)
    /\ UNCHANGED <<hostVars, coordVars, timerVars, sessionVars>>

\* on_error: whatever an active run was doing, it is paused, unless the message reads
\* like an error the core retries, which is only displayed.
on_error ==
    /\ Receive("Error")
    /\ bulk' = Tail(bulk)
    /\ \/ is_active /\ auto_pause_for_transient_failure(coord)
       \/ UNCHANGED <<controllerVars, auto_handle, coordVars, restarts>>
    /\ UNCHANGED <<auto_pending_goal_request, review_flow, countdowns, sessionVars>>

\* Without a pending stop message an answer is only displayed.
insert_final_answer ==
    /\ Receive("Answer")
    /\ bulk' = Tail(bulk)
    /\ \/ /\ ~pending_stop_message
          /\ UNCHANGED <<controllerVars, auto_handle, auto_pending_goal_request, coordVars,
                         restarts>>
       \/ /\ pending_stop_message
          /\ Head(bulk).verdict = "incomplete"
          /\ auto_send_conversation("Active", FALSE, auto_pending_goal_request)
       \/ /\ pending_stop_message
          /\ Head(bulk).verdict = "stop"
          /\ auto_stop(coord)
    /\ UNCHANGED <<review_flow, countdowns, sessionVars>>

\* auto_on_turn_complete, when the session is quiescent.  In a review flow the run
\* waits for the review if it gets the lock.
auto_on_turn_complete ==
    /\ Receive("Quiescent")
    /\ phase = "AwaitingResponse"
    /\ bulk' = Tail(bulk)
    /\ \/ /\ review_flow
          /\ phase' = "AwaitingReview"
          /\ UNCHANGED <<continue_mode, draftVars, retryVars, pending_stop_message,
                         current_cli_prompt, auto_handle, auto_pending_goal_request, coordVars,
                         restarts>>
       \/ auto_send_conversation("Active", pending_stop_message, auto_pending_goal_request)
    /\ UNCHANGED <<review_flow, countdowns, sessionVars>>

QuiescentIgnored ==
    /\ Receive("Quiescent")
    /\ phase # "AwaitingResponse"
    /\ bulk' = Tail(bulk)
    /\ UNCHANGED <<hostVars, coordVars, timerVars, sessionVars>>

\* on_begin_review: the run waits, or is Active where the lock is taken - by another
\* process, or by this review itself.
EnteredReviewMode ==
    /\ Receive("Entered")
    /\ bulk' = Tail(bulk)
    /\ review_flow' = TRUE
    /\ IF is_active THEN phase' \in {"AwaitingReview", "Active"} ELSE UNCHANGED phase
    /\ UNCHANGED <<continue_mode, draftVars, retryVars, pending_stop_message, current_cli_prompt,
                   auto_handle, auto_pending_goal_request, coordVars, timerVars, sessionVars>>

\* maybe_resume_auto_after_review
ExitedReviewMode ==
    /\ Receive("Exited")
    /\ bulk' = Tail(bulk)
    /\ review_flow' = FALSE
    /\ IF phase = "AwaitingReview"
       THEN auto_send_conversation("Active", pending_stop_message, auto_pending_goal_request)
       ELSE UNCHANGED <<controllerVars, auto_handle, auto_pending_goal_request, coordVars,
                        restarts>>
    /\ UNCHANGED <<countdowns, sessionVars>>

HandleEvent ==
    \/ DecisionIgnored \/ DecisionPlanning \/ DecisionContinue \/ DecisionSuccess \/ DecisionFailed
    \/ auto_handle_user_reply \/ auto_handle_restart \/ RestartIgnored \/ on_error
    \/ insert_final_answer \/ auto_on_turn_complete \/ QuiescentIgnored
    \/ EnteredReviewMode \/ ExitedReviewMode

-----------------------------------------------------------------------------
(* Timers *)

Live(c) == phase = "AwaitingCoordinator" /\ c.id = countdown_id

\* handle_countdown_tick at zero.  The tick has no run and the decision it is compared
\* with is the controller's own: the id alone tells countdowns apart.
CountdownSubmits(c) ==
    /\ c \in countdowns
    /\ Live(c)
    /\ countdowns' = countdowns \ {c}
    /\ auto_submit_prompt
    /\ UNCHANGED <<review_flow, bulk, inputs>>

\* auto_schedule_restart_event: the backoff is over.
RestartTimer(t) ==
    /\ t \in restarts
    /\ restarts' = restarts \ {t}
    /\ bulk' = Append(bulk, Restart(t))
    /\ UNCHANGED <<hostVars, coordVars, countdowns, sessionVars, inputs>>

Timers ==
    \/ \E c \in countdowns : CountdownSubmits(c)
    \/ \E t \in restarts : RestartTimer(t)

-----------------------------------------------------------------------------
(* The coordinators *)

Thread == UNCHANGED <<hostVars, runs, timerVars, sessionVars, inputs>>

\* The turn cap turns the last Continue into a failure; a failure ends the thread.  The
\* request may have been under way when the run was cancelled.
CoordDecide(r, status) ==
    /\ coord[r].live
    /\ coord[r].gate = None
    /\ coord[r].work > 0
    /\ status = "Continue" => coord[r].seq + 1 < MaxTurns
    /\ status = "Success" => coord[r].seq < MaxSuccess
    /\ coord' = [coord EXCEPT ![r].work = @ - 1, ![r].seq = @ + 1, ![r].gate = coord[r].seq + 1,
                              ![r].live = (status # "Failed")]
    /\ bulk' = Append(bulk, Decision(coord[r].seq + 1, status))
    /\ Thread

\* Mutant of CoordReply: the conversation is not decided on after a command.
CoordReplyOnly(r, cli) ==
    /\ coord[r].live
    /\ coord[r].prompts > 0
    /\ coord' = [coord EXCEPT ![r].prompts = @ - 1]
    /\ bulk' = Append(bulk, UserReply(cli))
    /\ Thread

\* A user prompt is answered with or without a command; its conversation is decided on
\* next unless the request failed.
CoordReply(r, cli) ==
    /\ coord[r].live
    /\ coord[r].prompts > 0
    /\ \E more \in IF cli THEN {1} ELSE {0, 1} :
           coord' = [coord EXCEPT ![r].prompts = @ - 1, ![r].work = @ + more]
    /\ bulk' = Append(bulk, UserReply(cli))
    /\ Thread

CoordStep(r) ==
    \/ \E status \in {"Continue", "Success", "Failed"} : CoordDecide(r, status)
    \/ \E cli \in BOOLEAN : CoordReply(r, cli)

-----------------------------------------------------------------------------
(* The session *)

Session == UNCHANGED <<hostVars, coordVars, timerVars>>

\* The task ends.  Queued input was taken up by it or starts the next task.
NextTask ==
    /\ task' \in {queued, None}
    /\ queued' = None

\* A task ends with its answer; only a diagnostics turn was asked for a verdict.  The
\* handler of AgentMessage sends the answer through the channel once more, so that it
\* comes before the quiescent event or behind it.
SessionQuiescent(v) ==
    /\ task \in {"turn", "diagnostics"}
    /\ task = "turn" => v = "stop"
    /\ NextTask
    /\ bulk' \in {bulk \o <<Answer(v), Event("Quiescent")>>, bulk \o <<Event("Quiescent"), Answer(v)>>}
    /\ Session
    /\ UNCHANGED inputs

SessionFails ==
    /\ task \in {"turn", "diagnostics"}
    /\ Input
    /\ NextTask
    /\ bulk' = bulk \o <<Event("Error"), Event("Quiescent")>>
    /\ Session

SessionReviewed ==
    /\ task = "review"
    /\ NextTask
    /\ bulk' = bulk \o <<Event("Exited"), Event("Quiescent")>>
    /\ Session
    /\ UNCHANGED inputs

SessionEnds == (\E v \in Verdicts : SessionQuiescent(v)) \/ SessionReviewed

-----------------------------------------------------------------------------
Next ==
    \/ User
    \/ HandleEvent
    \/ Timers
    \/ \E r \in 1 .. runs : CoordStep(r)
    \/ SessionEnds
    \/ SessionFails

Spec == Init /\ [][Next]_vars

\* The app's loop, the timers, the coordinators and the session all run; the user
\* need not do anything.
FairSpec ==
    /\ Spec
    /\ WF_vars(HandleEvent)
    /\ WF_vars(Timers)
    /\ \A r \in Runs : WF_vars(r = auto_handle /\ CoordStep(r))
    /\ WF_vars(SessionEnds)

-----------------------------------------------------------------------------
(* Properties *)

\* Only the coordinator of the handle is left running by the host, and a host without
\* a run has no coordinator: every path that lets go of a handle cancels it.
OneCoordinator ==
    /\ \A r \in 1 .. runs : r # auto_handle => coord[r].cancelled
    /\ auto_handle # None => is_active /\ ~coord[auto_handle].cancelled

\* Within a run a countdown never submits a draft other than the one it was started
\* for, although edits, mode changes, replies and later decisions overtake it.
TickSubmitsItsDraft ==
    \A c \in countdowns : c.run = auto_handle /\ Live(c) => c.draft = draft

\* A paused run has no coordinator, and the restart it expects is on its way: its timer
\* runs or its event is in the channel, with the token and the attempt to match.
PausedHasRestart ==
    phase = "TransientRecovery" =>
        /\ auto_handle = None
        /\ pending_restart # None
        /\ pending_restart \in restarts \/ \E i \in DOMAIN bulk : bulk[i] = Restart(pending_restart)

InBulk(e) == \E i \in 1 .. Len(bulk) : bulk[i] = e

\* A decision or a reply that ends the wait is in the channel, or the coordinator of the
\* handle is alive, has something to decide on or to answer, and waits for no ack.
DecisionOnTheWay ==
    \/ \E i \in 1 .. Len(bulk) : bulk[i].kind = "Decision"
    \/ InBulk(UserReply(FALSE))
    \/ /\ auto_handle # None
       /\ coord[auto_handle].live
       /\ coord[auto_handle].prompts > 0 \/ (coord[auto_handle].work > 0 /\ coord[auto_handle].gate = None)

\* Whatever the host waits for is on its way or will be sent: replies, errors, reviews
\* and decisions of an earlier run never leave it in a phase nobody will end.
WaitCovered ==
    /\ phase = "AwaitingDecision" => DecisionOnTheWay
    /\ phase = "AwaitingResponse" => task # None \/ InBulk(Event("Quiescent"))
    /\ phase = "AwaitingReview" => task = "review" \/ InBulk(Event("Exited"))

\* The host waits for its coordinator, the session, a review or a restart, and every
\* such wait ends, without the user and whatever overtakes it.
WaitsEnd ==
    \A p \in {"AwaitingDecision", "AwaitingResponse", "AwaitingReview", "TransientRecovery"} :
        phase = p ~> phase # p

\* A paused run is started again or is over: the pause says "Auto Drive will retry
\* automatically".
RetriesOrStops ==
    \A n \in Runs : (phase = "TransientRecovery" /\ runs = n) ~> (runs > n \/ ~is_active)
=============================================================================
