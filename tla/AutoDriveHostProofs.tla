------------------------ MODULE AutoDriveHostProofs ------------------------
(***************************************************************************)
(* The terminal UI as host of Auto Drive: who may be left running, that a  *)
(* paused run is on its way to a restart, and that a countdown submits its *)
(* own draft, for every number of runs, turns and inputs.                  *)
(***************************************************************************)
EXTENDS AutoDriveHost, SequenceTheorems, TLAPS

USE NoneAssumption, RoutingAssumption, BoundsAssumption

RestartIds == [token : Nat, attempt : Nat]

\* The types the arguments below need.
Shape ==
    /\ runs \in Nat
    /\ coord \in [1 .. runs -> Coordinators]
    /\ auto_handle \in (1 .. runs) \union {None}
    /\ bulk \in Seq(Events)
    /\ restart_token \in Nat
    /\ transient_restart_attempts \in Nat
    /\ pending_restart \in RestartIds \union {None}
    /\ restarts \subseteq RestartIds

\* A countdown of the run never has a later id than the draft that waits, and one with
\* its id was started for it.
Ticks ==
    /\ countdown_id \in Nat
    /\ \A c \in countdowns :
          /\ c.run \in Nat /\ c.run <= runs /\ c.id \in Nat
          /\ c.run = auto_handle => c.id <= countdown_id /\ (c.id = countdown_id => c.draft = draft)

HostInv == Shape /\ OneCoordinator /\ PausedHasRestart /\ Ticks

-----------------------------------------------------------------------------
(* Coordinators.                                                            *)

\* The coordinators c are those of coord, with the same ones cancelled.
Kin(c) == c \in [1 .. runs -> Coordinators] /\ \A r \in 1 .. runs : c[r].cancelled = coord[r].cancelled

LEMMA OneChanged ==
    ASSUME NEW c \in [1 .. runs -> Coordinators], NEW r \in 1 .. runs, NEW new \in Coordinators
    PROVE  /\ [c EXCEPT ![r] = new] \in [1 .. runs -> Coordinators]
           /\ [c EXCEPT ![r] = new][r] = new
           /\ \A q \in 1 .. runs : q # r => [c EXCEPT ![r] = new][q] = c[q]
OBVIOUS

LEMMA AckedKin ==
    ASSUME Shape, NEW seq
    PROVE  Kin(coord) /\ Kin(Acked(seq))
<1>1. Kin(coord) BY DEF Shape, Kin
<1>2. CASE auto_handle # None /\ coord[auto_handle].gate = seq
  <2>1. Acked(seq) = [coord EXCEPT ![auto_handle].gate = None] BY <1>2 DEF Acked
  <2>2. auto_handle \in 1 .. runs BY <1>2 DEF Shape
  <2>3. coord[auto_handle] \in Coordinators BY <2>2 DEF Shape
  <2> DEFINE new == [coord[auto_handle] EXCEPT !.gate = None]
  <2>4. new \in Coordinators /\ new.cancelled = coord[auto_handle].cancelled
    BY <2>3 DEF Coordinators
  <2>5. Acked(seq) = [coord EXCEPT ![auto_handle] = new] BY <2>1
  <2> HIDE DEF new
  <2> QED BY <1>1, <2>2, <2>4, <2>5, OneChanged DEF Kin
<1>3. CASE ~(auto_handle # None /\ coord[auto_handle].gate = seq) BY <1>1, <1>3 DEF Acked
<1> QED BY <1>1, <1>2, <1>3

\* Once the handle is taken every coordinator is cancelled.
LEMMA AllCancelled ==
    ASSUME Shape, OneCoordinator, NEW c, Kin(c)
    PROVE  /\ Cancelled(c) \in [1 .. runs -> Coordinators]
           /\ \A r \in 1 .. runs : Cancelled(c)[r].cancelled
<1>1. CASE auto_handle = None BY <1>1 DEF Cancelled, Shape, OneCoordinator, Kin
<1>2. CASE auto_handle # None
  <2>1. Cancelled(c) = [c EXCEPT ![auto_handle].cancelled = TRUE] BY <1>2 DEF Cancelled
  <2>2. auto_handle \in 1 .. runs BY <1>2 DEF Shape
  <2>3. c[auto_handle] \in Coordinators BY <2>2 DEF Kin
  <2> DEFINE new == [c[auto_handle] EXCEPT !.cancelled = TRUE]
  <2>4. new \in Coordinators /\ new.cancelled BY <2>3 DEF Coordinators
  <2>5. Cancelled(c) = [c EXCEPT ![auto_handle] = new] BY <2>1
  <2>6. \A r \in 1 .. runs : r # auto_handle => c[r].cancelled BY DEF Kin, OneCoordinator
  <2> HIDE DEF new
  <2> QED BY <2>2, <2>4, <2>5, <2>6, OneChanged DEF Kin
<1> QED BY <1>1, <1>2

CoordPart ==
    /\ runs \in Nat
    /\ coord \in [1 .. runs -> Coordinators]
    /\ auto_handle \in (1 .. runs) \union {None}
    /\ OneCoordinator

\* The coordinators go on as they are.
LEMMA CoordKept ==
    ASSUME HostInv, Kin(coord'), runs' = runs, auto_handle' = auto_handle,
           auto_handle # None => phase' \notin Inactive
    PROVE  CoordPart'
BY DEF HostInv, Shape, OneCoordinator, CoordPart, Kin, is_active

\* The handle is taken and its coordinator cancelled.
LEMMA CoordTaken ==
    ASSUME HostInv, NEW c, Kin(c), coord' = Cancelled(c), runs' = runs, auto_handle' = None
    PROVE  CoordPart'
<1>1. Shape /\ OneCoordinator BY DEF HostInv
<1> QED BY <1>1, AllCancelled DEF Shape, OneCoordinator, CoordPart

\* A new coordinator takes over.
LEMMA CoordStarted ==
    ASSUME HostInv, NEW seeded \in BOOLEAN, coord' = Append(Cancelled(coord), NewCoordinator(seeded)),
           runs' = runs + 1, auto_handle' = runs + 1, phase' \notin Inactive
    PROVE  CoordPart'
<1>1. Shape /\ OneCoordinator /\ runs \in Nat BY DEF HostInv, Shape
<1> DEFINE old == Cancelled(coord)
<1>2. old \in [1 .. runs -> Coordinators] /\ \A r \in 1 .. runs : old[r].cancelled
  BY <1>1, AckedKin, AllCancelled
<1>3. NewCoordinator(seeded) \in Coordinators /\ ~NewCoordinator(seeded).cancelled
  BY DEF NewCoordinator, Coordinators
<1> HIDE DEF old
<1>4. old \in Seq(Coordinators) /\ Len(old) = runs BY <1>1, <1>2
<1>5. /\ coord' \in Seq(Coordinators) /\ Len(coord') = runs + 1
      /\ \A r \in 1 .. runs : coord'[r] = old[r]
      /\ coord'[runs + 1] = NewCoordinator(seeded)
  BY <1>3, <1>4 DEF old
<1>6. coord' \in [1 .. runs' -> Coordinators]
  <2>1. coord' \in [1 .. Len(coord') -> Coordinators] BY <1>5, LenProperties
  <2> QED BY <1>5, <2>1
<1>7. \A r \in 1 .. runs' : r \in 1 .. runs \/ r = runs + 1 BY <1>1
<1>8. OneCoordinator'
  <2>1. \A r \in 1 .. runs' : r # auto_handle' => coord'[r].cancelled BY <1>2, <1>5, <1>7
  <2>2. auto_handle' # None /\ ~coord'[auto_handle'].cancelled BY <1>3, <1>5
  <2> QED BY <2>1, <2>2 DEF OneCoordinator, is_active
<1>9. runs' \in Nat /\ auto_handle' \in 1 .. runs' BY <1>1
<1> QED BY <1>6, <1>8, <1>9 DEF CoordPart

\* A coordinator's own step, or a message to it, cancels nobody.
LEMMA StepKin ==
    ASSUME Shape, NEW r \in 1 .. runs, NEW new \in Coordinators,
           new.cancelled = coord[r].cancelled
    PROVE  Kin([coord EXCEPT ![r] = new])
BY OneChanged DEF Shape, Kin

LEMMA SentKin ==
    ASSUME Shape, NEW r \in 1 .. runs, NEW n \in Nat
    PROVE  /\ Kin([coord EXCEPT ![r].work = @ + n]) /\ Kin([coord EXCEPT ![r].prompts = @ + n])
<1>1. coord[r] \in Coordinators BY DEF Shape
<1>2. coord[r].work + n \in Nat /\ coord[r].prompts + n \in Nat BY <1>1 DEF Coordinators
<1>3. /\ [coord[r] EXCEPT !.work = @ + n] \in Coordinators
      /\ [coord[r] EXCEPT !.work = @ + n].cancelled = coord[r].cancelled
      /\ [coord[r] EXCEPT !.prompts = @ + n] \in Coordinators
      /\ [coord[r] EXCEPT !.prompts = @ + n].cancelled = coord[r].cancelled
  BY <1>1, <1>2 DEF Coordinators
<1> QED BY <1>3, StepKin

\* The parts of the handlers that touch coordinators.
LEMMA StopCoord ==
    ASSUME HostInv, NEW c, Kin(c), auto_stop(c)
    PROVE  CoordPart'
BY CoordTaken DEF auto_stop

LEMMA PauseCoord ==
    ASSUME HostInv, NEW c, Kin(c), auto_pause_for_transient_failure(c)
    PROVE  CoordPart'
BY CoordTaken DEF auto_pause_for_transient_failure

LEMMA ConversationCoord ==
    ASSUME HostInv, NEW idle, NEW message, NEW request, auto_send_conversation(idle, message, request)
    PROVE  CoordPart'
<1>s. Shape BY DEF HostInv
<1>k. Kin(coord) BY <1>s, AckedKin
<1>1. CASE auto_handle = None
  <2>1. coord' = coord /\ runs' = runs /\ auto_handle' = auto_handle
    BY <1>1 DEF auto_send_conversation, coordVars
  <2> QED BY <1>1, <1>k, <2>1, CoordKept
<1>2. CASE auto_handle # None /\ coord[auto_handle].live
  <2>1. /\ coord' = [coord EXCEPT ![auto_handle].work = @ + 1]
        /\ runs' = runs /\ auto_handle' = auto_handle /\ phase' = "AwaitingDecision"
    BY <1>2 DEF auto_send_conversation
  <2>2. auto_handle \in 1 .. runs BY <1>2, <1>s DEF Shape
  <2>3. Kin(coord') BY <1>s, <2>1, <2>2, SentKin
  <2> QED BY <2>1, <2>3, CoordKept DEF Inactive
<1>3. CASE auto_handle # None /\ ~coord[auto_handle].live
  <2>1. auto_stop(coord) BY <1>3 DEF auto_send_conversation
  <2> QED BY <1>k, <2>1, StopCoord
<1> QED BY <1>1, <1>2, <1>3

LEMMA SubmitCoord ==
    ASSUME HostInv, auto_submit_prompt
    PROVE  CoordPart'
<1>s. Kin(coord) BY AckedKin DEF HostInv
<1>1. CASE \E m, n : auto_send_conversation(phase, m, n) BY <1>1, ConversationCoord
<1>2. CASE auto_stop(coord) BY <1>2, <1>s, StopCoord
<1>3. CASE auto_dispatch_cli_prompt("turn") /\ UNCHANGED <<auto_handle, coordVars>>
  BY <1>3, <1>s, CoordKept DEF auto_dispatch_cli_prompt, coordVars, Inactive
<1> QED BY <1>1, <1>2, <1>3 DEF auto_submit_prompt

LEMMA UserCoord ==
    ASSUME HostInv, User
    PROVE  CoordPart'
<1>s. Shape /\ OneCoordinator BY DEF HostInv
<1>k. Kin(coord) BY <1>s, AckedKin
<1>a. auto_handle # None => phase \notin Inactive BY <1>s DEF OneCoordinator, is_active
<1>1. CASE Launch
  <2>1. CASE Start(TRUE) /\ phase' = "AwaitingDecision"
    BY <2>1, CoordStarted DEF Start, Inactive
  <2>2. CASE launch_failed BY <2>2, <1>k, CoordTaken DEF launch_failed
  <2> QED BY <1>1, <2>1, <2>2 DEF Launch
<1>2. CASE Bootstrap
  <2>1. CASE BootstrapStarts BY <2>1, CoordStarted DEF BootstrapStarts, Start, Inactive
  <2>2. CASE launch_failed BY <2>2, <1>k, CoordTaken DEF launch_failed
  <2> QED BY <1>2, <2>1, <2>2 DEF Bootstrap
<1>3. CASE EscStop BY <1>3, <1>k, StopCoord DEF EscStop
<1>4. CASE PressEnter BY <1>4, SubmitCoord DEF PressEnter
<1>5. CASE auto_pause_for_manual_edit
  BY <1>5, <1>k, CoordKept DEF auto_pause_for_manual_edit, coordVars, Inactive
<1>6. CASE \E mode \in Modes : update_continue_mode(mode)
  BY <1>6, <1>a, <1>k, CoordKept DEF update_continue_mode
<1>7. CASE submit_user_message
  <2>1. runs' = runs /\ auto_handle' = auto_handle BY <1>7 DEF submit_user_message
  <2>2. CASE Routed
    <3>1. /\ coord' = [coord EXCEPT ![auto_handle].prompts = @ + 1]
          /\ phase' = "AwaitingDecision"
      BY <1>7, <2>2 DEF submit_user_message
    <3>2. auto_handle \in 1 .. runs BY <2>2, <1>s DEF Shape, Routed
    <3>3. Kin(coord') BY <1>s, <3>1, <3>2, SentKin
    <3> QED BY <2>1, <3>1, <3>3, CoordKept DEF Inactive
  <2>3. CASE ~Routed
    <3>1. coord' = coord /\ phase' \in {phase, "AwaitingNothing"}
      BY <1>7, <2>3 DEF submit_user_message
    <3> QED BY <1>a, <1>k, <2>1, <3>1, CoordKept DEF Inactive
  <2> QED BY <2>2, <2>3
<1>8. CASE begin_review
  BY <1>8, <1>a, <1>k, CoordKept DEF begin_review, hostVars, controllerVars, coordVars
<1> QED BY <1>1, <1>2, <1>3, <1>4, <1>5, <1>6, <1>7, <1>8 DEF User

LEMMA HandlerCoord ==
    ASSUME HostInv, HandleEvent
    PROVE  CoordPart'
<1>s. Shape /\ OneCoordinator BY DEF HostInv
<1>k. Kin(coord) /\ \A seq : Kin(Acked(seq)) BY <1>s, AckedKin
<1>a. auto_handle # None => phase \notin Inactive BY <1>s DEF OneCoordinator, is_active
<1>1. CASE DecisionIgnored
  BY <1>1, <1>a, <1>k, CoordKept DEF DecisionIgnored, hostVars, controllerVars
<1>2. CASE DecisionPlanning
  BY <1>2, <1>k, CoordKept DEF DecisionPlanning, auto_dispatch_cli_prompt, Inactive
<1>3. CASE DecisionContinue BY <1>3, <1>k, CoordKept DEF DecisionContinue, Inactive
<1>4. CASE DecisionSuccess
  BY <1>4, <1>k, CoordKept DEF DecisionSuccess, auto_dispatch_cli_prompt, Inactive
<1>5. CASE DecisionFailed BY <1>5, <1>k, StopCoord, PauseCoord DEF DecisionFailed
<1>6. CASE auto_handle_user_reply
  <2>1. coord' = coord /\ runs' = runs /\ auto_handle' = auto_handle
    BY <1>6 DEF auto_handle_user_reply, coordVars
  <2>2. phase' \in {phase, "AwaitingNothing", "Active"} BY <1>6 DEF auto_handle_user_reply
  <2> QED BY <1>a, <1>k, <2>1, <2>2, CoordKept DEF Inactive
<1>7. CASE auto_handle_restart
  <2>1. CASE /\ runs' = runs + 1 /\ coord' = Append(Cancelled(coord), NewCoordinator(TRUE))
             /\ auto_handle' = runs + 1 /\ phase' = "AwaitingDecision"
    BY <2>1, CoordStarted DEF Inactive
  <2>2. CASE UNCHANGED <<auto_handle, coordVars>>
    <3>1. auto_handle = None
      BY <1>7 DEF auto_handle_restart, Expected, HostInv, PausedHasRestart
    <3> QED BY <1>k, <2>2, <3>1, CoordKept DEF coordVars
  <2> QED BY <1>7, <2>1, <2>2 DEF auto_handle_restart
<1>8. CASE RestartIgnored \/ QuiescentIgnored
  BY <1>8, <1>a, <1>k, CoordKept DEF RestartIgnored, QuiescentIgnored, hostVars, controllerVars,
                                     coordVars
<1>9. CASE on_error
  <2>1. CASE auto_pause_for_transient_failure(coord) BY <1>9, <1>k, <2>1, PauseCoord DEF on_error
  <2>2. CASE UNCHANGED <<controllerVars, auto_handle, coordVars, restarts>>
    BY <1>9, <1>a, <1>k, <2>2, CoordKept DEF on_error, controllerVars, coordVars
  <2> QED BY <1>9, <2>1, <2>2 DEF on_error
<1>10. CASE insert_final_answer
  <2>1. CASE UNCHANGED <<controllerVars, auto_handle, coordVars>>
    BY <2>1, <1>a, <1>k, CoordKept DEF controllerVars, coordVars
  <2>2. CASE auto_send_conversation("Active", FALSE, auto_pending_goal_request)
    BY <2>2, ConversationCoord
  <2>3. CASE auto_stop(coord) BY <2>3, <1>k, StopCoord
  <2> QED BY <1>10, <2>1, <2>2, <2>3 DEF insert_final_answer
<1>11. CASE auto_on_turn_complete
  <2>1. CASE phase' = "AwaitingReview" /\ UNCHANGED <<auto_handle, coordVars>>
    BY <2>1, <1>k, CoordKept DEF coordVars, Inactive
  <2>2. CASE auto_send_conversation("Active", pending_stop_message, auto_pending_goal_request)
    BY <2>2, ConversationCoord
  <2> QED BY <1>11, <2>1, <2>2 DEF auto_on_turn_complete
<1>12. CASE EnteredReviewMode
  <2>1. phase' \in {phase, "AwaitingReview", "Active"} BY <1>12 DEF EnteredReviewMode
  <2> QED BY <1>12, <1>a, <1>k, <2>1, CoordKept DEF EnteredReviewMode, coordVars, Inactive
<1>13. CASE ExitedReviewMode
  <2>1. CASE UNCHANGED <<controllerVars, auto_handle, coordVars>>
    BY <2>1, <1>a, <1>k, CoordKept DEF controllerVars, coordVars
  <2>2. CASE auto_send_conversation("Active", pending_stop_message, auto_pending_goal_request)
    BY <2>2, ConversationCoord
  <2> QED BY <1>13, <2>1, <2>2 DEF ExitedReviewMode
<1> QED
  BY <1>1, <1>2, <1>3, <1>4, <1>5, <1>6, <1>7, <1>8, <1>9, <1>10, <1>11, <1>12, <1>13
     DEF HandleEvent

LEMMA OtherCoord ==
    ASSUME HostInv,
           Timers \/ (\E r \in 1 .. runs : CoordStep(r)) \/ SessionEnds \/ SessionFails
    PROVE  CoordPart'
<1>s. Shape /\ OneCoordinator BY DEF HostInv
<1>k. Kin(coord) BY <1>s, AckedKin
<1>a. auto_handle # None => phase \notin Inactive BY <1>s DEF OneCoordinator, is_active
<1>1. ASSUME NEW c \in countdowns, CountdownSubmits(c) PROVE CoordPart'
  BY <1>1, SubmitCoord DEF CountdownSubmits
<1>2. ASSUME NEW u \in restarts, RestartTimer(u) PROVE CoordPart'
  BY <1>2, <1>a, <1>k, CoordKept DEF RestartTimer, hostVars, controllerVars, coordVars
<1>3. ASSUME NEW r \in 1 .. runs, CoordStep(r) PROVE CoordPart'
  <2>1. runs' = runs /\ auto_handle' = auto_handle /\ phase' = phase
    BY <1>3 DEF CoordStep, CoordDecide, CoordReply, Thread, hostVars, controllerVars
  <2>2. coord[r] \in Coordinators BY <1>s DEF Shape
  <2>3. ASSUME NEW status, CoordDecide(r, status) PROVE Kin(coord')
    <3> DEFINE new == [coord[r] EXCEPT !.work = @ - 1, !.seq = @ + 1, !.gate = coord[r].seq + 1,
                                       !.live = (status # "Failed")]
    <3>1. coord[r].work - 1 \in Nat /\ coord[r].seq + 1 \in Nat
      BY <2>2, <2>3 DEF CoordDecide, Coordinators
    <3>2. new \in Coordinators /\ new.cancelled = coord[r].cancelled
      BY <2>2, <3>1 DEF Coordinators
    <3>3. coord' = [coord EXCEPT ![r] = new] BY <2>3 DEF CoordDecide
    <3> HIDE DEF new
    <3> QED BY <1>s, <3>2, <3>3, StepKin
  <2>4. ASSUME NEW cli, CoordReply(r, cli) PROVE Kin(coord')
    <3>1. PICK more \in {0, 1} :
             coord' = [coord EXCEPT ![r].prompts = @ - 1, ![r].work = @ + more]
      BY <2>4 DEF CoordReply
    <3> DEFINE new == [coord[r] EXCEPT !.prompts = @ - 1, !.work = @ + more]
    <3>2. coord[r].prompts - 1 \in Nat /\ coord[r].work + more \in Nat
      BY <2>2, <2>4 DEF CoordReply, Coordinators
    <3>3. new \in Coordinators /\ new.cancelled = coord[r].cancelled
      BY <2>2, <3>2 DEF Coordinators
    <3>4. coord' = [coord EXCEPT ![r] = new] BY <3>1
    <3> HIDE DEF new
    <3> QED BY <1>s, <3>3, <3>4, StepKin
  <2>5. Kin(coord') BY <1>3, <2>3, <2>4 DEF CoordStep
  <2> QED BY <1>a, <2>1, <2>5, CoordKept
<1>4. CASE SessionEnds \/ SessionFails
  <2>1. coord' = coord /\ runs' = runs /\ auto_handle' = auto_handle /\ phase' = phase
    BY <1>4 DEF SessionEnds, SessionQuiescent, SessionReviewed, SessionFails, Session, hostVars,
                controllerVars, coordVars
  <2> QED BY <1>a, <1>k, <2>1, CoordKept
<1> QED BY <1>1, <1>2, <1>3, <1>4 DEF Timers

-----------------------------------------------------------------------------
(* The event channel.                                                       *)

Has(q, e) == \E j \in 1 .. Len(q) : q[j] = e

\* Nothing is lost from the channel, or nothing but its first event.
Grows == bulk' \in Seq(Events) /\ \A i \in 1 .. Len(bulk) : Has(bulk', bulk[i])
Consumes == bulk' \in Seq(Events) /\ \A i \in 1 .. Len(bulk) : i # 1 => Has(bulk', bulk[i])

LEMMA Appended ==
    ASSUME NEW q \in Seq(Events), NEW e \in Events
    PROVE  /\ Append(q, e) \in Seq(Events) /\ Has(Append(q, e), e)
           /\ \A i \in 1 .. Len(q) : Has(Append(q, e), q[i])
<1>1. Append(q, e) \in Seq(Events) /\ Len(Append(q, e)) = Len(q) + 1 /\ Len(q) \in Nat OBVIOUS
<1>2. \A i \in 1 .. Len(q) : Append(q, e)[i] = q[i] OBVIOUS
<1>3. Append(q, e)[Len(q) + 1] = e OBVIOUS
<1> QED BY <1>1, <1>2, <1>3 DEF Has

LEMMA Taken ==
    ASSUME NEW q \in Seq(Events), q # <<>>
    PROVE  /\ Tail(q) \in Seq(Events) /\ Head(q) \in Events /\ Head(q) = q[1]
           /\ \A i \in 1 .. Len(q) : i # 1 => Has(Tail(q), q[i])
<1>1. Tail(q) \in Seq(Events) /\ Len(Tail(q)) = Len(q) - 1 /\ Head(q) \in Events /\ Head(q) = q[1]
      /\ Len(q) \in Nat
  OBVIOUS
<1>2. \A i \in 1 .. Len(q) : i # 1 => i - 1 \in 1 .. Len(Tail(q)) /\ Tail(q)[i - 1] = q[i]
  OBVIOUS
<1> QED BY <1>1, <1>2 DEF Has

LEMMA Sent1 == ASSUME Shape, NEW e \in Events, bulk' = Append(bulk, e) PROVE Grows
BY Appended DEF Shape, Grows

LEMMA Sent0 == ASSUME Shape, bulk' = bulk PROVE Grows
BY DEF Shape, Grows, Has

LEMMA Sent2 ==
    ASSUME Shape, NEW a \in Events, NEW b \in Events, bulk' = bulk \o <<a, b>>
    PROVE  Grows
<1>1. bulk' = Append(Append(bulk, a), b) BY DEF Shape
<1>2. Append(bulk, a) \in Seq(Events) /\ \A i \in 1 .. Len(bulk) : Has(Append(bulk, a), bulk[i])
  BY Appended DEF Shape
<1>3. bulk' \in Seq(Events)
      /\ \A i \in 1 .. Len(Append(bulk, a)) : Has(bulk', Append(bulk, a)[i])
  BY <1>1, <1>2, Appended
<1> QED BY <1>2, <1>3 DEF Grows, Has

LEMMA EventsTyped ==
    /\ \A seq \in Nat : \A status \in {"Planning", "Continue", "Success", "Failed"} :
          Decision(seq, status) \in Events
    /\ \A cli \in BOOLEAN : UserReply(cli) \in Events
    /\ \A u \in RestartIds : Restart(u) \in Events
    /\ \A v \in Verdicts : Answer(v) \in Events
    /\ \A kind \in {"Error", "Quiescent", "Entered", "Exited"} : Event(kind) \in Events
BY DEF Decision, UserReply, Restart, Answer, Event, Events, RestartIds

LEMMA UserQueue ==
    ASSUME HostInv, User
    PROVE  Grows
<1>s. Shape BY DEF HostInv
<1>1. CASE bulk' = bulk BY <1>1, <1>s, Sent0
<1>2. CASE bulk' = Append(bulk, Decision(0, "Planning")) BY <1>2, <1>s, EventsTyped, Sent1
<1>3. CASE bulk' = Append(bulk, Event("Entered")) BY <1>3, <1>s, EventsTyped, Sent1
<1> QED
  BY <1>1, <1>2, <1>3 DEF User, Launch, Start, launch_failed, BootstrapStarts, Bootstrap, EscStop, PressEnter,
       auto_pause_for_manual_edit, update_continue_mode, submit_user_message, begin_review

LEMMA HandlerQueue ==
    ASSUME HostInv, HandleEvent
    PROVE  /\ Consumes /\ Head(bulk) = bulk[1] /\ Head(bulk) \in Events
<1>s. bulk \in Seq(Events) BY DEF HostInv, Shape
<1>1. bulk # <<>>
  BY DEF HandleEvent, DecisionIgnored, DecisionPlanning, DecisionContinue, DecisionSuccess,
         DecisionFailed, auto_handle_user_reply, auto_handle_restart, RestartIgnored, on_error,
         insert_final_answer, auto_on_turn_complete, QuiescentIgnored, EnteredReviewMode,
         ExitedReviewMode, Receive
<1>2. bulk' = Tail(bulk) \/ bulk' = Append(Tail(bulk), Decision(0, "Planning"))
  BY DEF HandleEvent, DecisionIgnored, DecisionPlanning, DecisionContinue, DecisionSuccess,
         DecisionFailed, auto_handle_user_reply, auto_handle_restart, RestartIgnored, on_error,
         insert_final_answer, auto_on_turn_complete, QuiescentIgnored, EnteredReviewMode,
         ExitedReviewMode
<1>3. /\ Tail(bulk) \in Seq(Events) /\ Head(bulk) \in Events /\ Head(bulk) = bulk[1]
      /\ \A i \in 1 .. Len(bulk) : i # 1 => Has(Tail(bulk), bulk[i])
  BY <1>1, <1>s, Taken
<1>4. CASE bulk' = Tail(bulk) BY <1>3, <1>4 DEF Consumes
<1>5. CASE bulk' = Append(Tail(bulk), Decision(0, "Planning"))
  <2>1. Decision(0, "Planning") \in Events BY EventsTyped
  <2>2. bulk' \in Seq(Events) /\ \A i \in 1 .. Len(Tail(bulk)) : Has(bulk', Tail(bulk)[i])
    BY <1>3, <1>5, <2>1, Appended
  <2> QED BY <1>3, <2>2 DEF Consumes, Has
<1> QED BY <1>2, <1>3, <1>4, <1>5

LEMMA OtherQueue ==
    ASSUME HostInv,
           Timers \/ (\E r \in 1 .. runs : CoordStep(r)) \/ SessionEnds \/ SessionFails
    PROVE  Grows
<1>s. Shape BY DEF HostInv
<1>1. ASSUME NEW c \in countdowns, CountdownSubmits(c) PROVE Grows
  BY <1>1, <1>s, Sent0 DEF CountdownSubmits
<1>2. ASSUME NEW u \in restarts, RestartTimer(u) PROVE Grows
  <2>1. Restart(u) \in Events BY <1>2, <1>s, EventsTyped DEF Shape
  <2> QED BY <1>2, <1>s, <2>1, Sent1 DEF RestartTimer
<1>3. ASSUME NEW r \in 1 .. runs, CoordStep(r) PROVE Grows
  <2>1. coord[r].seq + 1 \in Nat BY <1>s DEF Shape, Coordinators
  <2>2. ASSUME NEW status \in {"Continue", "Success", "Failed"}, CoordDecide(r, status) PROVE Grows
    <3>1. Decision(coord[r].seq + 1, status) \in Events BY <2>1, EventsTyped
    <3> QED BY <1>s, <2>2, <3>1, Sent1 DEF CoordDecide
  <2>3. ASSUME NEW cli \in BOOLEAN, CoordReply(r, cli) PROVE Grows
    <3>1. UserReply(cli) \in Events BY EventsTyped
    <3> QED BY <1>s, <2>3, <3>1, Sent1 DEF CoordReply
  <2> QED BY <1>3, <2>2, <2>3 DEF CoordStep
<1>4. CASE SessionEnds \/ SessionFails
  <2>1. ASSUME NEW v \in Verdicts, SessionQuiescent(v) PROVE Grows
    <3>1. Answer(v) \in Events /\ Event("Quiescent") \in Events BY EventsTyped
    <3> QED BY <1>s, <2>1, <3>1, Sent2 DEF SessionQuiescent
  <2>2. /\ Event("Quiescent") \in Events /\ Event("Exited") \in Events /\ Event("Error") \in Events
    BY EventsTyped
  <2>3. CASE SessionReviewed BY <1>s, <2>2, <2>3, Sent2 DEF SessionReviewed
  <2>4. CASE SessionFails BY <1>s, <2>2, <2>4, Sent2 DEF SessionFails
  <2> QED BY <1>4, <2>1, <2>3, <2>4 DEF SessionEnds
<1> QED BY <1>1, <1>2, <1>3, <1>4 DEF Timers

-----------------------------------------------------------------------------
(* Pauses and restarts.                                                     *)

RetryPart ==
    /\ restart_token \in Nat
    /\ transient_restart_attempts \in Nat
    /\ pending_restart \in RestartIds \union {None}
    /\ restarts \subseteq RestartIds
    /\ PausedHasRestart

\* The host does not pause, or leaves the pause.
LEMMA NotPaused ==
    ASSUME HostInv, phase' # "TransientRecovery", restarts' = restarts,
           restart_token' \in {restart_token, 0},
           transient_restart_attempts' \in {transient_restart_attempts, 0},
           pending_restart' \in {pending_restart, None}
    PROVE  RetryPart'
BY DEF HostInv, Shape, RetryPart, PausedHasRestart

\* A pause goes on: the restart it waits for is neither lost nor replaced.
LEMMA StillPaused ==
    ASSUME HostInv, phase' = phase, auto_handle' = auto_handle, UNCHANGED retryVars,
           restarts' = restarts, Grows \/ (Consumes /\ bulk[1] # Restart(pending_restart))
                                    \/ (Consumes /\ phase # "TransientRecovery")
    PROVE  RetryPart'
<1>1. /\ restart_token' = restart_token /\ pending_restart' = pending_restart
      /\ transient_restart_attempts' = transient_restart_attempts
  BY DEF retryVars
<1>2. CASE phase # "TransientRecovery" BY <1>1, <1>2, NotPaused
<1>3. CASE phase = "TransientRecovery"
  <2>1. /\ auto_handle = None /\ pending_restart # None
        /\ pending_restart \in restarts \/ Has(bulk, Restart(pending_restart))
    BY <1>3 DEF HostInv, Shape, PausedHasRestart, Has
  <2>2. Has(bulk, Restart(pending_restart)) => Has(bulk', Restart(pending_restart))
    BY <1>3 DEF Has, Grows, Consumes
  <2>3. bulk' \in Seq(Events) BY DEF Grows, Consumes
  <2> QED BY <1>1, <2>1, <2>2, <2>3 DEF HostInv, Shape, RetryPart, PausedHasRestart, Has
<1> QED BY <1>2, <1>3

LEMMA PauseRetry ==
    ASSUME HostInv, NEW c, auto_pause_for_transient_failure(c)
    PROVE  RetryPart'
<1>1. restart_token \in Nat /\ transient_restart_attempts \in Nat /\ restarts \subseteq RestartIds
  BY DEF HostInv, Shape
<1>2. restart_token' \in Nat /\ transient_restart_attempts' \in Nat
  BY <1>1 DEF auto_pause_for_transient_failure
<1>3. pending_restart' \in RestartIds
  BY <1>2 DEF auto_pause_for_transient_failure, RestartIds
<1>4. pending_restart' # None BY <1>3 DEF RestartIds
<1>5. restarts' = restarts \union {pending_restart'} /\ auto_handle' = None
  BY DEF auto_pause_for_transient_failure
<1> QED BY <1>1, <1>2, <1>3, <1>4, <1>5 DEF RetryPart, PausedHasRestart

LEMMA StopRetry ==
    ASSUME HostInv, NEW c, auto_stop(c)
    PROVE  RetryPart'
BY NotPaused DEF auto_stop, Reset

LEMMA ConversationRetry ==
    ASSUME HostInv, NEW idle, NEW message, NEW request, idle # "TransientRecovery",
           auto_send_conversation(idle, message, request)
    PROVE  RetryPart'
<1>1. CASE auto_stop(coord) BY <1>1, StopRetry
<1>2. CASE phase' \in {idle, "AwaitingDecision"} /\ UNCHANGED <<retryVars, restarts>>
  BY <1>2, NotPaused DEF retryVars
<1> QED BY <1>1, <1>2 DEF auto_send_conversation

LEMMA SubmitRetry ==
    ASSUME HostInv, phase = "AwaitingCoordinator", auto_submit_prompt
    PROVE  RetryPart'
<1>1. CASE \E m, n : auto_send_conversation(phase, m, n) BY <1>1, ConversationRetry
<1>2. CASE auto_stop(coord) BY <1>2, StopRetry
<1>3. CASE auto_dispatch_cli_prompt("turn") /\ UNCHANGED <<retryVars, restarts>>
  BY <1>3, NotPaused DEF auto_dispatch_cli_prompt, retryVars
<1> QED BY <1>1, <1>2, <1>3 DEF auto_submit_prompt

LEMMA UserRetry ==
    ASSUME HostInv, User
    PROVE  RetryPart'
<1>g. Grows BY UserQueue
<1>1. CASE Launch BY <1>1, NotPaused DEF Launch, launch_failed, Reset, timerVars
<1>2. CASE Bootstrap BY <1>2, NotPaused DEF Bootstrap, BootstrapStarts, launch_failed, Reset
<1>3. CASE EscStop BY <1>3, StopRetry DEF EscStop
<1>4. CASE PressEnter BY <1>4, SubmitRetry DEF PressEnter
<1>5. CASE auto_pause_for_manual_edit
  BY <1>5, NotPaused DEF auto_pause_for_manual_edit, retryVars, timerVars
<1>6. CASE \E mode \in Modes : update_continue_mode(mode)
  BY <1>6, <1>g, StillPaused DEF update_continue_mode
<1>7. CASE submit_user_message
  <2>1. UNCHANGED retryVars /\ restarts' = restarts /\ auto_handle' = auto_handle
    BY <1>7 DEF submit_user_message, timerVars
  <2>2. CASE phase' \in {"AwaitingDecision", "AwaitingNothing"} BY <2>1, <2>2, NotPaused DEF retryVars
  <2>3. CASE phase' = phase BY <1>g, <2>1, <2>3, StillPaused
  <2> QED BY <1>7, <2>2, <2>3 DEF submit_user_message
<1>8. CASE begin_review
  BY <1>8, <1>g, StillPaused DEF begin_review, hostVars, controllerVars, timerVars
<1> QED BY <1>1, <1>2, <1>3, <1>4, <1>5, <1>6, <1>7, <1>8 DEF User

LEMMA HandlerRetry ==
    ASSUME HostInv, HandleEvent
    PROVE  RetryPart'
<1>g. Consumes /\ Head(bulk) = bulk[1] /\ Head(bulk) \in Events BY HandlerQueue
<1>r. Restart(pending_restart).kind = "Restart" BY DEF Restart
<1>1. CASE DecisionIgnored
  BY <1>1, <1>g, <1>r, StillPaused DEF DecisionIgnored, Receive, hostVars, controllerVars, timerVars
<1>2. CASE DecisionPlanning
  BY <1>2, NotPaused DEF DecisionPlanning, Recovered, auto_dispatch_cli_prompt, timerVars
<1>3. CASE DecisionContinue BY <1>3, NotPaused DEF DecisionContinue, Recovered
<1>4. CASE DecisionSuccess
  BY <1>4, NotPaused DEF DecisionSuccess, Recovered, auto_dispatch_cli_prompt
<1>5. CASE DecisionFailed BY <1>5, StopRetry, PauseRetry DEF DecisionFailed
<1>6. CASE auto_handle_user_reply
  <2>1. UNCHANGED retryVars /\ restarts' = restarts /\ auto_handle' = auto_handle
    BY <1>6 DEF auto_handle_user_reply, timerVars
  <2>2. CASE phase' \in {"AwaitingNothing", "Active"} BY <2>1, <2>2, NotPaused DEF retryVars
  <2>3. CASE phase' = phase
    BY <1>6, <1>g, <1>r, <2>1, <2>3, StillPaused DEF auto_handle_user_reply, Receive
  <2> QED BY <1>6, <2>2, <2>3 DEF auto_handle_user_reply
<1>7. CASE auto_handle_restart
  BY <1>7, NotPaused DEF auto_handle_restart, Reset, timerVars
<1>8. CASE RestartIgnored
  <2>1. /\ ~Expected(Head(bulk)) /\ phase' = phase /\ auto_handle' = auto_handle
        /\ UNCHANGED retryVars /\ restarts' = restarts
    BY <1>8 DEF RestartIgnored, hostVars, controllerVars, timerVars
  <2>2. CASE phase # "TransientRecovery" BY <1>g, <2>1, <2>2, StillPaused
  <2>3. CASE phase = "TransientRecovery"
    <3>1. pending_restart \in RestartIds BY <2>3 DEF HostInv, Shape, PausedHasRestart
    <3>2. Head(bulk) # Restart(pending_restart)
      <4>1. pending_restart = [token |-> pending_restart.token, attempt |-> pending_restart.attempt]
        BY <3>1 DEF RestartIds
      <4>2. /\ Restart(pending_restart).token = pending_restart.token
            /\ Restart(pending_restart).attempt = pending_restart.attempt
        BY DEF Restart
      <4> QED BY <2>1, <2>3, <4>1, <4>2 DEF Expected
    <3> QED BY <1>g, <2>1, <3>2, StillPaused
  <2> QED BY <2>2, <2>3
<1>9. CASE QuiescentIgnored
  BY <1>9, <1>g, <1>r, StillPaused DEF QuiescentIgnored, Receive, hostVars, controllerVars, timerVars
<1>10. CASE on_error
  <2>1. CASE auto_pause_for_transient_failure(coord) BY <1>10, <2>1, PauseRetry DEF on_error
  <2>2. CASE UNCHANGED <<controllerVars, auto_handle, coordVars, restarts>>
    BY <1>10, <1>g, <1>r, <2>2, StillPaused DEF on_error, Receive, controllerVars
  <2> QED BY <1>10, <2>1, <2>2 DEF on_error
<1>11. CASE insert_final_answer
  <2>1. CASE UNCHANGED <<controllerVars, auto_handle, restarts>>
    BY <1>11, <1>g, <1>r, <2>1, StillPaused DEF insert_final_answer, Receive, controllerVars
  <2>2. CASE auto_send_conversation("Active", FALSE, auto_pending_goal_request)
    BY <2>2, ConversationRetry
  <2>3. CASE auto_stop(coord) BY <2>3, StopRetry
  <2> QED BY <1>11, <2>1, <2>2, <2>3 DEF insert_final_answer
<1>12. CASE auto_on_turn_complete
  <2>1. CASE phase' = "AwaitingReview" /\ UNCHANGED <<retryVars, restarts>>
    BY <2>1, NotPaused DEF retryVars
  <2>2. CASE auto_send_conversation("Active", pending_stop_message, auto_pending_goal_request)
    BY <2>2, ConversationRetry
  <2> QED BY <1>12, <2>1, <2>2 DEF auto_on_turn_complete
<1>13. CASE EnteredReviewMode
  <2>1. UNCHANGED retryVars /\ restarts' = restarts /\ auto_handle' = auto_handle
    BY <1>13 DEF EnteredReviewMode, timerVars
  <2>2. CASE phase' \in {"AwaitingReview", "Active"} BY <2>1, <2>2, NotPaused DEF retryVars
  <2>3. CASE phase' = phase
    BY <1>13, <1>g, <1>r, <2>1, <2>3, StillPaused DEF EnteredReviewMode, Receive
  <2> QED BY <1>13, <2>2, <2>3 DEF EnteredReviewMode
<1>14. CASE ExitedReviewMode
  <2>1. CASE UNCHANGED <<controllerVars, auto_handle, restarts>>
    BY <1>14, <1>g, <1>r, <2>1, StillPaused DEF ExitedReviewMode, Receive, controllerVars
  <2>2. CASE auto_send_conversation("Active", pending_stop_message, auto_pending_goal_request)
    BY <2>2, ConversationRetry
  <2> QED BY <1>14, <2>1, <2>2 DEF ExitedReviewMode
<1> QED
  BY <1>1, <1>2, <1>3, <1>4, <1>5, <1>6, <1>7, <1>8, <1>9, <1>10, <1>11, <1>12, <1>13, <1>14
     DEF HandleEvent

LEMMA OtherRetry ==
    ASSUME HostInv,
           Timers \/ (\E r \in 1 .. runs : CoordStep(r)) \/ SessionEnds \/ SessionFails
    PROVE  RetryPart'
<1>g. Grows BY OtherQueue
<1>1. ASSUME NEW c \in countdowns, CountdownSubmits(c) PROVE RetryPart'
  BY <1>1, SubmitRetry DEF CountdownSubmits, Live
<1>2. ASSUME NEW u \in restarts, RestartTimer(u) PROVE RetryPart'
  <2>1. /\ restarts' = restarts \ {u} /\ bulk' = Append(bulk, Restart(u)) /\ phase' = phase
        /\ auto_handle' = auto_handle /\ restart_token' = restart_token
        /\ transient_restart_attempts' = transient_restart_attempts
        /\ pending_restart' = pending_restart
    BY <1>2 DEF RestartTimer, hostVars, controllerVars, retryVars
  <2>2. Restart(u) \in Events BY <1>2, EventsTyped DEF HostInv, Shape
  <2>3. Has(bulk', Restart(u)) BY <2>1, <2>2, Appended DEF HostInv, Shape
  <2>4. ASSUME phase = "TransientRecovery"
        PROVE  pending_restart \in restarts' \/ Has(bulk', Restart(pending_restart))
    <3>1. pending_restart \in restarts \/ Has(bulk, Restart(pending_restart))
      BY <2>4 DEF HostInv, Shape, PausedHasRestart, Has
    <3>2. Has(bulk, Restart(pending_restart)) => Has(bulk', Restart(pending_restart))
      BY <1>g DEF Has, Grows
    <3> QED BY <2>1, <2>3, <3>1, <3>2
  <2>5. bulk' \in Seq(Events) BY <1>g DEF Grows
  <2> QED BY <2>1, <2>4, <2>5 DEF HostInv, Shape, RetryPart, PausedHasRestart, Has
<1>3. ASSUME NEW r \in 1 .. runs, CoordStep(r) PROVE RetryPart'
  BY <1>3, <1>g, StillPaused
     DEF CoordStep, CoordDecide, CoordReply, Thread, hostVars, controllerVars, timerVars
<1>4. CASE SessionEnds \/ SessionFails
  BY <1>4, <1>g, StillPaused DEF SessionEnds, SessionQuiescent, SessionReviewed, SessionFails,
       Session, hostVars, controllerVars, timerVars
<1> QED BY <1>1, <1>2, <1>3, <1>4 DEF Timers

-----------------------------------------------------------------------------
(* Countdowns.                                                              *)

Newest == [id |-> countdown_id, run |-> runs, draft |-> draft]

\* The draft is left alone, or the run is let go.
LEMMA TicksKept ==
    ASSUME HostInv, countdowns' \subseteq countdowns, runs' = runs,
           \/ UNCHANGED <<countdown_id, draft, auto_handle>>
           \/ auto_handle' = None /\ countdown_id' \in Nat
    PROVE  Ticks'
BY DEF HostInv, Shape, Ticks

\* A new id: no countdown started earlier has it.
LEMMA TicksRenewed ==
    ASSUME HostInv, countdown_id' = countdown_id + 1, runs' = runs, auto_handle' = auto_handle,
           countdowns' \subseteq countdowns \union {Newest'}
    PROVE  Ticks'
<1>1. countdown_id \in Nat /\ countdown_id' \in Nat /\ runs \in Nat BY DEF HostInv, Shape, Ticks
<1>2. ASSUME NEW c \in countdowns
      PROVE  /\ c.run \in Nat /\ c.run <= runs' /\ c.id \in Nat
             /\ c.run = auto_handle' => c.id <= countdown_id' /\ c.id # countdown_id'
  <2>1. c.run \in Nat /\ c.run <= runs /\ c.id \in Nat BY DEF HostInv, Ticks
  <2>2. c.run = auto_handle => c.id <= countdown_id BY DEF HostInv, Ticks
  <2> QED BY <1>1, <2>1, <2>2
<1>3. Newest'.id = countdown_id' /\ Newest'.run = runs' /\ Newest'.draft = draft' BY DEF Newest
<1> QED BY <1>1, <1>2, <1>3 DEF Ticks

\* A new run: no countdown is its own but the one started with it.
LEMMA TicksStarted ==
    ASSUME HostInv, countdown_id' \in Nat, runs' = runs + 1, auto_handle' = runs + 1,
           countdowns' \subseteq countdowns \union {Newest'}
    PROVE  Ticks'
<1>1. runs \in Nat BY DEF HostInv, Shape
<1>2. ASSUME NEW c \in countdowns
      PROVE  c.run \in Nat /\ c.run <= runs' /\ c.id \in Nat /\ c.run # auto_handle'
  <2>1. c.run \in Nat /\ c.run <= runs /\ c.id \in Nat BY DEF HostInv, Ticks
  <2> QED BY <1>1, <2>1
<1>3. Newest'.id = countdown_id' /\ Newest'.run = runs' /\ Newest'.draft = draft' BY DEF Newest
<1> QED BY <1>1, <1>2, <1>3 DEF Ticks

LEMMA CountdownStarted ==
    ASSUME NEW timed \in BOOLEAN, StartCountdown(timed)
    PROVE  countdowns' \subseteq countdowns \union {Newest'}
BY DEF StartCountdown, Newest

LEMMA StopTicks ==
    ASSUME HostInv, NEW c, auto_stop(c), countdowns' \subseteq countdowns
    PROVE  Ticks'
BY TicksKept DEF auto_stop, Reset

LEMMA PauseTicks ==
    ASSUME HostInv, NEW c, auto_pause_for_transient_failure(c), countdowns' = countdowns
    PROVE  Ticks'
BY TicksKept DEF auto_pause_for_transient_failure, draftVars, HostInv, Ticks

LEMMA ConversationTicks ==
    ASSUME HostInv, NEW idle, NEW message, NEW request, auto_send_conversation(idle, message, request),
           countdowns' \subseteq countdowns
    PROVE  Ticks'
<1>1. CASE auto_stop(coord) BY <1>1, StopTicks
<1>2. CASE UNCHANGED <<draftVars, auto_handle, runs>> BY <1>2, TicksKept DEF draftVars
<1> QED BY <1>1, <1>2 DEF auto_send_conversation, coordVars

LEMMA SubmitTicks ==
    ASSUME HostInv, auto_submit_prompt, countdowns' \subseteq countdowns
    PROVE  Ticks'
<1>1. CASE \E m, n : auto_send_conversation(phase, m, n) BY <1>1, ConversationTicks
<1>2. CASE auto_stop(coord) BY <1>2, StopTicks
<1>3. CASE UNCHANGED <<draftVars, auto_handle, runs>> BY <1>3, TicksKept DEF draftVars
<1> QED BY <1>1, <1>2, <1>3 DEF auto_submit_prompt, coordVars

LEMMA UserTicks ==
    ASSUME HostInv, User
    PROVE  Ticks'
<1>1. CASE Launch
  <2>a. countdowns' = countdowns BY <1>1 DEF Launch, timerVars
  <2>b. countdown_id' = 0 BY <1>1 DEF Launch, launch_failed, Reset
  <2>1. countdowns' = countdowns /\ countdown_id' \in Nat BY <2>a, <2>b
  <2>2. CASE Start(TRUE) BY <2>1, <2>2, TicksStarted DEF Start
  <2>3. CASE launch_failed BY <2>1, <2>3, TicksKept DEF launch_failed
  <2> QED BY <1>1, <2>2, <2>3 DEF Launch
<1>2. CASE Bootstrap
  <2>1. CASE BootstrapStarts
    <3>1. countdown_id' \in Nat /\ runs' = runs + 1 /\ auto_handle' = runs + 1
      BY <2>1 DEF BootstrapStarts, Start, schedule_cli_prompt
    <3>2. countdowns' \subseteq countdowns \union {Newest'} BY <2>1, CountdownStarted DEF BootstrapStarts
    <3> QED BY <3>1, <3>2, TicksStarted
  <2>2. CASE launch_failed /\ UNCHANGED countdowns
    <3>1. countdown_id' = 0 BY <2>2 DEF launch_failed, Reset
    <3> QED BY <2>2, <3>1, TicksKept DEF launch_failed
  <2> QED BY <1>2, <2>1, <2>2 DEF Bootstrap
<1>3. CASE EscStop BY <1>3, StopTicks DEF EscStop
<1>4. CASE PressEnter BY <1>4, SubmitTicks DEF PressEnter
<1>5. CASE auto_pause_for_manual_edit
  BY <1>5, TicksRenewed DEF auto_pause_for_manual_edit, coordVars, timerVars
<1>6. ASSUME NEW mode \in Modes, update_continue_mode(mode) PROVE Ticks'
  <2>1. runs' = runs /\ draft' = draft /\ auto_handle' = auto_handle
    BY <1>6 DEF update_continue_mode
  <2>2. CASE phase = "AwaitingCoordinator"
    <3>1. countdown_id' = countdown_id + 1 /\ StartCountdown(mode # "Manual")
      BY <1>6, <2>2 DEF update_continue_mode
    <3>2. countdowns' \subseteq countdowns \union {Newest'} BY <3>1, CountdownStarted
    <3> QED BY <2>1, <3>1, <3>2, TicksRenewed
  <2>3. CASE phase # "AwaitingCoordinator"
    BY <1>6, <2>1, <2>3, TicksKept DEF update_continue_mode
  <2> QED BY <2>2, <2>3
<1>7. CASE submit_user_message
  BY <1>7, TicksKept DEF submit_user_message, draftVars, timerVars
<1>8. CASE begin_review
  BY <1>8, TicksKept DEF begin_review, hostVars, controllerVars, draftVars, coordVars, timerVars
<1> QED BY <1>1, <1>2, <1>3, <1>4, <1>5, <1>6, <1>7, <1>8 DEF User

LEMMA HandlerTicks ==
    ASSUME HostInv, HandleEvent
    PROVE  Ticks'
<1>0. CASE UNCHANGED <<draftVars, auto_handle, runs, countdowns>>
  BY <1>0, TicksKept DEF draftVars
<1>1. CASE DecisionContinue \/ DecisionSuccess
  <2>1. countdown_id' = countdown_id + 1 /\ runs' = runs /\ auto_handle' = auto_handle
    BY <1>1 DEF DecisionContinue, DecisionSuccess, schedule_cli_prompt
  <2>2. countdowns' \subseteq countdowns \union {Newest'}
    BY <1>1, CountdownStarted DEF DecisionContinue, DecisionSuccess
  <2> QED BY <2>1, <2>2, TicksRenewed
<1>2. CASE DecisionFailed BY <1>2, StopTicks, PauseTicks DEF DecisionFailed
<1>3. CASE auto_handle_restart
  <2>a. countdowns' = countdowns BY <1>3 DEF auto_handle_restart, timerVars
  <2>b. countdown_id' = 0 BY <1>3 DEF auto_handle_restart, Reset
  <2>1. countdowns' = countdowns /\ countdown_id' \in Nat BY <2>a, <2>b
  <2>2. CASE runs' = runs + 1 /\ auto_handle' = runs + 1 BY <2>1, <2>2, TicksStarted
  <2>3. CASE UNCHANGED <<auto_handle, coordVars>>
    <3>1. auto_handle = None
      BY <1>3 DEF auto_handle_restart, Expected, HostInv, PausedHasRestart
    <3> QED BY <2>1, <2>3, <3>1, TicksKept DEF coordVars
  <2> QED BY <1>3, <2>2, <2>3 DEF auto_handle_restart
<1>4. CASE on_error
  <2>1. CASE auto_pause_for_transient_failure(coord) BY <1>4, <2>1, PauseTicks DEF on_error
  <2>2. CASE UNCHANGED <<controllerVars, auto_handle, coordVars, restarts>>
    BY <1>0, <1>4, <2>2 DEF on_error, controllerVars, coordVars
  <2> QED BY <1>4, <2>1, <2>2 DEF on_error
<1>5. CASE insert_final_answer \/ auto_on_turn_complete \/ ExitedReviewMode
  <2>1. countdowns' = countdowns
    BY <1>5 DEF insert_final_answer, auto_on_turn_complete, ExitedReviewMode
  <2>2. CASE \E idle, m, n : auto_send_conversation(idle, m, n) BY <2>1, <2>2, ConversationTicks
  <2>3. CASE auto_stop(coord) BY <2>1, <2>3, StopTicks
  <2>4. CASE UNCHANGED <<draftVars, auto_handle, coordVars>>
    BY <1>0, <2>1, <2>4 DEF coordVars
  <2> QED
    BY <1>5, <2>2, <2>3, <2>4
       DEF insert_final_answer, auto_on_turn_complete, ExitedReviewMode, controllerVars
<1>6. CASE DecisionIgnored \/ DecisionPlanning \/ auto_handle_user_reply \/ RestartIgnored
               \/ QuiescentIgnored \/ EnteredReviewMode
  BY <1>0, <1>6
     DEF DecisionIgnored, DecisionPlanning, auto_handle_user_reply, RestartIgnored,
         QuiescentIgnored, EnteredReviewMode, hostVars, controllerVars, coordVars, timerVars
<1> QED BY <1>1, <1>2, <1>3, <1>4, <1>5, <1>6 DEF HandleEvent

LEMMA OtherTicks ==
    ASSUME HostInv,
           Timers \/ (\E r \in 1 .. runs : CoordStep(r)) \/ SessionEnds \/ SessionFails
    PROVE  Ticks'
<1>1. ASSUME NEW c \in countdowns, CountdownSubmits(c) PROVE Ticks'
  <2>1. countdowns' \subseteq countdowns BY <1>1 DEF CountdownSubmits
  <2> QED BY <1>1, <2>1, SubmitTicks DEF CountdownSubmits
<1>2. CASE UNCHANGED <<draftVars, auto_handle, runs, countdowns>>
  BY <1>2, TicksKept DEF draftVars
<1>3. ASSUME NEW u \in restarts, RestartTimer(u) PROVE Ticks'
  BY <1>2, <1>3 DEF RestartTimer, hostVars, controllerVars, coordVars
<1>4. ASSUME NEW r \in 1 .. runs, CoordStep(r) PROVE Ticks'
  BY <1>2, <1>4 DEF CoordStep, CoordDecide, CoordReply, Thread, hostVars, controllerVars, timerVars
<1>5. CASE SessionEnds \/ SessionFails
  BY <1>2, <1>5 DEF SessionEnds, SessionQuiescent, SessionReviewed, SessionFails, Session, hostVars,
       controllerVars, coordVars, timerVars
<1> QED BY <1>1, <1>3, <1>4, <1>5 DEF Timers

-----------------------------------------------------------------------------
(* Types.                                                                   *)

Flags ==
    /\ phase \in Phases
    /\ continue_mode \in Modes
    /\ pending_stop_message \in BOOLEAN
    /\ current_cli_prompt \in {None, "empty", "prompt"}
    /\ auto_pending_goal_request \in BOOLEAN
    /\ review_flow \in BOOLEAN
    /\ runs <= MaxRuns
    /\ task \in Tasks \union {None}
    /\ queued \in Tasks \union {None}
    /\ draft \in Nat
    /\ inputs \in 0 .. MaxInputs

\* Before the first run the host is inactive, and no coordinator could have replied
\* or have claimed success.
BeforeRuns ==
    runs = 0 => /\ phase \in Inactive
                /\ ~pending_stop_message
                /\ \A i \in 1 .. Len(bulk) : bulk[i].kind # "UserReply"

CountdownIds == [id : Nat, run : Runs, draft : Nat]

LEMMA ConversationFlags ==
    ASSUME Flags, NEW p \in Phases, NEW m \in BOOLEAN, NEW q \in BOOLEAN, auto_send_conversation(p, m, q)
    PROVE  /\ phase' \in Phases /\ continue_mode' = continue_mode /\ pending_stop_message' \in BOOLEAN
           /\ current_cli_prompt' \in {None, "empty", "prompt"} /\ auto_pending_goal_request' \in BOOLEAN
           /\ runs' = runs /\ draft' \in Nat
<1>1. CASE auto_stop(coord) BY <1>1 DEF Flags, auto_stop, Reset, Phases, Inactive
<1>2. CASE ~auto_stop(coord)
  <2>1. /\ phase' \in {p, "AwaitingDecision"} /\ pending_stop_message' = m /\ auto_pending_goal_request' = q
        /\ UNCHANGED <<continue_mode, draft, runs>> /\ current_cli_prompt' \in {None, current_cli_prompt}
    BY <1>2 DEF auto_send_conversation, draftVars, coordVars
  <2> QED BY <2>1 DEF Flags, Phases
<1> QED BY <1>1, <1>2

LEMMA SubmitFlags ==
    ASSUME Flags, auto_submit_prompt
    PROVE  /\ phase' \in Phases /\ continue_mode' = continue_mode /\ pending_stop_message' \in BOOLEAN
           /\ current_cli_prompt' \in {None, "empty", "prompt"} /\ auto_pending_goal_request' \in BOOLEAN
           /\ runs' = runs /\ draft' \in Nat
           /\ task' \in Tasks \union {None} /\ queued' \in Tasks \union {None}
<1>1. CASE auto_pending_goal_request /\ auto_send_conversation(phase, pending_stop_message, FALSE)
           /\ UNCHANGED sessionVars
  <2>1. phase \in Phases /\ pending_stop_message \in BOOLEAN BY DEF Flags
  <2> QED BY <1>1, <2>1, ConversationFlags DEF Flags, sessionVars
<1>2. CASE auto_stop(coord) /\ UNCHANGED sessionVars
  BY <1>2 DEF Flags, auto_stop, Reset, sessionVars, Phases, Inactive
<1>3. CASE /\ auto_dispatch_cli_prompt("turn")
           /\ UNCHANGED <<continue_mode, draftVars, retryVars, pending_stop_message,
                          current_cli_prompt, auto_handle, coordVars, restarts>>
  BY <1>3 DEF Flags, auto_dispatch_cli_prompt, Submit, draftVars, coordVars, Phases, Tasks
<1> QED BY <1>1, <1>2, <1>3 DEF auto_submit_prompt

LEMMA UserFlags ==
    ASSUME Flags, runs \in Nat, User
    PROVE  Flags'
<1>0. inputs' = inputs \/ Input
  BY DEF User, Launch, Bootstrap, EscStop, PressEnter, auto_pause_for_manual_edit,
         update_continue_mode, submit_user_message, begin_review
<1>i. inputs' \in 0 .. MaxInputs BY <1>0 DEF Flags, Input
<1>1. CASE Launch
  <2>1. /\ phase' \in {"AwaitingDecision", "AwaitingGoalEntry"} /\ draft' = 0 /\ current_cli_prompt' = None
        /\ pending_stop_message' \in BOOLEAN /\ auto_pending_goal_request' = FALSE
        /\ UNCHANGED <<continue_mode, review_flow, task, queued>>
        /\ runs' = runs \/ (runs < MaxRuns /\ runs' = runs + 1)
    BY <1>1 DEF Launch, Start, launch_failed, Reset, sessionVars, StopMessageKept
  <2>2. phase' \in Phases /\ continue_mode' \in Modes /\ runs' <= MaxRuns /\ draft' \in Nat
    BY <2>1 DEF Flags, Phases, Inactive
  <2>3. /\ pending_stop_message' \in BOOLEAN /\ auto_pending_goal_request' \in BOOLEAN /\ review_flow' \in BOOLEAN
        /\ current_cli_prompt' \in {None, "empty", "prompt"}
    BY <2>1 DEF Flags
  <2>4. task' \in Tasks \union {None} /\ queued' \in Tasks \union {None} BY <2>1 DEF Flags, Tasks
  <2> QED BY <1>i, <2>2, <2>3, <2>4 DEF Flags
<1>2. CASE Bootstrap
  <2>1. /\ phase' \in {"AwaitingCoordinator", "AwaitingGoalEntry"} /\ draft' \in Nat
        /\ current_cli_prompt' \in {None, "empty"}
        /\ pending_stop_message' \in BOOLEAN /\ auto_pending_goal_request' \in BOOLEAN
        /\ UNCHANGED <<continue_mode, review_flow, task, queued>>
        /\ runs' = runs \/ (runs < MaxRuns /\ runs' = runs + 1)
    <3>1. UNCHANGED <<continue_mode, review_flow, task, queued>> BY <1>2 DEF Bootstrap, sessionVars
    <3>2. pending_stop_message' \in BOOLEAN BY <1>2 DEF Bootstrap, StopMessageKept
    <3>3. CASE BootstrapStarts
      BY <3>1, <3>2, <3>3 DEF BootstrapStarts, Start, schedule_cli_prompt
    <3>4. CASE launch_failed /\ auto_pending_goal_request' = FALSE
      BY <3>1, <3>2, <3>4 DEF launch_failed, Reset
    <3> QED BY <1>2, <3>3, <3>4 DEF Bootstrap
  <2>2. phase' \in Phases /\ continue_mode' \in Modes /\ runs' <= MaxRuns /\ draft' \in Nat
    BY <2>1 DEF Flags, Phases, Inactive
  <2>3. /\ pending_stop_message' \in BOOLEAN /\ auto_pending_goal_request' \in BOOLEAN /\ review_flow' \in BOOLEAN
        /\ current_cli_prompt' \in {None, "empty", "prompt"}
    BY <2>1 DEF Flags
  <2>4. task' \in Tasks \union {None} /\ queued' \in Tasks \union {None} BY <2>1 DEF Flags, Tasks
  <2> QED BY <1>i, <2>2, <2>3, <2>4 DEF Flags
<1>3. CASE EscStop
  BY <1>3, <1>i DEF Flags, EscStop, auto_stop, Reset, sessionVars, Phases, Inactive
<1>4. CASE PressEnter BY <1>4, <1>i, SubmitFlags DEF Flags, PressEnter
<1>5. CASE auto_pause_for_manual_edit
  BY <1>5, <1>i DEF Flags, auto_pause_for_manual_edit, coordVars, sessionVars, Phases
<1>6. ASSUME NEW mode \in Modes, update_continue_mode(mode) PROVE Flags'
  BY <1>6, <1>i DEF Flags, update_continue_mode, sessionVars
<1>7. CASE submit_user_message
  BY <1>7, <1>i DEF Flags, submit_user_message, Submit, draftVars, sessionVars, Phases, Tasks
<1>8. CASE begin_review
  BY <1>8, <1>i DEF Flags, begin_review, hostVars, controllerVars, draftVars, coordVars, Tasks
<1> QED BY <1>1, <1>2, <1>3, <1>4, <1>5, <1>6, <1>7, <1>8 DEF User

LEMMA HandlerFlags ==
    ASSUME Flags, runs \in Nat, HandleEvent
    PROVE  Flags'
<1>i. inputs' \in 0 .. MaxInputs
  BY DEF Flags, HandleEvent, DecisionIgnored, DecisionPlanning, DecisionContinue, DecisionSuccess,
         DecisionFailed, auto_handle_user_reply, auto_handle_restart, RestartIgnored, on_error,
         insert_final_answer, auto_on_turn_complete, QuiescentIgnored, EnteredReviewMode,
         ExitedReviewMode, Receive
<1>p. "Active" \in Phases /\ pending_stop_message \in BOOLEAN /\ auto_pending_goal_request \in BOOLEAN
  BY DEF Flags, Phases
<1>1. CASE DecisionIgnored \/ RestartIgnored \/ QuiescentIgnored
  BY <1>1, <1>i DEF Flags, DecisionIgnored, RestartIgnored, QuiescentIgnored, hostVars, controllerVars,
       draftVars, coordVars, sessionVars
<1>2. CASE DecisionPlanning
  BY <1>2, <1>i DEF Flags, DecisionPlanning, auto_dispatch_cli_prompt, Submit, draftVars, Phases, Tasks
<1>3. CASE DecisionContinue
  <2>1. /\ phase' = "AwaitingCoordinator" /\ draft' = draft + 1 /\ current_cli_prompt' = "prompt"
        /\ auto_pending_goal_request' = FALSE
        /\ UNCHANGED <<continue_mode, pending_stop_message, review_flow, runs, task, queued>>
    BY <1>3 DEF DecisionContinue, schedule_cli_prompt, sessionVars
  <2>2. phase' \in Phases /\ continue_mode' \in Modes /\ runs' <= MaxRuns /\ draft' \in Nat
    BY <2>1 DEF Flags, Phases
  <2>3. /\ pending_stop_message' \in BOOLEAN /\ auto_pending_goal_request' \in BOOLEAN /\ review_flow' \in BOOLEAN
        /\ current_cli_prompt' \in {None, "empty", "prompt"}
    BY <2>1 DEF Flags
  <2>4. task' \in Tasks \union {None} /\ queued' \in Tasks \union {None} BY <2>1 DEF Flags, Tasks
  <2> QED BY <1>i, <2>2, <2>3, <2>4 DEF Flags
<1>4. CASE DecisionSuccess
  <2>1. /\ phase' = "AwaitingResponse" /\ draft' = draft + 1 /\ current_cli_prompt' = "prompt"
        /\ pending_stop_message' = TRUE /\ auto_pending_goal_request' = FALSE
        /\ UNCHANGED <<continue_mode, review_flow, runs>>
        /\ task' \in {task, "diagnostics"} /\ queued' \in {queued, "diagnostics"}
    BY <1>4 DEF DecisionSuccess, auto_dispatch_cli_prompt, Submit, schedule_cli_prompt
  <2>2. phase' \in Phases /\ continue_mode' \in Modes /\ runs' <= MaxRuns /\ draft' \in Nat
    BY <2>1 DEF Flags, Phases
  <2>3. /\ pending_stop_message' \in BOOLEAN /\ auto_pending_goal_request' \in BOOLEAN /\ review_flow' \in BOOLEAN
        /\ current_cli_prompt' \in {None, "empty", "prompt"}
    BY <2>1 DEF Flags
  <2>4. task' \in Tasks \union {None} /\ queued' \in Tasks \union {None} BY <2>1 DEF Flags, Tasks
  <2> QED BY <1>i, <2>2, <2>3, <2>4 DEF Flags
<1>5. CASE DecisionFailed
  <2>1. /\ phase' \in {"TransientRecovery", "AwaitingGoalEntry"} /\ draft' \in {0, draft}
        /\ current_cli_prompt' = None /\ pending_stop_message' \in {FALSE, pending_stop_message}
        /\ auto_pending_goal_request' = FALSE
        /\ UNCHANGED <<continue_mode, review_flow, runs, task, queued>>
    BY <1>5 DEF DecisionFailed, auto_pause_for_transient_failure, auto_stop, Reset, draftVars, sessionVars
  <2>2. phase' \in Phases /\ continue_mode' \in Modes /\ runs' <= MaxRuns /\ draft' \in Nat
    BY <2>1 DEF Flags, Phases, Inactive
  <2>3. /\ pending_stop_message' \in BOOLEAN /\ auto_pending_goal_request' \in BOOLEAN /\ review_flow' \in BOOLEAN
        /\ current_cli_prompt' \in {None, "empty", "prompt"}
    BY <2>1 DEF Flags
  <2>4. task' \in Tasks \union {None} /\ queued' \in Tasks \union {None} BY <2>1 DEF Flags, Tasks
  <2> QED BY <1>i, <2>2, <2>3, <2>4 DEF Flags
<1>6. CASE auto_handle_user_reply
  BY <1>6, <1>i DEF Flags, auto_handle_user_reply, Submit, draftVars, coordVars, sessionVars, Phases, Tasks
<1>7. CASE auto_handle_restart
  <2>1. /\ phase' \in {"AwaitingDecision", "AwaitingGoalEntry"} /\ draft' = 0 /\ current_cli_prompt' = None
        /\ UNCHANGED <<continue_mode, pending_stop_message, auto_pending_goal_request, review_flow, task, queued>>
        /\ runs' = runs \/ (runs < MaxRuns /\ runs' = runs + 1)
    BY <1>7 DEF auto_handle_restart, Reset, coordVars, sessionVars
  <2> QED BY <1>i, <2>1 DEF Flags, Phases, Inactive
<1>8. CASE on_error
  BY <1>8, <1>i DEF Flags, on_error, auto_pause_for_transient_failure, controllerVars, draftVars, coordVars,
       sessionVars, Phases
<1>9. CASE insert_final_answer
  <2>1. CASE auto_send_conversation("Active", FALSE, auto_pending_goal_request)
    BY <1>9, <1>i, <1>p, <2>1, ConversationFlags DEF Flags, insert_final_answer, sessionVars
  <2>2. CASE auto_stop(coord)
    BY <1>9, <1>i, <2>2 DEF Flags, insert_final_answer, auto_stop, Reset, sessionVars, Phases, Inactive
  <2>3. CASE UNCHANGED <<controllerVars, auto_handle, auto_pending_goal_request, coordVars, restarts>>
    BY <1>9, <1>i, <2>3 DEF Flags, insert_final_answer, controllerVars, draftVars, coordVars, sessionVars
  <2> QED BY <1>9, <2>1, <2>2, <2>3 DEF insert_final_answer
<1>10. CASE auto_on_turn_complete
  <2>1. CASE auto_send_conversation("Active", pending_stop_message, auto_pending_goal_request)
    BY <1>10, <1>i, <1>p, <2>1, ConversationFlags DEF Flags, auto_on_turn_complete, sessionVars
  <2>2. CASE ~auto_send_conversation("Active", pending_stop_message, auto_pending_goal_request)
    BY <1>10, <1>i, <2>2 DEF Flags, auto_on_turn_complete, draftVars, coordVars, sessionVars, Phases
  <2> QED BY <2>1, <2>2
<1>11. CASE EnteredReviewMode
  BY <1>11, <1>i DEF Flags, EnteredReviewMode, draftVars, coordVars, sessionVars, Phases
<1>12. CASE ExitedReviewMode
  <2>1. CASE auto_send_conversation("Active", pending_stop_message, auto_pending_goal_request)
    BY <1>12, <1>i, <1>p, <2>1, ConversationFlags DEF Flags, ExitedReviewMode, sessionVars
  <2>2. CASE ~auto_send_conversation("Active", pending_stop_message, auto_pending_goal_request)
    BY <1>12, <1>i, <2>2 DEF Flags, ExitedReviewMode, controllerVars, draftVars, coordVars, sessionVars
  <2> QED BY <2>1, <2>2
<1> QED BY <1>1, <1>2, <1>3, <1>4, <1>5, <1>6, <1>7, <1>8, <1>9, <1>10, <1>11, <1>12 DEF HandleEvent

LEMMA OtherFlags ==
    ASSUME Flags, runs \in Nat,
           Timers \/ (\E r \in 1 .. runs : CoordStep(r)) \/ SessionEnds \/ SessionFails
    PROVE  Flags'
<1>1. ASSUME NEW c \in countdowns, CountdownSubmits(c) PROVE Flags'
  BY <1>1, SubmitFlags DEF Flags, CountdownSubmits
<1>2. ASSUME NEW u \in restarts, RestartTimer(u) PROVE Flags'
  BY <1>2 DEF Flags, RestartTimer, hostVars, controllerVars, draftVars, coordVars, sessionVars
<1>3. ASSUME NEW r \in 1 .. runs, CoordStep(r) PROVE Flags'
  BY <1>3 DEF Flags, CoordStep, CoordDecide, CoordReply, Thread, hostVars, controllerVars, draftVars, sessionVars
<1>4. CASE SessionEnds \/ SessionFails
  <2>1. /\ inputs' = inputs \/ Input
        /\ task' \in {queued, None} /\ queued' = None
    BY <1>4 DEF SessionEnds, SessionFails, SessionQuiescent, SessionReviewed, Session, NextTask
  <2>2. inputs' \in 0 .. MaxInputs BY <2>1 DEF Flags, Input
  <2>h. UNCHANGED <<phase, continue_mode, pending_stop_message, current_cli_prompt,
                    auto_pending_goal_request, review_flow, draft, runs>>
    BY <1>4 DEF SessionEnds, SessionFails, SessionQuiescent, SessionReviewed, Session, hostVars,
         controllerVars, draftVars, coordVars
  <2>3. phase' \in Phases /\ continue_mode' \in Modes /\ runs' <= MaxRuns /\ draft' \in Nat
    BY <2>h DEF Flags
  <2>4. /\ pending_stop_message' \in BOOLEAN /\ auto_pending_goal_request' \in BOOLEAN /\ review_flow' \in BOOLEAN
        /\ current_cli_prompt' \in {None, "empty", "prompt"}
    BY <2>h DEF Flags
  <2>5. task' \in Tasks \union {None} /\ queued' \in Tasks \union {None} BY <2>1 DEF Flags
  <2> QED BY <2>2, <2>3, <2>4, <2>5 DEF Flags
<1> QED BY <1>1, <1>2, <1>3, <1>4 DEF Timers

NoReply(q) == \A i \in 1 .. Len(q) : q[i].kind # "UserReply"

LEMMA NoReplyAppended ==
    ASSUME NEW q \in Seq(Events), NEW e \in Events, NoReply(q), e.kind # "UserReply"
    PROVE  NoReply(Append(q, e))
<1>1. Len(Append(q, e)) = Len(q) + 1 /\ Len(q) \in Nat OBVIOUS
<1>2. \A i \in 1 .. Len(q) : Append(q, e)[i] = q[i] OBVIOUS
<1>3. Append(q, e)[Len(q) + 1] = e OBVIOUS
<1> QED BY <1>1, <1>2, <1>3 DEF NoReply

LEMMA NoReplyTaken ==
    ASSUME NEW q \in Seq(Events), q # <<>>, NoReply(q)
    PROVE  NoReply(Tail(q)) /\ Head(q).kind # "UserReply"
<1>1. Len(Tail(q)) = Len(q) - 1 /\ Len(q) \in Nat /\ Len(q) >= 1 /\ Head(q) = q[1] OBVIOUS
<1>2. \A i \in 1 .. Len(Tail(q)) : i + 1 \in 1 .. Len(q) /\ Tail(q)[i] = q[i + 1] OBVIOUS
<1> QED BY <1>1, <1>2 DEF NoReply

LEMMA KindsOfEvents ==
    /\ \A v : Answer(v).kind # "UserReply"
    /\ \A k : Event(k).kind = k
    /\ \A u : Restart(u).kind # "UserReply"
BY DEF Answer, Event, Restart

LEMMA StepBeforeRuns ==
    ASSUME HostInv, BeforeRuns, Next
    PROVE  BeforeRuns'
<1> SUFFICES ASSUME runs' = 0 PROVE phase' \in Inactive /\ ~pending_stop_message' /\ NoReply(bulk')
  BY DEF BeforeRuns, NoReply
<1>s. /\ runs \in Nat /\ bulk \in Seq(Events) /\ restarts \subseteq RestartIds
      /\ auto_handle \in (1 .. runs) \union {None}
  BY DEF HostInv, Shape
<1>1. CASE runs # 0
  <2>1. runs' = runs \/ runs' = runs + 1
    <3>1. CASE User \/ HandleEvent
      BY <3>1 DEF User, Launch, Start, launch_failed, BootstrapStarts, Bootstrap, EscStop, PressEnter,
           auto_pause_for_manual_edit, update_continue_mode, submit_user_message, begin_review,
           HandleEvent, DecisionIgnored, DecisionPlanning, DecisionContinue, DecisionSuccess,
           DecisionFailed, auto_handle_user_reply, auto_handle_restart, RestartIgnored, on_error,
           insert_final_answer, auto_on_turn_complete, QuiescentIgnored, EnteredReviewMode,
           ExitedReviewMode, auto_send_conversation, auto_submit_prompt, auto_stop,
           auto_pause_for_transient_failure, coordVars
    <3>2. CASE Timers \/ SessionEnds \/ SessionFails \/ \E r \in 1 .. runs : CoordStep(r)
      BY <3>2 DEF Timers, CountdownSubmits, RestartTimer, auto_submit_prompt, auto_send_conversation, auto_stop,
           SessionEnds, SessionFails, SessionQuiescent, SessionReviewed, Session, CoordStep,
           CoordDecide, CoordReply, Thread, coordVars
    <3> QED BY <3>1, <3>2 DEF Next
  <2> QED BY <1>1, <1>s, <2>1
<1>2. CASE runs = 0
  <2>0. ~is_active /\ phase \in Inactive /\ ~pending_stop_message /\ NoReply(bulk) /\ phase \notin {"AwaitingCoordinator",
          "AwaitingResponse", "AwaitingReview", "TransientRecovery", "PausedManual"}
    BY <1>2 DEF BeforeRuns, NoReply, is_active, Inactive
  <2>1. CASE User
    <3>1. phase' \in Inactive /\ ~pending_stop_message'
      <4>1. CASE Launch \/ Bootstrap
        <5>1. launch_failed BY <1>2, <4>1 DEF Launch, Bootstrap, BootstrapStarts, Start
        <5>2. ~pending_stop_message' BY <2>0, <4>1 DEF Launch, Bootstrap, StopMessageKept
        <5> QED BY <5>1, <5>2 DEF launch_failed, Inactive
      <4>2. CASE ~Launch /\ ~Bootstrap
        BY <1>2, <2>0, <2>1, <4>2 DEF User, EscStop, PressEnter, auto_pause_for_manual_edit,
             update_continue_mode, submit_user_message, begin_review, Routed, hostVars, controllerVars
      <4> QED BY <4>1, <4>2
    <3>2. bulk' = bulk \/ bulk' = Append(bulk, Event("Entered"))
      BY <1>2, <2>0, <2>1 DEF User, Launch, Start, launch_failed, BootstrapStarts, Bootstrap, EscStop, PressEnter,
           auto_pause_for_manual_edit, update_continue_mode, submit_user_message, begin_review
    <3> QED BY <1>s, <2>0, <3>1, <3>2, NoReplyAppended, KindsOfEvents, EventsTyped
  <2>2. CASE HandleEvent
    <3>1. bulk # <<>>
      BY <2>2 DEF HandleEvent, DecisionIgnored, DecisionPlanning, DecisionContinue, DecisionSuccess,
             DecisionFailed, auto_handle_user_reply, auto_handle_restart, RestartIgnored, on_error,
             insert_final_answer, auto_on_turn_complete, QuiescentIgnored, EnteredReviewMode,
             ExitedReviewMode, Receive
    <3>2. NoReply(Tail(bulk)) /\ Head(bulk).kind # "UserReply"
      BY <1>s, <2>0, <3>1, NoReplyTaken
    <3>3. \/ DecisionIgnored \/ RestartIgnored \/ QuiescentIgnored \/ on_error \/ insert_final_answer
          \/ EnteredReviewMode \/ ExitedReviewMode
      BY <2>0, <2>2, <3>2 DEF HandleEvent, DecisionPlanning, DecisionContinue, DecisionSuccess,
             DecisionFailed, auto_handle_user_reply, auto_handle_restart, Expected,
             auto_on_turn_complete, Receive
    <3>4. bulk' = Tail(bulk)
      BY <3>3 DEF DecisionIgnored, RestartIgnored, QuiescentIgnored, on_error, insert_final_answer,
             EnteredReviewMode, ExitedReviewMode
    <3>5. phase' = phase /\ pending_stop_message' = pending_stop_message
      BY <2>0, <3>3 DEF DecisionIgnored, RestartIgnored, QuiescentIgnored, on_error, insert_final_answer,
             EnteredReviewMode, ExitedReviewMode, hostVars, controllerVars
    <3> QED BY <2>0, <3>2, <3>4, <3>5
  <2>3. CASE Timers
    <3>1. PICK u \in restarts : RestartTimer(u)
      BY <2>0, <2>3 DEF Timers, CountdownSubmits, Live
    <3>2. Restart(u) \in Events BY <1>s, EventsTyped
    <3> QED BY <1>s, <2>0, <3>1, <3>2, NoReplyAppended, KindsOfEvents DEF RestartTimer, hostVars, controllerVars
  <2>4. ~\E r \in 1 .. runs : CoordStep(r) BY <1>2
  <2>5. CASE SessionEnds \/ SessionFails
    <3>1. phase' = phase /\ pending_stop_message' = pending_stop_message
      BY <2>5 DEF SessionEnds, SessionFails, SessionQuiescent, SessionReviewed, Session, hostVars, controllerVars
    <3>2. PICK a \in Events, b \in Events : /\ bulk' = bulk \o <<a, b>>
                                            /\ a.kind # "UserReply" /\ b.kind # "UserReply"
      BY <2>5, EventsTyped, KindsOfEvents DEF SessionEnds, SessionFails, SessionQuiescent, SessionReviewed
    <3>3. bulk' = Append(Append(bulk, a), b) BY <1>s, <3>2
    <3>4. Append(bulk, a) \in Seq(Events) BY <1>s
    <3> QED BY <1>s, <2>0, <3>1, <3>2, <3>3, <3>4, NoReplyAppended
  <2> QED BY <2>1, <2>2, <2>3, <2>4, <2>5 DEF Next
<1> QED BY <1>1, <1>2

LEMMA StepCountdowns ==
    ASSUME HostInv, BeforeRuns, Flags, Flags', HostInv', countdowns \subseteq CountdownIds, Next
    PROVE  countdowns' \subseteq CountdownIds
<1>1. \/ countdowns' \subseteq countdowns
      \/ /\ countdowns' = countdowns \union {[id |-> countdown_id', run |-> runs', draft |-> draft']}
         /\ runs' # 0
  <2>1. CASE Bootstrap
    <3>1. CASE BootstrapStarts
      BY <3>1 DEF BootstrapStarts, Start, StartCountdown, HostInv, Shape
    <3> QED BY <2>1, <3>1 DEF Bootstrap
  <2>2. ASSUME NEW mode \in Modes, update_continue_mode(mode) PROVE <1>1!1 \/ <1>1!2
    BY <2>2 DEF update_continue_mode, StartCountdown, BeforeRuns, Inactive
  <2>3. CASE DecisionContinue \/ DecisionSuccess
    BY <2>3 DEF DecisionContinue, DecisionSuccess, StartCountdown, BeforeRuns, is_active
  <2>4. CASE Timers
    BY <2>4 DEF Timers, CountdownSubmits, RestartTimer
  <2>5. CASE SessionEnds \/ SessionFails \/ \E r \in 1 .. runs : CoordStep(r)
    BY <2>5 DEF SessionEnds, SessionFails, SessionQuiescent, SessionReviewed, Session, CoordStep,
           CoordDecide, CoordReply, Thread, timerVars
  <2>6. CASE Launch \/ EscStop \/ PressEnter \/ auto_pause_for_manual_edit \/ submit_user_message \/ begin_review
    BY <2>6 DEF Launch, EscStop, PressEnter, auto_pause_for_manual_edit, submit_user_message, begin_review, timerVars
  <2>7. CASE HandleEvent /\ ~DecisionContinue /\ ~DecisionSuccess
    BY <2>7 DEF HandleEvent, DecisionIgnored, DecisionPlanning, DecisionFailed, auto_handle_user_reply,
           auto_handle_restart, RestartIgnored, on_error, insert_final_answer, auto_on_turn_complete,
           QuiescentIgnored, EnteredReviewMode, ExitedReviewMode, timerVars
  <2> QED BY <2>1, <2>2, <2>3, <2>4, <2>5, <2>6, <2>7 DEF Next, User
<1>2. countdown_id' \in Nat /\ runs' \in Nat /\ runs' <= MaxRuns /\ draft' \in Nat
  BY DEF HostInv, Shape, Ticks, Flags
<1>3. runs' # 0 => [id |-> countdown_id', run |-> runs', draft |-> draft'] \in CountdownIds
  BY <1>2 DEF CountdownIds, Runs
<1> QED BY <1>1, <1>3

-----------------------------------------------------------------------------
(* Waits.                                                                   *)

HasSeq(q, g) == \E i \in 1 .. Len(q) : q[i].kind = "Decision" /\ q[i].seq = g
HasDecision(q) == \E i \in 1 .. Len(q) : q[i].kind = "Decision"

\* An event of another kind than the first one stays.
Keeps(k) ==
    /\ \A e : e.kind # k /\ Has(bulk, e) => Has(bulk', e)
    /\ k # "Decision" => (HasDecision(bulk) => HasDecision(bulk')) /\ \A g : HasSeq(bulk, g) => HasSeq(bulk', g)

LEMMA GrowsKeeps ==
    ASSUME Grows
    PROVE  /\ \A e : Has(bulk, e) => Has(bulk', e)
           /\ HasDecision(bulk) => HasDecision(bulk')
           /\ \A g : HasSeq(bulk, g) => HasSeq(bulk', g)
BY DEF Grows, Has, HasDecision, HasSeq

LEMMA ConsumesKeeps ==
    ASSUME Consumes, Head(bulk) = bulk[1]
    PROVE  /\ Keeps(Head(bulk).kind)
           /\ \A g : HasSeq(bulk, g) /\ Head(bulk).seq # g => HasSeq(bulk', g)
BY DEF Consumes, Keeps, Has, HasDecision, HasSeq

\* The decision the coordinator of the handle waits to have acknowledged is in the channel.
GateSeen ==
    auto_handle # None /\ coord[auto_handle].gate # None => HasSeq(bulk, coord[auto_handle].gate)

\* In the channel the end of a review follows its beginning.
Ended(q) ==
    \A i \in 1 .. Len(q) : q[i] = Event("Entered") => \E j \in 1 .. Len(q) : j > i /\ q[j] = Event("Exited")

\* A review that was entered, or will be, runs or its end is in the channel.
ReviewSeen ==
    task # "review" => Ended(bulk) /\ (review_flow => Has(bulk, Event("Exited")))

WaitInv == WaitCovered /\ GateSeen /\ ReviewSeen

ResponsePart == phase = "AwaitingResponse" => task # None \/ Has(bulk, Event("Quiescent"))
ReviewPart == ReviewSeen /\ (phase = "AwaitingReview" => task = "review" \/ Has(bulk, Event("Exited")))
DecisionPart == GateSeen /\ (phase = "AwaitingDecision" => DecisionOnTheWay)

LEMMA NotNone == None \notin {"turn", "diagnostics", "review"}
BY NoTaskAssumption DEF Tasks

LEMMA WaitParts == WaitInv <=> ResponsePart /\ ReviewPart /\ DecisionPart
BY DEF WaitInv, WaitCovered, ResponsePart, ReviewPart, DecisionPart, InBulk, Has

-----------------------------------------------------------------------------
(* The answer of the session. *)

LEMMA UserResponse ==
    ASSUME HostInv, ResponsePart, User
    PROVE  ResponsePart'
<1>1. Has(bulk, Event("Quiescent")) => Has(bulk', Event("Quiescent")) BY UserQueue, GrowsKeeps
<1>2. phase' = "AwaitingResponse" => (phase = "AwaitingResponse" /\ (task # None => task' # None)) \/ task' # None
  <2>1. CASE Launch \/ Bootstrap
    BY <2>1 DEF Launch, launch_failed, Bootstrap, BootstrapStarts
  <2>2. CASE EscStop BY <2>2 DEF EscStop, auto_stop
  <2>3. CASE PressEnter
    BY <2>3, NotNone DEF PressEnter, auto_submit_prompt, auto_send_conversation, auto_stop, auto_dispatch_cli_prompt, Submit
  <2>4. CASE auto_pause_for_manual_edit BY <2>4 DEF auto_pause_for_manual_edit
  <2>5. ASSUME NEW mode \in Modes, update_continue_mode(mode) PROVE phase' = phase /\ task' = task
    BY <2>5 DEF update_continue_mode, sessionVars
  <2>6. CASE submit_user_message
    BY <2>6 DEF submit_user_message, Submit, sessionVars
  <2>7. CASE begin_review BY <2>7, NotNone DEF begin_review
  <2> QED BY <2>1, <2>2, <2>3, <2>4, <2>5, <2>6, <2>7 DEF User
<1> QED BY <1>1, <1>2 DEF ResponsePart

LEMMA HandlerResponse ==
    ASSUME HostInv, ResponsePart, HandleEvent
    PROVE  ResponsePart'
<1>k. Keeps(Head(bulk).kind) BY HandlerQueue, ConsumesKeeps
<1>q. Event("Quiescent").kind = "Quiescent" BY DEF Event
<1>1. CASE auto_on_turn_complete
  BY <1>1 DEF auto_on_turn_complete, auto_send_conversation, auto_stop, ResponsePart
<1>2. CASE QuiescentIgnored
  BY <1>2 DEF QuiescentIgnored, ResponsePart, hostVars, controllerVars
<1>3. CASE ~auto_on_turn_complete /\ ~QuiescentIgnored
  <2>1. Head(bulk).kind # "Quiescent"
    BY <1>3 DEF HandleEvent, DecisionIgnored, DecisionPlanning, DecisionContinue, DecisionSuccess, DecisionFailed,
       auto_handle_user_reply, auto_handle_restart, RestartIgnored, on_error, insert_final_answer,
       EnteredReviewMode, ExitedReviewMode, Receive
  <2>2. Has(bulk, Event("Quiescent")) => Has(bulk', Event("Quiescent")) BY <1>k, <1>q, <2>1 DEF Keeps
  <2>3. phase' = "AwaitingResponse" => (phase = "AwaitingResponse" /\ (task # None => task' # None)) \/ task' # None
    <3>1. CASE DecisionIgnored \/ RestartIgnored
      BY <3>1 DEF DecisionIgnored, RestartIgnored, hostVars, controllerVars, sessionVars
    <3>2. CASE DecisionPlanning \/ DecisionSuccess
      BY <3>2, NotNone DEF DecisionPlanning, DecisionSuccess, auto_dispatch_cli_prompt, Submit
    <3>3. CASE DecisionContinue \/ DecisionFailed
      BY <3>3 DEF DecisionContinue, DecisionFailed, auto_pause_for_transient_failure, auto_stop
    <3>4. CASE auto_handle_user_reply
      BY <3>4 DEF auto_handle_user_reply, Submit, sessionVars
    <3>5. CASE auto_handle_restart BY <3>5 DEF auto_handle_restart
    <3>6. CASE on_error
      BY <3>6 DEF on_error, auto_pause_for_transient_failure, controllerVars, sessionVars
    <3>7. CASE insert_final_answer
      BY <3>7 DEF insert_final_answer, auto_send_conversation, auto_stop, controllerVars, sessionVars
    <3>8. CASE EnteredReviewMode
      BY <3>8 DEF EnteredReviewMode, sessionVars
    <3>9. CASE ExitedReviewMode
      BY <3>9 DEF ExitedReviewMode, auto_send_conversation, auto_stop, controllerVars, sessionVars
    <3> QED BY <1>3, <3>1, <3>2, <3>3, <3>4, <3>5, <3>6, <3>7, <3>8, <3>9 DEF HandleEvent
  <2> QED BY <2>2, <2>3 DEF ResponsePart
<1> QED BY <1>1, <1>2, <1>3

LEMMA OtherResponse ==
    ASSUME HostInv, ResponsePart,
           Timers \/ (\E r \in 1 .. runs : CoordStep(r)) \/ SessionEnds \/ SessionFails
    PROVE  ResponsePart'
<1>1. Has(bulk, Event("Quiescent")) => Has(bulk', Event("Quiescent")) BY OtherQueue, GrowsKeeps
<1>2. ASSUME NEW c \in countdowns, CountdownSubmits(c) PROVE ResponsePart'
  BY <1>1, <1>2, NotNone DEF ResponsePart, CountdownSubmits, Live, auto_submit_prompt, auto_send_conversation, auto_stop,
     auto_dispatch_cli_prompt, Submit
<1>3. ASSUME NEW u \in restarts, RestartTimer(u) PROVE ResponsePart'
  BY <1>1, <1>3 DEF ResponsePart, RestartTimer, hostVars, controllerVars, sessionVars
<1>4. ASSUME NEW r \in 1 .. runs, CoordStep(r) PROVE ResponsePart'
  BY <1>1, <1>4 DEF ResponsePart, CoordStep, CoordDecide, CoordReply, Thread, hostVars, controllerVars, sessionVars
<1>5. CASE SessionEnds \/ SessionFails
  <2>1. PICK a \in Events, b \in Events : /\ bulk' = bulk \o <<a, b>>
                                          /\ Event("Quiescent") \in {a, b}
    BY <1>5, EventsTyped DEF SessionEnds, SessionFails, SessionQuiescent, SessionReviewed
  <2>2. bulk \in Seq(Events) BY DEF HostInv, Shape
  <2>3. /\ Len(bulk') = Len(bulk) + 2 /\ Len(bulk) \in Nat
        /\ bulk'[Len(bulk) + 1] = a /\ bulk'[Len(bulk) + 2] = b
    BY <2>1, <2>2
  <2>4. Has(bulk', Event("Quiescent")) BY <2>1, <2>3 DEF Has
  <2> QED BY <2>4 DEF ResponsePart
<1> QED BY <1>2, <1>3, <1>4, <1>5 DEF Timers

-----------------------------------------------------------------------------
(* The end of a review. *)

LEMMA EndedTaken ==
    ASSUME NEW q \in Seq(Events), q # <<>>, Ended(q)
    PROVE  Ended(Tail(q)) /\ (Head(q) = Event("Entered") => Has(Tail(q), Event("Exited")))
<1>1. /\ Tail(q) \in Seq(Events) /\ Len(Tail(q)) = Len(q) - 1 /\ Head(q) = q[1] /\ Len(q) \in Nat
      /\ Len(q) > 0
  OBVIOUS
<1>2. \A i \in 1 .. Len(Tail(q)) : i + 1 \in 1 .. Len(q) /\ Tail(q)[i] = q[i + 1] BY <1>1
<1>3. \A j \in 1 .. Len(q) : j > 1 => j - 1 \in 1 .. Len(Tail(q)) /\ Tail(q)[j - 1] = q[j] BY <1>1
<1>4. ASSUME NEW i \in 1 .. Len(Tail(q)), Tail(q)[i] = Event("Entered")
      PROVE  \E j \in 1 .. Len(Tail(q)) : j > i /\ Tail(q)[j] = Event("Exited")
  <2>1. PICK j \in 1 .. Len(q) : j > i + 1 /\ q[j] = Event("Exited") BY <1>2, <1>4 DEF Ended
  <2>2. j - 1 \in 1 .. Len(Tail(q)) /\ j - 1 > i /\ Tail(q)[j - 1] = Event("Exited") BY <1>3, <2>1
  <2> QED BY <2>2
<1>5. ASSUME Head(q) = Event("Entered") PROVE Has(Tail(q), Event("Exited"))
  <2>1. PICK j \in 1 .. Len(q) : j > 1 /\ q[j] = Event("Exited") BY <1>1, <1>5 DEF Ended
  <2> QED BY <1>3, <2>1 DEF Has
<1> QED BY <1>4, <1>5 DEF Ended

LEMMA EndedAppended ==
    ASSUME NEW q \in Seq(Events), NEW e \in Events
    PROVE  /\ Ended(q) /\ e # Event("Entered") => Ended(Append(q, e))
           /\ e = Event("Exited") => Ended(Append(q, e))
<1>1. Len(Append(q, e)) = Len(q) + 1 /\ Len(q) \in Nat OBVIOUS
<1>2. \A i \in 1 .. Len(q) : Append(q, e)[i] = q[i] OBVIOUS
<1>3. Append(q, e)[Len(q) + 1] = e OBVIOUS
<1>4. \A i \in 1 .. Len(Append(q, e)) : i \in 1 .. Len(q) \/ i = Len(q) + 1 BY <1>1
<1>5. ASSUME Ended(q), e # Event("Entered") PROVE Ended(Append(q, e))
  BY <1>1, <1>2, <1>3, <1>4, <1>5 DEF Ended
<1>6. ASSUME e = Event("Exited") PROVE Ended(Append(q, e))
  <2>1. e # Event("Entered") BY <1>6 DEF Event
  <2> QED BY <1>1, <1>2, <1>3, <1>4, <1>6, <2>1 DEF Ended
<1> QED BY <1>5, <1>6

LEMMA OtherThanEntered ==
    /\ \A seq, status : Decision(seq, status) # Event("Entered")
    /\ \A cli : UserReply(cli) # Event("Entered")
    /\ \A u : Restart(u) # Event("Entered")
    /\ \A v : Answer(v) # Event("Entered")
    /\ \A kind : Event(kind).kind = kind
BY DEF Decision, UserReply, Restart, Answer, Event

\* A step that neither ends a review nor hears of one.
LEMMA ReviewKept ==
    ASSUME ReviewPart, task = "review" => task' = "review",
           Ended(bulk) => Ended(bulk'), Has(bulk, Event("Exited")) => Has(bulk', Event("Exited")),
           review_flow' => review_flow,
           phase' = "AwaitingReview" => phase = "AwaitingReview" \/ review_flow
    PROVE  ReviewPart'
BY DEF ReviewPart, ReviewSeen

LEMMA UserReview ==
    ASSUME HostInv, ReviewPart, User
    PROVE  ReviewPart'
<1>1. CASE begin_review BY <1>1 DEF begin_review, ReviewPart, ReviewSeen
<1>2. CASE ~begin_review
  <2>s. bulk \in Seq(Events) BY DEF HostInv, Shape
  <2>1. Has(bulk, Event("Exited")) => Has(bulk', Event("Exited")) BY UserQueue, GrowsKeeps
  <2>2. bulk' = bulk \/ bulk' = Append(bulk, Decision(0, "Planning"))
    BY <1>2 DEF User, Launch, Start, launch_failed, BootstrapStarts, Bootstrap, EscStop, PressEnter,
         auto_pause_for_manual_edit, update_continue_mode, submit_user_message
  <2>3. Ended(bulk) => Ended(bulk') BY <2>s, <2>2, EventsTyped, OtherThanEntered, EndedAppended
  <2>4. /\ task = "review" => task' = "review"
        /\ review_flow' = review_flow
        /\ phase' = "AwaitingReview" => phase = "AwaitingReview"
    <3>1. CASE Launch \/ Bootstrap
      BY <3>1 DEF Launch, launch_failed, Bootstrap, BootstrapStarts, sessionVars
    <3>2. CASE EscStop BY <3>2 DEF EscStop, auto_stop, sessionVars
    <3>3. CASE PressEnter
      BY <3>3, NotNone DEF PressEnter, auto_submit_prompt, auto_send_conversation, auto_stop,
         auto_dispatch_cli_prompt, Submit, sessionVars
    <3>4. CASE auto_pause_for_manual_edit BY <3>4 DEF auto_pause_for_manual_edit, sessionVars
    <3>5. ASSUME NEW mode \in Modes, update_continue_mode(mode)
          PROVE phase' = phase /\ task' = task /\ review_flow' = review_flow
      BY <3>5 DEF update_continue_mode, sessionVars
    <3>6. CASE submit_user_message
      BY <3>6, NotNone DEF submit_user_message, Submit, sessionVars
    <3> QED BY <1>2, <3>1, <3>2, <3>3, <3>4, <3>5, <3>6 DEF User
  <2> QED BY <2>1, <2>3, <2>4, ReviewKept
<1> QED BY <1>1, <1>2

LEMMA HandlerReview ==
    ASSUME HostInv, ReviewPart, HandleEvent
    PROVE  ReviewPart'
<1>k. Keeps(Head(bulk).kind) BY HandlerQueue, ConsumesKeeps
<1>q. Event("Exited").kind = "Exited" BY OtherThanEntered
<1>s. bulk \in Seq(Events) BY DEF HostInv, Shape
<1>n. bulk # <<>>
  BY DEF HandleEvent, DecisionIgnored, DecisionPlanning, DecisionContinue, DecisionSuccess,
         DecisionFailed, auto_handle_user_reply, auto_handle_restart, RestartIgnored, on_error,
         insert_final_answer, auto_on_turn_complete, QuiescentIgnored, EnteredReviewMode,
         ExitedReviewMode, Receive
<1>t. Ended(bulk) => Ended(Tail(bulk)) /\ (Head(bulk) = Event("Entered") => Has(Tail(bulk), Event("Exited")))
  BY <1>s, <1>n, EndedTaken
<1>1. CASE EnteredReviewMode
  <2>1. Head(bulk).kind = "Entered" /\ bulk' = Tail(bulk) /\ task' = task
    BY <1>1 DEF EnteredReviewMode, Receive, sessionVars
  <2>2. Head(bulk) = Event("Entered")
    <3>1. Head(bulk) \in Events BY HandlerQueue
    <3> QED BY <2>1, <3>1 DEF Events, Event
  <2> QED BY <1>t, <2>1, <2>2 DEF ReviewPart, ReviewSeen
<1>2. CASE ExitedReviewMode
  <2>1. bulk' = Tail(bulk) /\ task' = task /\ review_flow' = FALSE /\ phase' # "AwaitingReview"
    BY <1>2 DEF ExitedReviewMode, auto_send_conversation, auto_stop, sessionVars, controllerVars
  <2> QED BY <1>t, <2>1 DEF ReviewPart, ReviewSeen
<1>3. CASE ~EnteredReviewMode /\ ~ExitedReviewMode
  <2>1. Head(bulk).kind # "Exited"
    BY <1>3 DEF HandleEvent, DecisionIgnored, DecisionPlanning, DecisionContinue, DecisionSuccess, DecisionFailed,
       auto_handle_user_reply, auto_handle_restart, RestartIgnored, on_error, insert_final_answer,
       auto_on_turn_complete, QuiescentIgnored, Receive
  <2>2. Has(bulk, Event("Exited")) => Has(bulk', Event("Exited")) BY <1>k, <1>q, <2>1 DEF Keeps
  <2>3. bulk' = Tail(bulk) \/ bulk' = Append(Tail(bulk), Decision(0, "Planning"))
    BY DEF HandleEvent, DecisionIgnored, DecisionPlanning, DecisionContinue, DecisionSuccess,
           DecisionFailed, auto_handle_user_reply, auto_handle_restart, RestartIgnored, on_error,
           insert_final_answer, auto_on_turn_complete, QuiescentIgnored, EnteredReviewMode,
           ExitedReviewMode
  <2>4. Ended(bulk) => Ended(bulk')
    <3>1. Tail(bulk) \in Seq(Events) BY <1>s, <1>n, Taken
    <3> QED BY <1>t, <2>3, <3>1, EventsTyped, OtherThanEntered, EndedAppended
  <2>5. /\ task = "review" => task' = "review"
        /\ review_flow' = review_flow
        /\ phase' = "AwaitingReview" => phase = "AwaitingReview" \/ review_flow
    <3>1. CASE DecisionIgnored \/ RestartIgnored \/ QuiescentIgnored
      BY <3>1 DEF DecisionIgnored, RestartIgnored, QuiescentIgnored, hostVars, controllerVars, sessionVars
    <3>2. CASE DecisionPlanning \/ DecisionSuccess
      BY <3>2, NotNone DEF DecisionPlanning, DecisionSuccess, auto_dispatch_cli_prompt, Submit
    <3>3. CASE DecisionContinue \/ DecisionFailed
      BY <3>3 DEF DecisionContinue, DecisionFailed, auto_pause_for_transient_failure, auto_stop, sessionVars
    <3>4. CASE auto_handle_user_reply
      BY <3>4, NotNone DEF auto_handle_user_reply, Submit, sessionVars
    <3>5. CASE auto_handle_restart BY <3>5 DEF auto_handle_restart, sessionVars
    <3>6. CASE on_error
      BY <3>6 DEF on_error, auto_pause_for_transient_failure, controllerVars, sessionVars
    <3>7. CASE insert_final_answer
      BY <3>7 DEF insert_final_answer, auto_send_conversation, auto_stop, controllerVars, sessionVars
    <3>8. CASE auto_on_turn_complete
      BY <3>8 DEF auto_on_turn_complete, auto_send_conversation, auto_stop, sessionVars
    <3> QED BY <1>3, <3>1, <3>2, <3>3, <3>4, <3>5, <3>6, <3>7, <3>8 DEF HandleEvent
  <2> QED BY <2>2, <2>4, <2>5, ReviewKept
<1> QED BY <1>1, <1>2, <1>3

\* The session's two events of a task that ends.
LEMMA EndedSent ==
    ASSUME NEW a \in Events, NEW b \in Events, bulk \in Seq(Events), bulk' = bulk \o <<a, b>>,
           b # Event("Entered"), a # Event("Entered")
    PROVE  /\ Ended(bulk) => Ended(bulk')
           /\ a = Event("Exited") => Ended(bulk') /\ Has(bulk', a)
<1>1. bulk' = Append(Append(bulk, a), b) OBVIOUS
<1>2. Append(bulk, a) \in Seq(Events) /\ Has(Append(bulk, a), a) BY Appended
<1>3. Ended(bulk) \/ a = Event("Exited") => Ended(Append(bulk, a)) BY EndedAppended
<1>4. Ended(Append(bulk, a)) => Ended(bulk') BY <1>1, <1>2, EndedAppended
<1>5. \A i \in 1 .. Len(Append(bulk, a)) : Has(bulk', Append(bulk, a)[i]) BY <1>1, <1>2, Appended
<1>6. Has(bulk', a) BY <1>2, <1>5 DEF Has
<1> QED BY <1>3, <1>4, <1>6

LEMMA OtherReview ==
    ASSUME HostInv, ReviewPart,
           Timers \/ (\E r \in 1 .. runs : CoordStep(r)) \/ SessionEnds \/ SessionFails
    PROVE  ReviewPart'
<1>s. Shape /\ bulk \in Seq(Events) BY DEF HostInv, Shape
<1>1. Has(bulk, Event("Exited")) => Has(bulk', Event("Exited")) BY OtherQueue, GrowsKeeps
<1>2. ASSUME NEW c \in countdowns, CountdownSubmits(c) PROVE ReviewPart'
  <2>1. /\ task = "review" => task' = "review"
        /\ review_flow' = review_flow /\ bulk' = bulk
        /\ phase' = "AwaitingReview" => phase = "AwaitingReview"
    BY <1>2, NotNone DEF CountdownSubmits, Live, auto_submit_prompt, auto_send_conversation, auto_stop,
       auto_dispatch_cli_prompt, Submit, sessionVars
  <2> QED BY <2>1, ReviewKept
<1>3. ASSUME NEW u \in restarts, RestartTimer(u) PROVE ReviewPart'
  <2>1. Restart(u) \in Events BY <1>3, <1>s, EventsTyped DEF Shape
  <2>2. bulk' = Append(bulk, Restart(u)) /\ task' = task /\ review_flow' = review_flow /\ phase' = phase
    BY <1>3 DEF RestartTimer, hostVars, controllerVars, sessionVars
  <2>3. Ended(bulk) => Ended(bulk') BY <1>s, <2>1, <2>2, OtherThanEntered, EndedAppended
  <2> QED BY <1>1, <2>2, <2>3, ReviewKept
<1>4. ASSUME NEW r \in 1 .. runs, CoordStep(r) PROVE ReviewPart'
  <2>1. coord[r].seq + 1 \in Nat BY <1>s DEF Shape, Coordinators
  <2>2. PICK e \in Events : bulk' = Append(bulk, e) /\ e # Event("Entered")
    <3>1. ASSUME NEW status \in {"Continue", "Success", "Failed"}, CoordDecide(r, status)
          PROVE  \E e \in Events : bulk' = Append(bulk, e) /\ e # Event("Entered")
      BY <2>1, <3>1, EventsTyped, OtherThanEntered DEF CoordDecide
    <3>2. ASSUME NEW cli \in BOOLEAN, CoordReply(r, cli)
          PROVE  \E e \in Events : bulk' = Append(bulk, e) /\ e # Event("Entered")
      BY <3>2, EventsTyped, OtherThanEntered DEF CoordReply
    <3> QED BY <1>4, <3>1, <3>2 DEF CoordStep
  <2>3. Ended(bulk) => Ended(bulk') BY <1>s, <2>2, EndedAppended
  <2>4. task' = task /\ review_flow' = review_flow /\ phase' = phase
    BY <1>4 DEF CoordStep, CoordDecide, CoordReply, Thread, hostVars, controllerVars, sessionVars
  <2> QED BY <1>1, <2>3, <2>4, ReviewKept
<1>5. CASE SessionReviewed
  <2>1. Event("Exited") \in Events /\ Event("Quiescent") \in Events BY EventsTyped
  <2>2. Event("Exited") # Event("Entered") /\ Event("Quiescent") # Event("Entered") BY DEF Event
  <2>3. bulk' = bulk \o <<Event("Exited"), Event("Quiescent")>> BY <1>5 DEF SessionReviewed
  <2>4. Ended(bulk') /\ Has(bulk', Event("Exited")) BY <1>s, <2>1, <2>2, <2>3, EndedSent
  <2> QED BY <2>4 DEF ReviewPart, ReviewSeen
<1>6. CASE (\E v \in Verdicts : SessionQuiescent(v)) \/ SessionFails
  <2>1. PICK a \in Events, b \in Events :
            bulk' = bulk \o <<a, b>> /\ a # Event("Entered") /\ b # Event("Entered")
    <3>1. Event("Error") # Event("Entered") /\ Event("Quiescent") # Event("Entered") BY DEF Event
    <3> QED BY <1>6, <3>1, EventsTyped, OtherThanEntered DEF SessionFails, SessionQuiescent
  <2>2. Ended(bulk) => Ended(bulk') BY <1>s, <2>1, EndedSent
  <2>3. task # "review" /\ review_flow' = review_flow /\ phase' = phase
    BY <1>6 DEF SessionFails, SessionQuiescent, Session, hostVars, controllerVars
  <2> QED BY <1>1, <2>2, <2>3, ReviewKept
<1> QED BY <1>2, <1>3, <1>4, <1>5, <1>6 DEF Timers, SessionEnds

-----------------------------------------------------------------------------
(* The decision of the coordinator. *)

\* What the channel holds for a host that waits for a decision stays in it.
DecisionsStay ==
    /\ HasDecision(bulk) => HasDecision(bulk')
    /\ \A g : HasSeq(bulk, g) => HasSeq(bulk', g)
    /\ Has(bulk, UserReply(FALSE)) => Has(bulk', UserReply(FALSE))

LEMMA OnTheWay ==
    DecisionOnTheWay <=>
        \/ HasDecision(bulk)
        \/ Has(bulk, UserReply(FALSE))
        \/ /\ auto_handle # None
           /\ coord[auto_handle].live
           /\ coord[auto_handle].prompts > 0 \/ (coord[auto_handle].work > 0 /\ coord[auto_handle].gate = None)
BY DEF DecisionOnTheWay, InBulk, HasDecision, Has

\* The host's coordinator does nothing.
LEMMA DecisionKept ==
    ASSUME DecisionPart, DecisionsStay, auto_handle' = auto_handle,
           auto_handle # None => coord'[auto_handle] = coord[auto_handle],
           phase' = "AwaitingDecision" => phase = "AwaitingDecision"
    PROVE  DecisionPart'
<1>1. GateSeen' BY DEF DecisionPart, DecisionsStay, GateSeen
<1>2. DecisionOnTheWay => DecisionOnTheWay' BY OnTheWay DEF DecisionsStay, DecisionOnTheWay, HasDecision, Has, InBulk
<1> QED BY <1>1, <1>2 DEF DecisionPart

\* The handle is gone and the host does not wait.
LEMMA DecisionLeft ==
    ASSUME auto_handle' = None, phase' # "AwaitingDecision"
    PROVE  DecisionPart'
BY DEF DecisionPart, GateSeen

\* The host's coordinator is sent something to decide on or to answer.
LEMMA DecisionDue ==
    ASSUME DecisionPart, DecisionsStay, auto_handle' = auto_handle, auto_handle # None,
           coord'[auto_handle].live, coord'[auto_handle].gate = coord[auto_handle].gate,
           coord'[auto_handle].prompts > 0 \/ coord'[auto_handle].work > 0
    PROVE  DecisionPart'
<1>1. GateSeen' BY DEF DecisionPart, DecisionsStay, GateSeen
<1>2. CASE coord'[auto_handle].gate = None BY <1>2 DEF DecisionOnTheWay, DecisionPart, GateSeen
<1>3. CASE coord'[auto_handle].gate # None
  <2>1. HasSeq(bulk', coord'[auto_handle].gate) BY <1>1, <1>3 DEF GateSeen
  <2>2. HasDecision(bulk') BY <2>1 DEF HasSeq, HasDecision
  <2>3. DecisionOnTheWay' BY <2>2 DEF HasDecision, DecisionOnTheWay
  <2> QED BY <1>1, <2>3 DEF DecisionPart
<1> QED BY <1>2, <1>3

\* A decision is consumed and acknowledged.
LEMMA DecisionTaken ==
    ASSUME HostInv, DecisionPart, HandleEvent, coord' = Acked(Head(bulk).seq), auto_handle' = auto_handle,
           phase' # "AwaitingDecision"
    PROVE  DecisionPart'
<1>1. \A g : HasSeq(bulk, g) /\ Head(bulk).seq # g => HasSeq(bulk', g) BY HandlerQueue, ConsumesKeeps
<1>2. CASE auto_handle # None /\ coord[auto_handle].gate = Head(bulk).seq
  <2>1. auto_handle \in 1 .. runs /\ coord \in [1 .. runs -> Coordinators] BY <1>2 DEF HostInv, Shape
  <2>2. coord[auto_handle] \in Coordinators BY <2>1
  <2>3. coord' = [coord EXCEPT ![auto_handle].gate = None] BY <1>2 DEF Acked
  <2>4. coord'[auto_handle].gate = None BY <2>1, <2>2, <2>3 DEF Coordinators
  <2> QED BY <2>4 DEF DecisionPart, GateSeen
<1>3. CASE ~(auto_handle # None /\ coord[auto_handle].gate = Head(bulk).seq)
  <2>1. coord' = coord BY <1>3 DEF Acked
  <2> QED BY <1>1, <1>3, <2>1 DEF DecisionPart, GateSeen
<1> QED BY <1>2, <1>3

LEMMA NewestCoordinator ==
    ASSUME HostInv, NEW seeded \in BOOLEAN, coord' = Append(Cancelled(coord), NewCoordinator(seeded))
    PROVE  coord'[runs + 1] = NewCoordinator(seeded)
<1>1. Shape /\ OneCoordinator /\ runs \in Nat BY DEF HostInv, Shape
<1> DEFINE old == Cancelled(coord)
<1>2. old \in [1 .. runs -> Coordinators] BY <1>1, AckedKin, AllCancelled
<1> HIDE DEF old
<1>3. old \in Seq(Coordinators) /\ Len(old) = runs BY <1>1, <1>2
<1> QED BY <1>3 DEF old

\* A new coordinator begins with a planning decision, or with the conversation.
LEMMA DecisionStarted ==
    ASSUME HostInv, NEW seeded \in BOOLEAN, coord' = Append(Cancelled(coord), NewCoordinator(seeded)),
           auto_handle' = runs + 1, seeded => Has(bulk', Decision(0, "Planning"))
    PROVE  DecisionPart'
<1>1. coord'[auto_handle'] = NewCoordinator(seeded) BY NewestCoordinator
<1>2. auto_handle' # None BY DEF HostInv, Shape
<1>3. CASE seeded
  <2>1. HasSeq(bulk', 0) /\ HasDecision(bulk') BY <1>3 DEF Has, HasSeq, HasDecision, Decision
  <2>n. NewCoordinator(TRUE).gate = 0 BY DEF NewCoordinator
  <2>e. seeded = TRUE BY <1>3
  <2>2. coord'[auto_handle'].gate = 0 BY <1>1, <2>n, <2>e
  <2>3. DecisionOnTheWay' BY <2>1 DEF HasDecision, DecisionOnTheWay
  <2> QED BY <2>1, <2>2, <2>3 DEF DecisionPart, GateSeen
<1>4. CASE ~seeded
  <2>n. LET c == NewCoordinator(FALSE) IN c.gate = None /\ c.live /\ c.work > 0 BY DEF NewCoordinator
  <2>e. seeded = FALSE BY <1>4
  <2>1. coord'[auto_handle'].gate = None /\ coord'[auto_handle'].live /\ coord'[auto_handle'].work > 0
    BY <1>1, <2>n, <2>e
  <2>2. DecisionOnTheWay' BY <1>2, <2>1 DEF DecisionOnTheWay
  <2> QED BY <2>1, <2>2 DEF DecisionPart, GateSeen
<1> QED BY <1>3, <1>4

LEMMA ConversationDecision ==
    ASSUME HostInv, DecisionPart, DecisionsStay, NEW idle, NEW message, NEW request,
           idle # "AwaitingDecision", auto_send_conversation(idle, message, request)
    PROVE  DecisionPart'
<1>1. CASE auto_handle = None
  <2>1. auto_handle' = None /\ phase' = idle BY <1>1 DEF auto_send_conversation
  <2> QED BY <2>1, DecisionLeft
<1>2. CASE auto_handle # None /\ coord[auto_handle].live
  <2>1. coord' = [coord EXCEPT ![auto_handle].work = @ + 1] /\ auto_handle' = auto_handle
    BY <1>2 DEF auto_send_conversation
  <2>2. auto_handle \in 1 .. runs /\ coord \in [1 .. runs -> Coordinators] BY <1>2 DEF HostInv, Shape
  <2>3. coord[auto_handle] \in Coordinators BY <2>2
  <2>4. /\ coord'[auto_handle].live /\ coord'[auto_handle].gate = coord[auto_handle].gate
        /\ coord'[auto_handle].work = coord[auto_handle].work + 1
    BY <1>2, <2>1, <2>2, <2>3 DEF Coordinators
  <2>5. coord'[auto_handle].work > 0 BY <2>3, <2>4 DEF Coordinators
  <2> QED BY <1>2, <2>1, <2>4, <2>5, DecisionDue
<1>3. CASE auto_handle # None /\ ~coord[auto_handle].live
  <2>1. auto_handle' = None /\ phase' # "AwaitingDecision" BY <1>3 DEF auto_send_conversation, auto_stop
  <2> QED BY <2>1, DecisionLeft
<1> QED BY <1>1, <1>2, <1>3

LEMMA SubmitDecision ==
    ASSUME HostInv, DecisionPart, DecisionsStay, phase = "AwaitingCoordinator", auto_submit_prompt
    PROVE  DecisionPart'
<1>1. CASE \E m, n : auto_send_conversation(phase, m, n) BY <1>1, ConversationDecision
<1>2. CASE auto_stop(coord) BY <1>2, DecisionLeft DEF auto_stop
<1>3. CASE auto_dispatch_cli_prompt("turn") /\ UNCHANGED <<auto_handle, coordVars>>
  BY <1>3, DecisionKept DEF auto_dispatch_cli_prompt, coordVars
<1> QED BY <1>1, <1>2, <1>3 DEF auto_submit_prompt

LEMMA UserDecision ==
    ASSUME HostInv, DecisionPart, User
    PROVE  DecisionPart'
<1>s. bulk \in Seq(Events) BY DEF HostInv, Shape
<1>q. DecisionsStay BY UserQueue, GrowsKeeps DEF DecisionsStay
<1>1. CASE Launch
  <2>1. CASE Start(TRUE)
    <3>1. Decision(0, "Planning") \in Events BY EventsTyped
    <3>2. bulk' = Append(bulk, Decision(0, "Planning")) BY <2>1 DEF Start
    <3>3. Has(bulk', Decision(0, "Planning")) BY <1>s, <3>1, <3>2, Appended
    <3> QED BY <2>1, <3>3, DecisionStarted DEF Start
  <2>2. CASE launch_failed BY <2>2, DecisionLeft DEF launch_failed
  <2> QED BY <1>1, <2>1, <2>2 DEF Launch
<1>2. CASE Bootstrap
  <2>1. CASE Start(FALSE) BY <2>1, DecisionStarted DEF Start
  <2>2. CASE launch_failed BY <2>2, DecisionLeft DEF launch_failed
  <2> QED BY <1>2, <2>1, <2>2 DEF Bootstrap, BootstrapStarts
<1>3. CASE EscStop BY <1>3, DecisionLeft DEF EscStop, auto_stop
<1>4. CASE PressEnter BY <1>4, <1>q, SubmitDecision DEF PressEnter
<1>5. CASE auto_pause_for_manual_edit BY <1>5, <1>q, DecisionKept DEF auto_pause_for_manual_edit, coordVars
<1>6. ASSUME NEW mode \in Modes, update_continue_mode(mode) PROVE DecisionPart'
  BY <1>6, <1>q, DecisionKept DEF update_continue_mode
<1>7. CASE submit_user_message
  <2>1. CASE Routed
    <3>1. /\ coord' = [coord EXCEPT ![auto_handle].prompts = @ + 1] /\ auto_handle' = auto_handle
          /\ auto_handle # None /\ coord[auto_handle].live
      BY <1>7, <2>1 DEF submit_user_message, Routed
    <3>2. auto_handle \in 1 .. runs /\ coord \in [1 .. runs -> Coordinators] BY <3>1 DEF HostInv, Shape
    <3>3. coord[auto_handle] \in Coordinators BY <3>2
    <3>4. /\ coord'[auto_handle].live /\ coord'[auto_handle].gate = coord[auto_handle].gate
          /\ coord'[auto_handle].prompts = coord[auto_handle].prompts + 1
      BY <3>1, <3>2, <3>3 DEF Coordinators
    <3>5. coord'[auto_handle].prompts > 0 BY <3>3, <3>4 DEF Coordinators
    <3> QED BY <1>q, <3>1, <3>4, <3>5, DecisionDue
  <2>2. CASE ~Routed
    <3>1. coord' = coord /\ auto_handle' = auto_handle /\ (phase' = "AwaitingDecision" => phase = "AwaitingDecision")
      BY <1>7, <2>2 DEF submit_user_message
    <3> QED BY <1>q, <3>1, DecisionKept
  <2> QED BY <2>1, <2>2
<1>8. CASE begin_review
  BY <1>8, <1>q, DecisionKept DEF begin_review, hostVars, controllerVars, coordVars
<1> QED BY <1>1, <1>2, <1>3, <1>4, <1>5, <1>6, <1>7, <1>8 DEF User

LEMMA HandlerDecision ==
    ASSUME HostInv, DecisionPart, HandleEvent
    PROVE  DecisionPart'
<1>k. Keeps(Head(bulk).kind) BY HandlerQueue, ConsumesKeeps
<1>r. UserReply(FALSE).kind = "UserReply" BY DEF UserReply
<1>q. Head(bulk).kind \notin {"Decision", "UserReply"} => DecisionsStay BY <1>k, <1>r DEF Keeps, DecisionsStay
<1>1. CASE DecisionIgnored
  <2>1. auto_handle = None BY <1>1 DEF DecisionIgnored, HostInv, OneCoordinator
  <2>2. auto_handle' = auto_handle /\ phase' = phase /\ phase \in Inactive
    BY <1>1 DEF DecisionIgnored, hostVars, controllerVars, is_active
  <2> QED BY <2>1, <2>2, DecisionLeft DEF Inactive
<1>2. CASE DecisionPlanning \/ DecisionContinue \/ DecisionSuccess
  <2>1. coord' = Acked(Head(bulk).seq) /\ auto_handle' = auto_handle /\ phase' # "AwaitingDecision"
    BY <1>2 DEF DecisionPlanning, DecisionContinue, DecisionSuccess, auto_dispatch_cli_prompt
  <2> QED BY <2>1, DecisionTaken
<1>3. CASE DecisionFailed
  BY <1>3, DecisionLeft DEF DecisionFailed, auto_pause_for_transient_failure, auto_stop
<1>4. CASE auto_handle_user_reply
  <2>1. /\ coord' = coord /\ auto_handle' = auto_handle /\ Head(bulk).kind = "UserReply" /\ bulk' = Tail(bulk)
        /\ phase' = "AwaitingDecision" => phase = "AwaitingDecision" /\ Head(bulk).cli
    BY <1>4 DEF auto_handle_user_reply, coordVars, Receive
  <2>2. /\ HasDecision(bulk) => HasDecision(bulk')
        /\ \A g : HasSeq(bulk, g) => HasSeq(bulk', g)
    BY <1>k, <2>1 DEF Keeps
  <2>3. CASE Head(bulk).cli
    <3>1. Head(bulk) # UserReply(FALSE) BY <2>3 DEF UserReply
    <3>2. Has(bulk, UserReply(FALSE)) => Has(bulk', UserReply(FALSE))
      BY <3>1, HandlerQueue DEF Consumes, Has
    <3> QED BY <2>1, <2>2, <3>2, DecisionKept DEF DecisionsStay
  <2>4. CASE ~Head(bulk).cli BY <2>1, <2>2, <2>4 DEF DecisionPart, GateSeen
  <2> QED BY <2>3, <2>4
<1>5. CASE auto_handle_restart
  <2>1. Head(bulk).kind = "Restart" BY <1>5 DEF auto_handle_restart, Receive
  <2>2. CASE /\ coord' = Append(Cancelled(coord), NewCoordinator(TRUE)) /\ auto_handle' = runs + 1
             /\ bulk' = Append(Tail(bulk), Decision(0, "Planning"))
    <3>1. bulk # <<>> /\ bulk \in Seq(Events) BY <1>5 DEF auto_handle_restart, Receive, HostInv, Shape
    <3>2. Tail(bulk) \in Seq(Events) /\ Decision(0, "Planning") \in Events BY <3>1, Taken, EventsTyped
    <3>3. Has(bulk', Decision(0, "Planning")) BY <2>2, <3>2, Appended
    <3> QED BY <2>2, <3>3, DecisionStarted
  <2>3. CASE phase' = "AwaitingGoalEntry" /\ UNCHANGED <<auto_handle, coordVars>>
    BY <1>q, <2>1, <2>3, DecisionKept DEF coordVars
  <2> QED BY <1>5, <2>2, <2>3 DEF auto_handle_restart
<1>6. CASE RestartIgnored \/ QuiescentIgnored
  <2>1. Head(bulk).kind \notin {"Decision", "UserReply"} BY <1>6 DEF RestartIgnored, QuiescentIgnored, Receive
  <2>2. coord' = coord /\ auto_handle' = auto_handle /\ phase' = phase
    BY <1>6 DEF RestartIgnored, QuiescentIgnored, hostVars, controllerVars, coordVars
  <2> QED BY <1>q, <2>1, <2>2, DecisionKept
<1>7. CASE on_error
  <2>1. CASE auto_pause_for_transient_failure(coord)
    BY <1>7, <2>1, DecisionLeft DEF on_error, auto_pause_for_transient_failure
  <2>2. CASE UNCHANGED <<controllerVars, auto_handle, coordVars, restarts>>
    <3>1. Head(bulk).kind \notin {"Decision", "UserReply"} BY <1>7 DEF on_error, Receive
    <3>2. coord' = coord /\ auto_handle' = auto_handle /\ phase' = phase
      BY <1>7, <2>2 DEF on_error, controllerVars, coordVars
    <3> QED BY <1>q, <3>1, <3>2, DecisionKept
  <2> QED BY <1>7, <2>1, <2>2 DEF on_error
<1>8. CASE insert_final_answer
  <2>1. Head(bulk).kind \notin {"Decision", "UserReply"} BY <1>8 DEF insert_final_answer, Receive
  <2>2. CASE UNCHANGED <<controllerVars, auto_handle, coordVars>>
    BY <1>q, <2>1, <2>2, DecisionKept DEF controllerVars, coordVars
  <2>3. CASE \E m, n : auto_send_conversation("Active", m, n) BY <1>q, <2>1, <2>3, ConversationDecision
  <2>4. CASE auto_stop(coord) BY <2>4, DecisionLeft DEF auto_stop
  <2> QED BY <1>8, <2>2, <2>3, <2>4 DEF insert_final_answer
<1>9. CASE auto_on_turn_complete
  <2>1. Head(bulk).kind \notin {"Decision", "UserReply"} BY <1>9 DEF auto_on_turn_complete, Receive
  <2>2. CASE phase' = "AwaitingReview" /\ UNCHANGED <<auto_handle, coordVars>>
    BY <1>q, <2>1, <2>2, DecisionKept DEF coordVars
  <2>3. CASE \E m, n : auto_send_conversation("Active", m, n) BY <1>q, <2>1, <2>3, ConversationDecision
  <2> QED BY <1>9, <2>2, <2>3 DEF auto_on_turn_complete
<1>10. CASE EnteredReviewMode
  <2>1. Head(bulk).kind \notin {"Decision", "UserReply"} BY <1>10 DEF EnteredReviewMode, Receive
  <2>2. coord' = coord /\ auto_handle' = auto_handle /\ (phase' = "AwaitingDecision" => phase = "AwaitingDecision")
    BY <1>10 DEF EnteredReviewMode, coordVars
  <2> QED BY <1>q, <2>1, <2>2, DecisionKept
<1>11. CASE ExitedReviewMode
  <2>1. Head(bulk).kind \notin {"Decision", "UserReply"} BY <1>11 DEF ExitedReviewMode, Receive
  <2>2. CASE UNCHANGED <<controllerVars, auto_handle, coordVars>>
    BY <1>q, <2>1, <2>2, DecisionKept DEF controllerVars, coordVars
  <2>3. CASE \E m, n : auto_send_conversation("Active", m, n) BY <1>q, <2>1, <2>3, ConversationDecision
  <2> QED BY <1>11, <2>2, <2>3 DEF ExitedReviewMode
<1> QED BY <1>1, <1>2, <1>3, <1>4, <1>5, <1>6, <1>7, <1>8, <1>9, <1>10, <1>11 DEF HandleEvent

LEMMA OtherDecision ==
    ASSUME HostInv, DecisionPart,
           Timers \/ (\E r \in 1 .. runs : CoordStep(r)) \/ SessionEnds \/ SessionFails
    PROVE  DecisionPart'
<1>s. bulk \in Seq(Events) /\ coord \in [1 .. runs -> Coordinators] BY DEF HostInv, Shape
<1>q. DecisionsStay BY OtherQueue, GrowsKeeps DEF DecisionsStay
<1>1. ASSUME NEW c \in countdowns, CountdownSubmits(c) PROVE DecisionPart'
  BY <1>1, <1>q, SubmitDecision DEF CountdownSubmits, Live
<1>2. ASSUME NEW u \in restarts, RestartTimer(u) PROVE DecisionPart'
  BY <1>2, <1>q, DecisionKept DEF RestartTimer, hostVars, controllerVars, coordVars
<1>3. ASSUME NEW r \in 1 .. runs, NEW status \in {"Continue", "Success", "Failed"}, CoordDecide(r, status)
      PROVE  DecisionPart'
  <2>t. coord[r] \in Coordinators BY <1>s
  <2>1. auto_handle' = auto_handle /\ phase' = phase BY <1>3 DEF CoordDecide, Thread, hostVars, controllerVars
  <2> DEFINE new == [coord[r] EXCEPT !.work = @ - 1, !.seq = @ + 1, !.gate = coord[r].seq + 1,
                                     !.live = (status # "Failed")]
  <2>2. coord' = [coord EXCEPT ![r] = new] /\ bulk' = Append(bulk, Decision(coord[r].seq + 1, status))
    BY <1>3 DEF CoordDecide
  <2>3. new.gate = coord[r].seq + 1 BY <2>t DEF Coordinators
  <2> HIDE DEF new
  <2>4. CASE r = auto_handle
    <3>1. Decision(coord[r].seq + 1, status) \in Events BY <2>t, EventsTyped DEF Coordinators
    <3>2. Has(bulk', Decision(coord[r].seq + 1, status)) BY <1>s, <2>2, <3>1, Appended
    <3>3. HasSeq(bulk', coord[r].seq + 1) /\ HasDecision(bulk') BY <3>2 DEF Has, HasSeq, HasDecision, Decision
    <3>4. coord'[auto_handle].gate = coord[r].seq + 1 BY <1>s, <2>2, <2>3, <2>4
    <3>5. DecisionOnTheWay' BY <3>3 DEF HasDecision, DecisionOnTheWay
    <3> QED BY <2>1, <3>3, <3>4, <3>5 DEF DecisionPart, GateSeen
  <2>5. CASE r # auto_handle
    <3>1. auto_handle # None => coord'[auto_handle] = coord[auto_handle] BY <1>s, <2>2, <2>5 DEF HostInv, Shape
    <3> QED BY <1>q, <2>1, <3>1, DecisionKept
  <2> QED BY <2>4, <2>5
<1>4. ASSUME NEW r \in 1 .. runs, NEW cli \in BOOLEAN, CoordReply(r, cli)
      PROVE  DecisionPart'
  <2>t. coord[r] \in Coordinators BY <1>s
  <2>1. auto_handle' = auto_handle /\ phase' = phase BY <1>4 DEF CoordReply, Thread, hostVars, controllerVars
  <2>2. PICK more \in IF cli THEN {1} ELSE {0, 1} :
            coord' = [coord EXCEPT ![r].prompts = @ - 1, ![r].work = @ + more]
    BY <1>4 DEF CoordReply
  <2> DEFINE new == [coord[r] EXCEPT !.prompts = @ - 1, !.work = @ + more]
  <2>3. coord' = [coord EXCEPT ![r] = new] /\ bulk' = Append(bulk, UserReply(cli)) /\ coord[r].live
    BY <1>4, <2>2 DEF CoordReply
  <2>4. new.gate = coord[r].gate /\ new.live = coord[r].live /\ new.work = coord[r].work + more
    BY <2>t DEF Coordinators
  <2> HIDE DEF new
  <2>5. CASE r = auto_handle /\ cli
    <3>1. auto_handle # None BY <2>5
    <3>2. coord'[auto_handle] = new BY <1>s, <2>3, <2>5
    <3>3. new.work > 0 BY <2>t, <2>2, <2>4, <2>5 DEF Coordinators
    <3> QED BY <1>q, <2>1, <2>3, <2>4, <2>5, <3>1, <3>2, <3>3, DecisionDue
  <2>6. CASE r = auto_handle /\ ~cli
    <3>1. UserReply(FALSE) \in Events BY EventsTyped
    <3>2. Has(bulk', UserReply(FALSE)) BY <1>s, <2>3, <2>6, <3>1, Appended
    <3>3. DecisionOnTheWay' BY <3>2 DEF Has, DecisionOnTheWay, InBulk
    <3>4. coord'[auto_handle].gate = coord[auto_handle].gate BY <1>s, <2>3, <2>4, <2>6
    <3>5. GateSeen' BY <1>q, <2>1, <3>4 DEF DecisionPart, GateSeen, DecisionsStay
    <3> QED BY <3>3, <3>5 DEF DecisionPart
  <2>7. CASE r # auto_handle
    <3>1. auto_handle # None => coord'[auto_handle] = coord[auto_handle] BY <1>s, <2>3, <2>7 DEF HostInv, Shape
    <3> QED BY <1>q, <2>1, <3>1, DecisionKept
  <2> QED BY <2>5, <2>6, <2>7
<1>5. CASE SessionEnds \/ SessionFails
  <2>1. coord' = coord /\ auto_handle' = auto_handle /\ phase' = phase
    BY <1>5 DEF SessionEnds, SessionFails, SessionQuiescent, SessionReviewed, Session, hostVars, controllerVars, coordVars
  <2> QED BY <1>q, <2>1, DecisionKept
<1> QED BY <1>1, <1>2, <1>3, <1>4, <1>5 DEF Timers, CoordStep

-----------------------------------------------------------------------------
LEMMA InitHostInv == Init => HostInv
<1> SUFFICES ASSUME Init PROVE HostInv OBVIOUS
<1>1. Shape
  <2>1. runs = 0 /\ coord = <<>> /\ bulk = <<>> BY DEF Init
  <2>2. coord \in [1 .. runs -> Coordinators] BY <2>1
  <2>3. bulk \in Seq(Events) BY <2>1
  <2> QED BY <2>1, <2>2, <2>3 DEF Init, Shape
<1>2. OneCoordinator BY DEF Init, OneCoordinator
<1>3. PausedHasRestart BY DEF Init, PausedHasRestart
<1>4. Ticks BY DEF Init, Ticks
<1> QED BY <1>1, <1>2, <1>3, <1>4 DEF HostInv

LEMMA NextHostInv == HostInv /\ [Next]_vars => HostInv'
<1> SUFFICES ASSUME HostInv, [Next]_vars PROVE HostInv' OBVIOUS
<1>0. ASSUME CoordPart', RetryPart', Ticks', bulk' \in Seq(Events)
      PROVE  HostInv'
  BY <1>0 DEF CoordPart, RetryPart, HostInv, Shape
<1>1. CASE User BY <1>0, <1>1, UserCoord, UserQueue, UserRetry, UserTicks DEF Grows
<1>2. CASE HandleEvent
  BY <1>0, <1>2, HandlerCoord, HandlerQueue, HandlerRetry, HandlerTicks DEF Consumes
<1>3. CASE Timers \/ (\E r \in 1 .. runs : CoordStep(r)) \/ SessionEnds \/ SessionFails
  BY <1>0, <1>3, OtherCoord, OtherQueue, OtherRetry, OtherTicks DEF Grows
<1>4. CASE UNCHANGED vars
  <2>1. UNCHANGED <<phase, draftVars, retryVars, auto_handle, bulk, coord, runs, countdowns, restarts>>
    BY <1>4 DEF vars, hostVars, controllerVars, coordVars, timerVars
  <2>2. Shape' /\ Ticks' BY <2>1 DEF HostInv, Shape, Ticks, draftVars, retryVars
  <2>3. OneCoordinator' BY <2>1 DEF HostInv, OneCoordinator, is_active
  <2>4. PausedHasRestart' BY <2>1 DEF HostInv, PausedHasRestart, retryVars
  <2> QED BY <2>2, <2>3, <2>4 DEF HostInv
<1> QED BY <1>1, <1>2, <1>3, <1>4 DEF Next

\* The inductive invariant of the host: what it knows of its coordinators, of the
\* restart it waits for and of the countdowns that run, after any sequence of
\* commands, events, ticks and restarts.
THEOREM HostInvariant == Spec => []HostInv
BY InitHostInv, NextHostInv, PTL DEF Spec

\* auto_stop, auto_launch, the pause after an error and the restart all cancel the
\* coordinator they let go of: the host never leaves one running beside its own, and
\* none without a run.
THEOREM NoStrayCoordinator == Spec => []OneCoordinator
<1>1. HostInv => OneCoordinator BY DEF HostInv
<1> QED BY <1>1, HostInvariant, PTL

\* auto_pause_for_transient_failure arms the restart it waits for, and no event, reply,
\* review or later pause loses it: a paused run always has its restart on the way.
THEOREM RestartOnTheWay == Spec => []PausedHasRestart
<1>1. HostInv => PausedHasRestart BY DEF HostInv
<1> QED BY <1>1, HostInvariant, PTL

\* handle_countdown_tick compares nothing but an id, and that is enough within a run:
\* a countdown submits only the draft it was started for.
THEOREM OwnDraft == Spec => []TickSubmitsItsDraft
<1>1. HostInv => TickSubmitsItsDraft BY DEF HostInv, Ticks, TickSubmitsItsDraft, Live
<1> QED BY <1>1, HostInvariant, PTL

\* Ids, tokens and attempts stay natural numbers, each countdown belongs to a run that was
\* started, and every phase, prompt and task is one the handlers know.
THEOREM HostTyped == Spec => []HostTypeOK
<1> DEFINE Typed == Flags /\ BeforeRuns /\ countdowns \subseteq CountdownIds
<1>1. Init => Typed
  <2> SUFFICES ASSUME Init PROVE Typed OBVIOUS
  <2>0. phase \in Phases /\ continue_mode \in Modes /\ runs <= MaxRuns /\ draft \in Nat /\ inputs \in 0 .. MaxInputs
    BY DEF Init, Phases, Inactive, Modes
  <2>1. Flags BY <2>0 DEF Init, Flags
  <2>2. BeforeRuns BY DEF Init, BeforeRuns, Inactive
  <2>3. countdowns \subseteq CountdownIds BY DEF Init
  <2> QED BY <2>1, <2>2, <2>3
<1>2. HostInv /\ HostInv' /\ Typed /\ [Next]_vars => Typed'
  <2> SUFFICES ASSUME HostInv, HostInv', Typed, [Next]_vars PROVE Typed' OBVIOUS
  <2>1. CASE Next
    <3>1. runs \in Nat BY DEF HostInv, Shape
    <3>2. Flags' BY <2>1, <3>1, UserFlags, HandlerFlags, OtherFlags DEF Next
    <3>3. BeforeRuns' BY <2>1, StepBeforeRuns
    <3>4. (countdowns \subseteq CountdownIds)' BY <2>1, <3>2, StepCountdowns DEF CountdownIds, Runs
    <3> QED BY <3>2, <3>3, <3>4
  <2>2. CASE UNCHANGED vars
    BY <2>2 DEF vars, hostVars, controllerVars, draftVars, coordVars, timerVars, sessionVars, Flags, BeforeRuns,
         CountdownIds, Runs
  <2> QED BY <2>1, <2>2
<1>3. HostInv /\ Typed => HostTypeOK
  <2> SUFFICES ASSUME HostInv, Typed PROVE HostTypeOK OBVIOUS
  <2>1. runs \in 0 .. MaxRuns /\ auto_handle \in Runs \union {None} BY DEF HostInv, Shape, Flags, Runs
  <2> QED BY <2>1 DEF HostInv, Shape, Ticks, Flags, CountdownIds, RestartIds, HostTypeOK
<1> QED BY <1>1, <1>2, <1>3, HostInvariant, PTL DEF Spec

\* Whatever the host waits for is on its way, after any sequence of inputs, errors,
\* reviews, retries and late replies.  The gate of auto_coordinator and the end of a
\* review must be in the channel for the wait to be covered at the next step.
THEOREM WaitsAreCovered == Spec => []WaitCovered
<1>1. Init => WaitInv
  <2> SUFFICES ASSUME Init PROVE WaitInv OBVIOUS
  <2>1. WaitCovered BY DEF Init, WaitCovered
  <2>2. GateSeen BY DEF Init, GateSeen
  <2>3. ReviewSeen BY DEF Init, ReviewSeen, Ended
  <2> QED BY <2>1, <2>2, <2>3 DEF WaitInv
<1>2. HostInv /\ WaitInv /\ [Next]_vars => WaitInv'
  <2> SUFFICES ASSUME HostInv, WaitInv, [Next]_vars PROVE WaitInv' OBVIOUS
  <2>0. ResponsePart /\ ReviewPart /\ DecisionPart BY WaitParts
  <2>p. ASSUME ResponsePart', ReviewPart', DecisionPart' PROVE WaitInv'
    BY <2>p DEF WaitInv, WaitCovered, ResponsePart, ReviewPart, DecisionPart, InBulk, Has
  <2>1. CASE User BY <2>0, <2>p, <2>1, UserResponse, UserReview, UserDecision
  <2>2. CASE HandleEvent BY <2>0, <2>p, <2>2, HandlerResponse, HandlerReview, HandlerDecision
  <2>3. CASE Timers \/ (\E r \in 1 .. runs : CoordStep(r)) \/ SessionEnds \/ SessionFails
    BY <2>0, <2>p, <2>3, OtherResponse, OtherReview, OtherDecision
  <2>4. CASE UNCHANGED vars
    BY <2>4 DEF vars, hostVars, controllerVars, coordVars, sessionVars, WaitInv, WaitCovered, GateSeen, ReviewSeen,
       DecisionOnTheWay, InBulk, HasSeq, Has, Ended
  <2> QED BY <2>1, <2>2, <2>3, <2>4 DEF Next
<1>3. WaitInv => WaitCovered BY DEF WaitInv
<1> QED BY <1>1, <1>2, <1>3, HostInvariant, PTL DEF Spec
=============================================================================
