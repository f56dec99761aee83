------------------------ MODULE AutoDriveExecProofs ------------------------
(***************************************************************************)
(* The headless driver is a client of the coordinator, and the two take    *)
(* strict turns, for every queue capacity, retry limit and turn cap.       *)
(***************************************************************************)
EXTENDS AutoDriveExec, CoordinatorClientProofs

USE NoneAssumption, QueueCapAssumption, MaxRecoveryAssumption, TurnCapAssumption,
    MaxSnapshotsAssumption, MaxDupAcksAssumption

latest == next_snapshot - 1

\* From position k on the command channel holds nothing but Stop.
StopsFrom(k) == \A i \in k .. Len(cmds) : cmds[i] = Stop

\* The newest conversation is in the command channel, after the ack it waits for.
Sent ==
    /\ pc \in {"top", "recv"}
    /\ pending_conversation = None
    /\ \/ /\ pending_ack_seq = None
          /\ Len(cmds) >= 1
          /\ cmds[1] = UpdateConversation(latest)
          /\ StopsFrom(2)
       \/ /\ pending_ack_seq # None
          /\ Len(cmds) >= 2
          /\ cmds[1] = AckDecision(pending_ack_seq)
          /\ cmds[2] = UpdateConversation(latest)
          /\ StopsFrom(3)

\* The coordinator has taken it and is about to decide on it, or is deciding.
Taken ==
    /\ pending_ack_seq = None
    /\ StopsFrom(1)
    /\ \/ pc = "top" /\ pending_conversation = latest
       \/ pc = "request" /\ pending_conversation = None /\ working = latest

InFlight == events = <<>> /\ (Sent \/ Taken)

\* The coordinator has nothing left to decide on.
Answered ==
    /\ pc # "request"
    /\ pending_conversation = None
    /\ \/ StopsFrom(1)
       \/ Len(cmds) >= 1 /\ cmds[1].kind = "Ack" /\ StopsFrom(2)

\* The ack of the last decision is on its way or consumed.
AckUnderWay ==
    \/ pending_ack_seq = None /\ cmds = <<>>
    \/ pending_ack_seq # None /\ cmds = <<AckDecision(pending_ack_seq)>>

\* d is the decision whose ack is due; after Continue the coordinator is alive.
Outstanding(d) ==
    /\ d.kind = "Decision"
    /\ d.seq \in Nat
    /\ d.seq = pending_ack_seq
    /\ d.status = "Continue" => pc # "exited"
    /\ cmds = <<>>

NoStop == \A i \in 1 .. Len(cmds) : cmds[i] # Stop

LoopPlaces == {"recv", "ack", "stop", "turn", "update"}

\* What the driver may rely on at each place of its loop.
InTurn == at \in {"turn", "update"} => Answered /\ events = <<>> /\ pc # "exited" /\ AckUnderWay
InAck == at = "ack" => Answered /\ events = <<>> /\ Outstanding(decision)
InStop == at = "stop" => Answered /\ events = <<>> /\ NoStop
InRecv == at = "recv" =>
    \/ InFlight /\ NoStop
    \/ Answered /\ Len(events) = 1 /\ Outstanding(events[1])
    \/ Answered /\ events = <<>>
    \/ Answered /\ events = <<StopAck>> /\ pc = "exited"
Running == at \in LoopPlaces => ~cancelled /\ ~closed
InLoop == InTurn /\ InAck /\ InStop /\ InRecv /\ Running

\* The two take turns.
Alternation ==
    /\ queued_updates = <<>>
    /\ dropped = {}
    /\ InFlight \/ Answered
    /\ InLoop

-----------------------------------------------------------------------------
(* The command channel *)

LEMMA HeadTail ==
    ASSUME NEW S, NEW q \in Seq(S), q # <<>>
    PROVE  /\ Len(q) \in Nat /\ Len(q) >= 1
           /\ Head(q) = q[1]
           /\ Len(Tail(q)) = Len(q) - 1
           /\ \A i \in 1 .. Len(q) - 1 : Tail(q)[i] = q[i + 1]
  OBVIOUS

LEMMA Appended ==
    ASSUME NEW S, NEW q \in Seq(S), NEW x \in S
    PROVE  /\ Len(q) \in Nat
           /\ Len(Append(q, x)) = Len(q) + 1
           /\ \A i \in 1 .. Len(q) : Append(q, x)[i] = q[i]
           /\ Append(q, x)[Len(q) + 1] = x
  OBVIOUS

\* Reading a command moves the run of Stops forward.
LEMMA StopsPop ==
    ASSUME cmds \in Seq(Commands), cmds # <<>>, cmds' = Tail(cmds), NEW k \in Nat, k >= 1,
           StopsFrom(k + 1)
    PROVE  StopsFrom(k)'
<1>1. /\ Len(cmds) \in Nat /\ Len(cmds') = Len(cmds) - 1
      /\ \A i \in 1 .. Len(cmds) - 1 : cmds'[i] = cmds[i + 1]
  BY HeadTail
<1>2. ASSUME NEW i \in k .. Len(cmds') PROVE cmds'[i] = Stop
  <2>1. i \in 1 .. Len(cmds) - 1 /\ i + 1 \in (k + 1) .. Len(cmds)
    BY <1>1
  <2> QED BY <1>1, <2>1 DEF StopsFrom
<1> QED BY <1>2 DEF StopsFrom

\* Another Stop joins the run.
LEMMA StopsPush ==
    ASSUME cmds \in Seq(Commands), cmds' = Append(cmds, Stop), NEW k \in Nat, k >= 1, StopsFrom(k)
    PROVE  StopsFrom(k)'
<1>1. /\ Len(cmds) \in Nat /\ Len(cmds') = Len(cmds) + 1
      /\ \A i \in 1 .. Len(cmds) : cmds'[i] = cmds[i]
      /\ cmds'[Len(cmds) + 1] = Stop
  BY Appended DEF Commands
<1>2. ASSUME NEW i \in k .. Len(cmds') PROVE cmds'[i] = Stop
  <2>1. i \in k .. Len(cmds) \/ i = Len(cmds) + 1
    BY <1>1
  <2> QED BY <1>1, <2>1 DEF StopsFrom
<1> QED BY <1>2 DEF StopsFrom

\* The kinds of commands are told apart.
LEMMA Kinds ==
    /\ Stop.kind = "Stop" /\ StopAck.kind = "StopAck"
    /\ \A n : UpdateConversation(n).kind = "Update" /\ UpdateConversation(n).conv = n
    /\ \A s : AckDecision(s).kind = "Ack" /\ AckDecision(s).seq = s
    /\ \A s, t : /\ Decision(s, t).kind = "Decision"
                 /\ Decision(s, t).seq = s
                 /\ Decision(s, t).status = t
  BY DEF Stop, StopAck, UpdateConversation, AckDecision, Decision

\* The invariants read only these variables of the thread and the channels.
sharedVars == <<pc, loopVars, dropped, cmds, events, next_snapshot>>

LEMMA SharedFrame ==
    ASSUME UNCHANGED sharedVars
    PROVE  /\ InFlight' = InFlight
           /\ Answered' = Answered
           /\ AckUnderWay' = AckUnderWay
           /\ NoStop' = NoStop
           /\ queued_updates' = queued_updates
           /\ dropped' = dropped
  BY DEF sharedVars, loopVars, InFlight, Sent, Taken, StopsFrom, latest, Answered, AckUnderWay, NoStop

-----------------------------------------------------------------------------
(* Steps of the coordinator *)

\* At the top of the loop.
LEMMA TopAlternates ==
    ASSUME TypeOK, Alternation, TopQueue \/ TopRequest \/ TopCancelled \/ TopIdle,
           UNCHANGED <<cmds, cancelled, closed, clientVars, driverVars>>
    PROVE  Alternation'
<1> USE DEF loopVars, histVars, clientVars, driverVars
<1>0. UNCHANGED <<cmds, events, next_snapshot, at, decision, cancelled, closed>>
  BY DEF TopQueue, TopRequest, TopCancelled, TopIdle
<1>1. StopsFrom(1)' = StopsFrom(1) /\ StopsFrom(2)' = StopsFrom(2) /\ StopsFrom(3)' = StopsFrom(3)
      /\ NoStop' = NoStop
  BY <1>0 DEF StopsFrom, NoStop
<1>2. CASE TopQueue
  BY <1>2 DEF TopQueue, Alternation, InFlight, Sent, Taken, Answered
<1>3. CASE TopRequest
  <2>1. InFlight /\ Taken /\ pc = "top" /\ pending_conversation = latest /\ ~Answered
    BY <1>3 DEF TopRequest, Alternation, InFlight, Sent, Taken, Answered
  <2>2. InFlight'
    BY <1>0, <1>1, <1>3, <2>1 DEF TopRequest, InFlight, Taken, latest, TypeOK
  <2>3. queued_updates' = <<>> /\ dropped' = {}
    BY <1>3, <2>1 DEF TopRequest, Alternation, Taken, latest, TypeOK
  <2>4. InLoop'
    BY <1>0, <1>1, <2>1, <2>2
       DEF Alternation, InLoop, InTurn, InAck, InStop, InRecv, Running, LoopPlaces, InFlight
  <2> QED BY <2>2, <2>3, <2>4 DEF Alternation
<1>4. CASE TopCancelled
  <2>1. Taken /\ at \notin LoopPlaces
    BY <1>4 DEF TopCancelled, Alternation, InFlight, Sent, Taken, Answered, InLoop, Running
  <2>2. Answered'
    BY <1>1, <1>4, <2>1 DEF TopCancelled, Taken, Answered
  <2>3. queued_updates' = <<>> /\ dropped' = {}
    BY <1>4, <2>1 DEF TopCancelled, Alternation, Taken
  <2>4. InLoop'
    BY <1>0, <2>1 DEF InLoop, InTurn, InAck, InStop, InRecv, Running, LoopPlaces
  <2> QED BY <2>2, <2>3, <2>4 DEF Alternation
<1>5. CASE TopIdle
  <2>1. /\ pc = "top" /\ pc' = "recv"
        /\ UNCHANGED <<pending_conversation, pending_ack_seq, queued_updates, working, dropped>>
        /\ pending_conversation = None
    BY <1>5 DEF TopIdle
  <2>2. InFlight => InFlight'
    BY <1>0, <1>1, <2>1 DEF InFlight, Sent, Taken, latest, TypeOK
  <2>3. Answered => Answered'
    BY <1>0, <1>1, <2>1 DEF Answered
  <2>4. AckUnderWay' = AckUnderWay
    BY <1>0, <2>1 DEF AckUnderWay
  <2>5. \A d : Outstanding(d) => Outstanding(d)'
    BY <1>0, <2>1 DEF Outstanding
  <2>6. InLoop'
    BY <1>0, <1>1, <2>1, <2>2, <2>3, <2>4, <2>5
       DEF Alternation, InLoop, InTurn, InAck, InStop, InRecv, Running, Outstanding
  <2> QED BY <2>1, <2>2, <2>3, <2>6 DEF Alternation
<1> QED BY <1>2, <1>3, <1>4, <1>5

\* The answer to a request.
LEMMA RequestAlternates ==
    ASSUME TypeOK, Alternation,
           \/ \E status \in Statuses : RequestOk(status)
           \/ RequestInvalid \/ RequestFailed \/ RequestCancelled,
           UNCHANGED <<cmds, cancelled, closed, clientVars, driverVars>>
    PROVE  Alternation'
<1> USE DEF loopVars, histVars, clientVars, driverVars
<1>0. /\ UNCHANGED <<cmds, next_snapshot, at, decision, cancelled, closed, queued_updates, dropped>>
      /\ pc = "request"
  BY DEF RequestOk, RequestInvalid, RequestFailed, RequestCancelled
<1>1. StopsFrom(1)' = StopsFrom(1) /\ NoStop' = NoStop
  BY <1>0 DEF StopsFrom, NoStop
<1>2. /\ events = <<>> /\ Taken /\ ~Answered /\ StopsFrom(1)
      /\ pending_conversation = None /\ working = latest
  BY <1>0 DEF Alternation, InFlight, Sent, Taken, Answered
<1>3. at \in LoopPlaces => at = "recv" /\ NoStop
  BY <1>2 DEF Alternation, InLoop, InTurn, InAck, InStop, InRecv, LoopPlaces
<1>4. NoStop => cmds = <<>>
  BY <1>2 DEF NoStop, StopsFrom, TypeOK
<1>5. ASSUME NEW status \in Statuses, Send(status), pending_conversation' = None,
             pc' # "request", status = "Continue" => pc' # "exited"
      PROVE  Alternation'
  <2>1. events' = <<Decision(decision_seq + 1, status)>> /\ pending_ack_seq' = decision_seq + 1
    BY <1>2, <1>5 DEF Send
  <2>2. Len(events') = 1 /\ events'[1] = Decision(decision_seq + 1, status) /\ decision_seq + 1 \in Nat
    BY <2>1 DEF TypeOK
  <2>3. Answered'
    BY <1>1, <1>2, <1>5 DEF Answered
  <2>4. at = "recv" => Outstanding(events[1])'
    BY <1>0, <1>3, <1>4, <1>5, <2>1, <2>2, Kinds DEF Outstanding, LoopPlaces
  <2>5. InRecv'
    BY <1>0, <2>2, <2>3, <2>4 DEF InRecv
  <2>6. InLoop'
    BY <1>0, <1>3, <2>5 DEF Alternation, InLoop, InTurn, InAck, InStop, Running, LoopPlaces
  <2> QED BY <1>0, <2>3, <2>6 DEF Alternation
<1>6. ASSUME NEW status \in Statuses, RequestOk(status) PROVE Alternation'
  <2>1. pending_conversation' = None
    BY <1>2, <1>6 DEF RequestOk
  <2>2. \E t \in Statuses : Send(t) /\ pc' # "request" /\ (t = "Continue" => pc' # "exited")
    BY <1>6 DEF RequestOk, Statuses
  <2> QED BY <1>5, <2>1, <2>2
<1>7. CASE RequestInvalid
  <2>1. InFlight'
    BY <1>0, <1>1, <1>2, <1>7 DEF RequestInvalid, InFlight, Taken, latest
  <2>2. InLoop'
    BY <1>0, <1>1, <1>3, <2>1
       DEF Alternation, InLoop, InTurn, InAck, InStop, InRecv, Running, LoopPlaces
  <2> QED BY <1>0, <2>1, <2>2 DEF Alternation
<1>8. CASE RequestFailed
  BY <1>2, <1>5, <1>8 DEF RequestFailed, Statuses
<1>9. CASE RequestCancelled
  <2>1. at \notin LoopPlaces
    BY <1>9 DEF RequestCancelled, Alternation, InLoop, Running
  <2>2. Answered'
    BY <1>1, <1>2, <1>9 DEF RequestCancelled, Answered
  <2>3. InLoop'
    BY <1>0, <2>1 DEF InLoop, InTurn, InAck, InStop, InRecv, Running, LoopPlaces
  <2> QED BY <1>0, <2>2, <2>3 DEF Alternation
<1> QED BY <1>6, <1>7, <1>8, <1>9

\* A command is read.
LEMMA RecvAlternates ==
    ASSUME TypeOK, Alternation, RecvStep, UNCHANGED <<cancelled, closed, clientVars, driverVars>>
    PROVE  Alternation'
<1> USE DEF loopVars, histVars, clientVars, driverVars
<1>0. pc = "recv" /\ UNCHANGED <<next_snapshot, at, decision, cancelled, closed>>
  BY DEF RecvStep, RecvAck, RecvUser, RecvUpdate, RecvStop, Receive
<1>t. cmds \in Seq(Commands) /\ queued_updates = <<>> /\ dropped = {} /\ ~Taken
  BY <1>0 DEF TypeOK, Alternation, Taken
<1>1. ASSUME NEW k, Receive(k)
      PROVE  /\ cmds # <<>> /\ cmds[1].kind = k /\ cmds' = Tail(cmds)
             /\ Len(cmds) \in Nat /\ Len(cmds) >= 1 /\ Head(cmds) = cmds[1]
             /\ Len(cmds') = Len(cmds) - 1
             /\ \A i \in 1 .. Len(cmds) - 1 : cmds'[i] = cmds[i + 1]
             /\ NoStop => NoStop'
             /\ StopsFrom(2) => StopsFrom(1)'
             /\ StopsFrom(3) => StopsFrom(2)'
             /\ StopsFrom(1) => k = "Stop" /\ StopsFrom(1)'
  <2>1. cmds # <<>> /\ Head(cmds).kind = k /\ cmds' = Tail(cmds)
    BY <1>1 DEF Receive
  <2>2. /\ Len(cmds) \in Nat /\ Len(cmds) >= 1 /\ Head(cmds) = cmds[1]
        /\ Len(cmds') = Len(cmds) - 1
        /\ \A i \in 1 .. Len(cmds) - 1 : cmds'[i] = cmds[i + 1]
    BY <1>t, <2>1, HeadTail
  <2>3. NoStop => NoStop'
    <3>1. \A i \in 1 .. Len(cmds') : i \in 1 .. Len(cmds) - 1 /\ i + 1 \in 1 .. Len(cmds)
      BY <2>2
    <3> QED BY <2>2, <3>1 DEF NoStop
  <2>4. StopsFrom(2) => StopsFrom(1)'
    BY <1>t, <2>1, StopsPop
  <2>5. StopsFrom(3) => StopsFrom(2)'
    BY <1>t, <2>1, StopsPop
  <2>6. StopsFrom(1) => StopsFrom(2) /\ cmds[1] = Stop
    BY <2>2 DEF StopsFrom
  <2> QED BY <2>1, <2>2, <2>3, <2>4, <2>5, <2>6, Kinds
<1>2. CASE RecvAck
  <2>1. cmds[1].kind = "Ack" /\ Receive("Ack") /\ ~StopsFrom(1)
    BY <1>1, <1>2 DEF RecvAck
  <2>2. /\ pc' = "top" /\ UNCHANGED <<events, working, queued_updates, dropped, pending_conversation>>
        /\ \/ pending_ack_seq = cmds[1].seq /\ pending_ack_seq' = None
           \/ pending_ack_seq # cmds[1].seq /\ pending_ack_seq' = pending_ack_seq
    BY <1>1, <1>2, <1>t, <2>1 DEF RecvAck
  <2>3. InFlight => InFlight'
    <3>1. ASSUME InFlight
          PROVE  /\ pending_ack_seq # None /\ Len(cmds) >= 2 /\ cmds[1] = AckDecision(pending_ack_seq)
                 /\ cmds[2] = UpdateConversation(latest) /\ StopsFrom(3) /\ events = <<>>
                 /\ pending_conversation = None
      BY <1>t, <2>1, <3>1, Kinds DEF InFlight, Sent
    <3>2. ASSUME InFlight PROVE cmds'[1] = UpdateConversation(latest) /\ Len(cmds') >= 1 /\ StopsFrom(2)'
      BY <1>1, <2>1, <3>1, <3>2
    <3> QED BY <1>0, <2>2, <3>1, <3>2, Kinds DEF InFlight, Sent, latest
  <2>4. Answered => Answered'
    BY <1>1, <2>1, <2>2 DEF Answered
  <2>5. AckUnderWay => AckUnderWay'
    <3>1. ASSUME AckUnderWay PROVE cmds = <<AckDecision(pending_ack_seq)>> /\ pending_ack_seq' = None
      BY <1>1, <2>1, <2>2, <3>1, Kinds DEF AckUnderWay
    <3>2. ASSUME AckUnderWay PROVE cmds' = <<>>
      BY <1>1, <2>1, <3>1, <3>2
    <3> QED BY <3>1, <3>2 DEF AckUnderWay
  <2>6. \A d : ~Outstanding(d)
    BY <1>1, <2>1 DEF Outstanding
  <2>7. InLoop'
    BY <1>0, <1>1, <2>1, <2>2, <2>3, <2>4, <2>5, <2>6
       DEF Alternation, InLoop, InTurn, InAck, InStop, InRecv, Running
  <2> QED BY <1>t, <2>2, <2>3, <2>4, <2>7 DEF Alternation
<1>3. CASE RecvUser
  <2>1. Receive("User") /\ cmds[1].kind = "User" /\ ~StopsFrom(1)
    BY <1>1, <1>3 DEF RecvUser
  <2> QED BY <1>t, <2>1, Kinds DEF Alternation, InFlight, Sent, Answered
<1>4. CASE RecvUpdate
  <2>1. Receive("Update") /\ cmds[1].kind = "Update" /\ ~StopsFrom(1)
    BY <1>1, <1>4 DEF RecvUpdate
  <2>2. /\ InFlight /\ ~Answered /\ events = <<>> /\ pending_ack_seq = None
        /\ pending_conversation = None /\ cmds[1] = UpdateConversation(latest) /\ StopsFrom(2)
    BY <1>t, <2>1, Kinds DEF Alternation, InFlight, Sent, Answered
  <2>3. /\ pending_conversation' = latest /\ pc' = "top"
        /\ UNCHANGED <<queued_updates, dropped, events, pending_ack_seq>>
    BY <1>1, <1>4, <2>1, <2>2, Kinds DEF RecvUpdate
  <2>4. InFlight'
    BY <1>0, <1>1, <2>1, <2>2, <2>3 DEF InFlight, Taken, latest
  <2>5. InLoop'
    BY <1>0, <1>1, <2>1, <2>2, <2>3, <2>4
       DEF Alternation, InLoop, InTurn, InAck, InStop, InRecv, Running, Outstanding
  <2> QED BY <1>t, <2>3, <2>4, <2>5 DEF Alternation
<1>5. CASE RecvStop
  <2>1. /\ pc' = "exited" /\ events' = Append(events, StopAck) /\ pending_conversation' = pending_conversation
        /\ queued_updates' = <<>> /\ dropped' = dropped
    BY <1>5 DEF RecvStop
  <2>2. \/ Receive("Stop") /\ cmds[1].kind = "Stop"
        \/ cmds = <<>> /\ closed /\ cmds' = cmds
    BY <1>1, <1>5 DEF RecvStop
  <2>3. Answered /\ StopsFrom(1)
    BY <1>t, <2>2, Kinds DEF Alternation, InFlight, Sent, Answered
  <2>4. StopsFrom(1)'
    BY <1>1, <2>2, <2>3 DEF StopsFrom
  <2>5. Answered'
    BY <2>1, <2>3, <2>4 DEF Answered
  <2>6. Receive("Stop") => ~NoStop
    BY <1>1, <2>3 DEF NoStop, StopsFrom
  <2>7. at \in LoopPlaces => at = "recv" /\ events = <<>>
    <3>1. at \in LoopPlaces => Receive("Stop") /\ cmds[1].kind = "Stop" /\ cmds # <<>>
      BY <1>1, <2>2 DEF Alternation, InLoop, Running
    <3>2. at \notin {"turn", "update"}
      BY <3>1, Kinds DEF Alternation, InLoop, InTurn, AckUnderWay, LoopPlaces
    <3>3. at \notin {"ack", "stop"}
      BY <2>6, <3>1 DEF Alternation, InLoop, InAck, InStop, Outstanding, LoopPlaces
    <3>4. at = "recv" => events = <<>>
      BY <1>0, <2>6, <3>1 DEF Alternation, InLoop, InRecv, Outstanding, LoopPlaces
    <3> QED BY <3>2, <3>3, <3>4 DEF LoopPlaces
  <2>8. InLoop'
    <3>1. at = "recv" => events' = <<StopAck>>
      BY <2>1, <2>7 DEF LoopPlaces
    <3>2. InRecv'
      BY <1>0, <2>1, <2>5, <3>1 DEF InRecv
    <3> QED BY <1>0, <2>7, <3>2 DEF Alternation, InLoop, InTurn, InAck, InStop, Running, LoopPlaces
  <2> QED BY <1>t, <2>1, <2>5, <2>8 DEF Alternation
<1> QED BY <1>2, <1>3, <1>4, <1>5 DEF RecvStep

-----------------------------------------------------------------------------
(* Steps of the driver and the session *)

\* Steps that touch neither channel nor conversation, and enter the loop nowhere.
LEMMA QuietAlternates ==
    ASSUME TypeOK, Alternation, UNCHANGED sharedVars,
           \/ at' = at /\ UNCHANGED <<decision, cancelled, closed>>
           \/ at = "turn" /\ at' = "update" /\ UNCHANGED <<cancelled, closed>>
           \/ at' \notin LoopPlaces
    PROVE  Alternation'
<1>1. /\ InFlight' = InFlight /\ Answered' = Answered /\ AckUnderWay' = AckUnderWay
      /\ NoStop' = NoStop /\ queued_updates' = queued_updates /\ dropped' = dropped
  BY SharedFrame
<1>2. UNCHANGED <<pc, events, cmds, pending_ack_seq>>
  BY DEF sharedVars, loopVars
<1>3. \A d : Outstanding(d)' = Outstanding(d)
  BY <1>2 DEF Outstanding
<1>4. InLoop'
  BY <1>1, <1>2, <1>3 DEF Alternation, InLoop, InTurn, InAck, InStop, InRecv, Running, LoopPlaces, Outstanding
<1> QED BY <1>1, <1>4 DEF Alternation

\* The driver takes a decision or the StopAck.
LEMMA RecvEventAlternates == ASSUME TypeOK, Alternation, RecvEvent PROVE Alternation'
<1>1. /\ events # <<>> /\ events' = Tail(events) /\ decision' = Head(events) /\ at = "recv"
      /\ at' = IF decision' = StopAck THEN "cancel" ELSE "ack"
      /\ UNCHANGED <<pc, loopVars, dropped, cmds, cancelled, closed, next_snapshot>>
  BY DEF RecvEvent, TakeEvent, Goto, histVars
<1>2. Answered /\ ~InFlight /\ Len(events) = 1
  BY <1>1 DEF Alternation, InLoop, InRecv, InFlight
<1>3. events' = <<>> /\ Head(events) = events[1]
  BY <1>1, <1>2 DEF TypeOK
<1>4. Answered'
  BY <1>1, <1>2 DEF Answered, StopsFrom, loopVars
<1>5. at' = "ack" => Outstanding(events[1])
  BY <1>1, <1>3 DEF Alternation, InLoop, InRecv, InFlight
<1>6. InAck'
  BY <1>1, <1>3, <1>4, <1>5 DEF InAck, Outstanding, loopVars
<1>7. InLoop'
  BY <1>1, <1>6 DEF Alternation, InLoop, InTurn, InStop, InRecv, Running, LoopPlaces
<1> QED BY <1>1, <1>4, <1>7 DEF Alternation, loopVars

\* The driver sends the ack of the decision it took.
LEMMA AcknowledgeAlternates == ASSUME TypeOK, Alternation, Acknowledge PROVE Alternation'
<1>1. /\ at = "ack" /\ cmds' = Append(cmds, AckDecision(decision.seq)) /\ decision' = decision
      /\ at' = IF decision.status = "Continue" THEN "turn" ELSE "stop"
      /\ UNCHANGED <<pc, loopVars, dropped, events, cancelled, closed, next_snapshot>>
  BY DEF Acknowledge, Goto, SendAck, ClientSend, threadVars, histVars
<1>2. Answered /\ events = <<>> /\ Outstanding(decision) /\ ~cancelled /\ ~closed
  BY <1>1 DEF Alternation, InLoop, InAck, Running, LoopPlaces
<1>3. cmds' = <<AckDecision(decision.seq)>> /\ pending_ack_seq' = decision.seq /\ decision.seq # None
  BY <1>1, <1>2 DEF Outstanding, loopVars
<1>4. Len(cmds') = 1 /\ cmds'[1] = AckDecision(decision.seq) /\ cmds'[1].kind = "Ack"
  BY <1>3, Kinds
<1>5. Answered'
  BY <1>1, <1>2, <1>4 DEF Answered, StopsFrom, loopVars
<1>6. AckUnderWay' /\ NoStop'
  BY <1>3, <1>4, Kinds DEF AckUnderWay, NoStop
<1>7. InLoop'
  BY <1>1, <1>2, <1>5, <1>6 DEF InLoop, InTurn, InAck, InStop, InRecv, Running, LoopPlaces, Outstanding
<1> QED BY <1>1, <1>5, <1>7 DEF Alternation, loopVars

\* The driver sends Stop, after the last decision or to abort.
LEMMA StopAlternates == ASSUME TypeOK, Alternation, SendsStop \/ AbortStop PROVE Alternation'
<1>1. /\ cmds' = Append(cmds, Stop)
      /\ UNCHANGED <<pc, loopVars, dropped, events, cancelled, closed, next_snapshot>>
      /\ \/ at = "stop" /\ at' = "recv"
         \/ at = "abort" /\ at' = "abort_cancel"
  BY DEF SendsStop, AbortStop, Goto, SendStop, ClientSend, threadVars, histVars, clientVars
<1>2. /\ Len(cmds) \in Nat /\ Len(cmds') = Len(cmds) + 1
      /\ \A i \in 1 .. Len(cmds) : cmds'[i] = cmds[i]
  BY <1>1, Appended DEF TypeOK, Commands
<1>3. /\ StopsFrom(1) => StopsFrom(1)'
      /\ StopsFrom(2) => StopsFrom(2)'
      /\ StopsFrom(3) => StopsFrom(3)'
  BY <1>1, StopsPush DEF TypeOK
<1>4. Answered => Answered'
  BY <1>1, <1>2, <1>3 DEF Answered, loopVars
<1>5. InFlight => InFlight'
  BY <1>1, <1>2, <1>3 DEF InFlight, Sent, Taken, latest, loopVars
<1>6. InLoop'
  BY <1>1, <1>4 DEF Alternation, InLoop, InTurn, InAck, InStop, InRecv, Running, LoopPlaces
<1> QED BY <1>1, <1>4, <1>5, <1>6 DEF Alternation, loopVars

\* The driver sends the conversation with the outcome of the turn.
LEMMA UpdateAlternates == ASSUME TypeOK, Alternation, SendUpdate PROVE Alternation'
<1>1. at = "update"
  BY DEF SendUpdate, Goto
<1>2. Answered /\ events = <<>> /\ pc \in {"top", "recv"} /\ AckUnderWay /\ ~cancelled /\ ~closed
  BY <1>1 DEF Alternation, InLoop, InTurn, Running, LoopPlaces, Answered, TypeOK
<1>3. /\ cmds' = Append(cmds, UpdateConversation(next_snapshot)) /\ at' = "recv"
      /\ next_snapshot' = next_snapshot + 1
      /\ UNCHANGED <<pc, loopVars, dropped, events, cancelled, closed>>
  BY <1>2 DEF SendUpdate, Goto, ClientSend, threadVars, histVars
<1>4. latest' = next_snapshot
  BY <1>3 DEF latest, TypeOK
<1>5. CASE pending_ack_seq = None /\ cmds = <<>>
  <2>1. cmds' = <<UpdateConversation(next_snapshot)>>
    BY <1>3, <1>5
  <2>2. Len(cmds') = 1 /\ cmds'[1] = UpdateConversation(next_snapshot)
    BY <2>1
  <2>3. Sent' /\ NoStop'
    BY <1>2, <1>3, <1>4, <1>5, <2>2, Kinds DEF Sent, StopsFrom, NoStop, Answered, loopVars
  <2> QED BY <1>2, <1>3, <2>3
      DEF Alternation, InFlight, InLoop, InTurn, InAck, InStop, InRecv, Running, LoopPlaces, loopVars
<1>6. CASE pending_ack_seq # None /\ cmds = <<AckDecision(pending_ack_seq)>>
  <2>1. Len(cmds) = 1 /\ cmds[1] = AckDecision(pending_ack_seq)
    BY <1>6
  <2>2. /\ Len(cmds') = 2 /\ cmds'[1] = AckDecision(pending_ack_seq)
        /\ cmds'[2] = UpdateConversation(next_snapshot)
    <3>1. UpdateConversation(next_snapshot) \in Commands
      BY <1>2 DEF SendUpdate, TypeOK, Snapshots, Commands, UpdateConversation
    <3>2. /\ Len(cmds') = Len(cmds) + 1
          /\ \A i \in 1 .. Len(cmds) : cmds'[i] = cmds[i]
          /\ cmds'[Len(cmds) + 1] = UpdateConversation(next_snapshot)
      BY <1>3, <3>1, Appended DEF TypeOK
    <3> QED BY <2>1, <3>2
  <2>3. Sent' /\ NoStop'
    BY <1>2, <1>3, <1>4, <1>6, <2>2, Kinds DEF Sent, StopsFrom, NoStop, Answered, loopVars
  <2> QED BY <1>2, <1>3, <2>3
      DEF Alternation, InFlight, InLoop, InTurn, InAck, InStop, InRecv, Running, LoopPlaces, loopVars
<1> QED BY <1>2, <1>5, <1>6 DEF AckUnderWay

-----------------------------------------------------------------------------
(* The theorems *)

\* Every step of the driver is a step of some client, or leaves the channels alone.
LEMMA DriverStepIsClient == ASSUME TypeOK, DriverStep PROVE Next \/ UNCHANGED vars
<1>1. CASE RecvEvent
  BY <1>1 DEF RecvEvent, Next, ClientNext
<1>2. CASE Acknowledge
  <2>1. SendAck(decision.seq)
    BY <1>2 DEF Acknowledge
  <2>2. decision.seq \in received
    BY <2>1 DEF SendAck, TypeOK
  <2> QED BY <2>1, <2>2 DEF Next, ClientNext
<1>3. CASE SendsStop \/ AbortStop
  BY <1>3 DEF SendsStop, AbortStop, Next, ClientNext
<1>4. CASE SendUpdate
  BY <1>4 DEF SendUpdate, SendConversation, Next, ClientNext
<1>5. CASE AbortCancel \/ CancelRun
  BY <1>5 DEF AbortCancel, CancelRun, Next, ClientNext
<1>6. CASE Return
  BY <1>6 DEF Return, Next, ClientNext
<1>7. CASE RecvClosed \/ DeadlineRecv \/ DeadlineTurn \/ DeadlineEnd \/ GraceOver \/ SendShutdown
  BY <1>7 DEF RecvClosed, DeadlineRecv, DeadlineTurn, DeadlineEnd, GraceOver, SendShutdown, Local
<1> QED BY <1>1, <1>2, <1>3, <1>4, <1>5, <1>6, <1>7 DEF DriverStep

\* The driver of run_auto_drive_session uses the coordinator's handle as
\* CoordinatorClient describes, so that everything proved there holds for it.
THEOREM DriveIsClient == DriveSpec => Spec
<1>1. DriveInit => Init
  BY DEF DriveInit
<1>2. TypeOK /\ [DriveNext]_driveVars => [Next]_vars
  <2> SUFFICES ASSUME TypeOK, [DriveNext]_driveVars PROVE Next \/ UNCHANGED vars
    OBVIOUS
  <2>1. CASE DriverStep
    BY <2>1, DriverStepIsClient
  <2>2. CASE SessionStep \/ Expire
    BY <2>2 DEF SessionStep, TurnEnds, TurnMessage, TurnSilent, TurnError, ShutdownComplete, SessionLost,
                ReviewReported, Expire, Local
  <2>3. CASE CoordinatorStep
    BY <2>3 DEF CoordinatorStep, Next
  <2>4. CASE UNCHANGED driveVars
    BY <2>4 DEF driveVars
  <2> QED BY <2>1, <2>2, <2>3, <2>4 DEF DriveNext
<1>3. Init => TypeOK
  BY InitTypes
<1>4. TypeOK /\ [Next]_vars => TypeOK'
  BY StepTypes
<1> QED BY <1>1, <1>2, <1>3, <1>4, PTL DEF DriveSpec, Spec

\* The headless driver and the coordinator take strict turns, whatever the session,
\* the deadline and the coordinator's model do.
THEOREM DriveAlternates == DriveSpec => []Alternation
<1>1. DriveInit => Alternation
  <2> SUFFICES ASSUME DriveInit PROVE Alternation
    OBVIOUS
  <2>1. /\ cmds = <<>> /\ queued_updates = <<>> /\ dropped = {} /\ at = "recv"
        /\ pc \in {"top", "exited"} /\ pending_conversation = None /\ ~cancelled /\ ~closed
    BY DEF DriveInit, Init, CoordInit
  <2>2. Answered
    BY <2>1 DEF Answered, StopsFrom
  <2>3. CASE pc = "top" /\ pending_ack_seq = 0 /\ events = <<Decision(0, "Continue")>>
    <3>1. Len(events) = 1 /\ events[1] = Decision(0, "Continue")
      BY <2>3
    <3>2. Outstanding(events[1])
      BY <2>1, <2>3, <3>1, Kinds DEF Outstanding
    <3> QED BY <2>1, <2>2, <3>1, <3>2
        DEF Alternation, InLoop, InTurn, InAck, InStop, InRecv, Running, LoopPlaces
  <2>4. CASE events = <<>>
    BY <2>1, <2>2, <2>4 DEF Alternation, InLoop, InTurn, InAck, InStop, InRecv, Running, LoopPlaces
  <2> QED BY <2>3, <2>4 DEF DriveInit, Init, CoordInit
<1>2. TypeOK /\ Alternation /\ [DriveNext]_driveVars => Alternation'
  <2> SUFFICES ASSUME TypeOK, Alternation, [DriveNext]_driveVars PROVE Alternation'
    OBVIOUS
  <2>f. UNCHANGED vars => UNCHANGED sharedVars /\ UNCHANGED <<cancelled, closed>>
    BY DEF vars, sharedVars, threadVars, loopVars, histVars, clientVars
  <2>1. CASE RecvEvent
    BY <2>1, RecvEventAlternates
  <2>2. CASE Acknowledge
    BY <2>2, AcknowledgeAlternates
  <2>3. CASE SendsStop \/ AbortStop
    BY <2>3, StopAlternates
  <2>4. CASE SendUpdate
    BY <2>4, UpdateAlternates
  <2>5. CASE AbortCancel \/ CancelRun \/ Return
    <3>1. UNCHANGED sharedVars
      BY <2>5 DEF AbortCancel, CancelRun, Return, Cancel, DropHandle, sharedVars, threadVars, loopVars,
                  histVars, clientVars
    <3>2. at' \notin LoopPlaces
      BY <2>5 DEF AbortCancel, CancelRun, Return, Goto, LoopPlaces
    <3> QED BY <3>1, <3>2, QuietAlternates
  <2>6. CASE RecvClosed \/ DeadlineRecv \/ DeadlineTurn \/ DeadlineEnd \/ GraceOver \/ SendShutdown
    <3>1. at' \notin LoopPlaces /\ UNCHANGED vars
      BY <2>6 DEF RecvClosed, DeadlineRecv, DeadlineTurn, DeadlineEnd, GraceOver, SendShutdown, Goto,
                  LoopPlaces, Local
    <3> QED BY <2>f, <3>1, QuietAlternates
  <2>7. CASE SessionStep \/ Expire
    <3>1. UNCHANGED vars /\ decision' = decision
      BY <2>7 DEF SessionStep, TurnEnds, TurnMessage, TurnSilent, TurnError, ShutdownComplete, SessionLost,
                  ReviewReported, Expire, Local
    <3>2. \/ at' = at
          \/ at = "turn" /\ at' = "update"
          \/ at' \notin LoopPlaces
      BY <2>7 DEF SessionStep, TurnEnds, TurnMessage, TurnSilent, TurnError, ShutdownComplete, SessionLost,
                  ReviewReported, Expire, Goto, LoopPlaces
    <3> QED BY <2>f, <3>1, <3>2, QuietAlternates
  <2>8. CASE CoordinatorStep
    BY <2>8, TopAlternates, RequestAlternates, RecvAlternates
       DEF CoordinatorStep, ThreadStep, CoordNext, LoopStep
  <2>9. CASE UNCHANGED driveVars
    <3>1. UNCHANGED vars /\ UNCHANGED <<at, decision>>
      BY <2>9 DEF driveVars, driverVars
    <3> QED BY <2>f, <3>1, QuietAlternates
  <2> QED BY <2>1, <2>2, <2>3, <2>4, <2>5, <2>6, <2>7, <2>8, <2>9 DEF DriveNext, DriverStep
<1> QED BY <1>1, <1>2, DriveIsClient, CoordinatorTypes, PTL DEF DriveSpec

\* While a turn of the headless driver runs no decision is requested or on its way,
\* although the last one is already acknowledged.
THEOREM DriveTurnsAlone == DriveSpec => []NoDecisionDuringTurn
<1>1. TypeOK /\ Alternation => NoDecisionDuringTurn
  BY DEF Alternation, InLoop, InTurn, Answered, NoDecisionDuringTurn, TypeOK
<1> QED BY <1>1, DriveAlternates, DriveIsClient, CoordinatorTypes, PTL

\* The capped queue of the coordinator never loses an outcome of the headless driver.
THEOREM DriveQueueUnused == DriveSpec => []QueueUnused
<1>1. Alternation => QueueUnused
  BY DEF Alternation, QueueUnused
<1> QED BY <1>1, DriveAlternates, PTL

\* Every decision of a headless run is taken on the newest conversation.
THEOREM DriveDecidesOnLatest == DriveSpec => []DecidesOnLatest
<1>1. Alternation => DecidesOnLatest
  BY DEF Alternation, InFlight, Sent, Taken, Answered, latest, DecidesOnLatest
<1> QED BY <1>1, DriveAlternates, PTL

\* The driver is at a place of its code, handles an event of the coordinator and
\* tracks only auto reviews of its session.
THEOREM DriveTyped == DriveSpec => []DriveTypeOK
<1> DEFINE Own == /\ at \in Places
                  /\ decision \in Events \union {None}
                  /\ silent \in BOOLEAN
                  /\ run_deadline \in BOOLEAN
                  /\ expired \in BOOLEAN
                  /\ running \subseteq Reviews
                  /\ processed \subseteq Reviews
                  /\ shutdown_sent \in BOOLEAN
<1>1. DriveInit => Own
  BY DEF DriveInit, Places
<1>2. TypeOK /\ Own /\ [DriveNext]_driveVars => Own'
  <2> SUFFICES ASSUME TypeOK, Own, [DriveNext]_driveVars PROVE Own'
    OBVIOUS
  <2>1. CASE RecvEvent
    <3>1. Head(events) \in Events
      BY <2>1 DEF RecvEvent, TakeEvent, TypeOK
    <3> QED BY <2>1, <3>1 DEF RecvEvent, NoSession, Goto, Places
  <2>2. CASE Acknowledge \/ SendsStop \/ SendUpdate
    BY <2>2 DEF Acknowledge, SendsStop, SendUpdate, NoSession, Goto, Places
  <2>3. CASE AbortStop \/ AbortCancel \/ Return \/ CancelRun
    BY <2>3 DEF AbortStop, AbortCancel, Return, CancelRun, NoSession, Goto, Places
  <2>4. CASE RecvClosed \/ DeadlineRecv \/ DeadlineTurn \/ DeadlineEnd \/ GraceOver
    BY <2>4 DEF RecvClosed, DeadlineRecv, DeadlineTurn, DeadlineEnd, GraceOver, Local, NoSession, Goto, Places
  <2>5. CASE SendShutdown
    BY <2>5 DEF SendShutdown, Local, Goto, Places
  <2>6. CASE TurnEnds \/ ShutdownComplete \/ SessionLost
    BY <2>6 DEF TurnEnds, TurnMessage, TurnSilent, TurnError, ShutdownComplete, SessionLost, Local, NoSession,
                Goto, Places
  <2>7. ASSUME NEW a \in Reviews, ReviewReported(a) PROVE Own'
    BY <2>7 DEF ReviewReported, Local, Places
  <2>8. CASE Expire
    BY <2>8 DEF Expire, NoSession
  <2>9. CASE CoordinatorStep \/ UNCHANGED driveVars
    BY <2>9 DEF CoordinatorStep, driveVars, driverVars
  <2> QED BY <2>1, <2>2, <2>3, <2>4, <2>5, <2>6, <2>7, <2>8, <2>9 DEF DriveNext, DriverStep, SessionStep
<1>3. TypeOK /\ Own => DriveTypeOK
  BY DEF DriveTypeOK
<1> QED BY <1>1, <1>2, <1>3, DriveIsClient, CoordinatorTypes, PTL DEF DriveSpec

\* A command that makes the coordinator send something.
Waking(q) == \E c \in Elems(q) : c.kind \in {"Update", "Stop"}

LEMMA OnTheWayView ==
    /\ EventOnTheWay <=> (at = "recv" => \/ events # <<>> \/ pc \in {"request", "exited"}
                                         \/ pending_conversation # None \/ Waking(cmds))
    /\ EventOnTheWay' <=> (at' = "recv" => \/ events' # <<>> \/ pc' \in {"request", "exited"}
                                           \/ pending_conversation' # None \/ Waking(cmds'))
BY DEF EventOnTheWay, Waking, Elems

\* The thread only ever adds to its events.
LEMMA ThreadTells ==
    ASSUME TypeOK, ThreadStep
    PROVE  events' = events \/ events' # <<>>
<1> USE DEF loopVars, histVars
<1>1. \A s \in Statuses : Decision(decision_seq + 1, s) \in Events
  BY DEF TypeOK, Decision, Events
<1>2. StopAck \in Events /\ \A command \in BOOLEAN : UserReply(command) \in Events
  BY DEF UserReply, StopAck, Events
<1>3. events' = events \/ \E e \in Events : events' = Append(events, e)
  <2>1. CASE LoopStep
    BY <1>1, <2>1 DEF LoopStep, TopQueue, TopRequest, TopCancelled, TopIdle, RequestOk, RequestInvalid,
                      RequestFailed, RequestCancelled, Send, Statuses
  <2>2. CASE RecvStep
    BY <1>2, <2>2 DEF RecvStep, RecvAck, RecvUser, RecvUpdate, RecvStop
  <2> QED BY <2>1, <2>2 DEF ThreadStep, CoordNext
<1>4. \A e \in Events : Append(events, e) # <<>>
  BY DEF TypeOK
<1> QED BY <1>3, <1>4

\* The coordinator's steps while the driver waits: a command is dealt with by sending an
\* event, by having a conversation to decide on or by ending.
LEMMA CoordinatorOnTheWay ==
    ASSUME TypeOK, Alternation, EventOnTheWay, CoordinatorStep
    PROVE  EventOnTheWay'
<1> USE DEF loopVars, histVars
<1>0. SUFFICES ASSUME at = "recv", events' = <<>>, pc' \notin {"request", "exited"}, pending_conversation' = None
               PROVE  Waking(cmds')
  BY OnTheWayView DEF CoordinatorStep, driverVars
<1>e. events = <<>>
  BY <1>0, ThreadTells DEF CoordinatorStep
<1>a. \A e \in Events : events' # Append(events, e)
  BY <1>0 DEF TypeOK
<1>r. pc # "request"
  <2> SUFFICES ASSUME pc = "request" PROVE FALSE
    OBVIOUS
  <2>1. InFlight
    BY DEF Alternation, Answered
  <2>2. working = latest /\ latest # None
    BY <2>1 DEF InFlight, Sent, Taken, latest, TypeOK
  <2>3. ~RequestInvalid
    BY <1>0, <2>2 DEF RequestInvalid
  <2>4. ~RequestCancelled
    BY <1>0 DEF RequestCancelled
  <2>5. ASSUME NEW s \in Statuses, Send(s) PROVE FALSE
    <3>1. Decision(decision_seq + 1, s) \in Events
      BY DEF TypeOK, Decision, Events
    <3> QED BY <1>a, <2>5, <3>1 DEF Send
  <2>6. \E s \in Statuses : RequestOk(s) \/ RequestFailed
    BY <2>3, <2>4 DEF CoordinatorStep, ThreadStep, CoordNext, LoopStep, RecvStep, TopQueue, TopRequest, TopCancelled,
                      TopIdle, RecvAck, RecvUser, RecvUpdate, RecvStop, Receive, Statuses
  <2> QED BY <2>5, <2>6 DEF RequestOk, RequestFailed, Statuses
<1>x. pc # "exited"
  BY DEF CoordinatorStep, ThreadStep, CoordNext, LoopStep, RecvStep, TopQueue, TopRequest, TopCancelled,
         TopIdle, RequestOk, RequestInvalid, RequestFailed, RequestCancelled, RecvAck, RecvUser, RecvUpdate, RecvStop, Receive
<1>p. pending_conversation = None
  <2> SUFFICES ASSUME pending_conversation # None PROVE FALSE
    OBVIOUS
  <2>1. InFlight
    BY DEF Alternation, Answered
  <2>2. pc = "top" /\ pending_ack_seq = None
    BY <1>r, <2>1 DEF InFlight, Sent, Taken
  <2> QED BY <1>0, <2>2 DEF CoordinatorStep, ThreadStep, CoordNext, LoopStep, RecvStep, TopQueue, TopRequest, TopCancelled,
         TopIdle, RequestOk, RequestInvalid, RequestFailed, RequestCancelled, RecvAck, RecvUser, RecvUpdate, RecvStop, Receive
<1>w. Waking(cmds)
  BY <1>0, <1>e, <1>r, <1>x, <1>p, OnTheWayView
<1>1. CASE LoopStep
  BY <1>1, <1>w DEF LoopStep
<1>2. CASE RecvStep
  <2>1. ~RecvStop
    BY <1>0 DEF RecvStop
  <2>2. ~RecvUser
    <3>1. \A command \in BOOLEAN : UserReply(command) \in Events
      BY DEF UserReply, Events
    <3> QED BY <1>a, <3>1 DEF RecvUser
  <2>3. cmds # <<>> /\ cmds' = Tail(cmds)
    BY <1>2, <2>1, <2>2 DEF RecvStep, RecvAck, RecvUpdate, Receive
  <2>4. Elems(cmds) = Elems(cmds') \union {Head(cmds)} /\ Head(cmds) = cmds[1]
    BY <2>3, ElemsPop DEF TypeOK
  <2>5. CASE RecvAck
    BY <1>w, <2>4, <2>5 DEF RecvAck, Receive, Waking
  <2>6. CASE RecvUpdate
    <3>1. (cmds[1].kind = "Update" /\ Head(cmds).conv = pending_conversation') \/ pending_ack_seq # None
      BY <1>p, <2>4, <2>6 DEF RecvUpdate, Receive
    <3>2. cmds[1].kind = "Update"
      BY <2>4, <2>6 DEF RecvUpdate, Receive
    <3>3. ~Answered
      <4>1. Len(cmds) >= 1 /\ Stop.kind = "Stop"
        BY <2>3 DEF TypeOK, Stop
      <4> QED BY <3>2, <4>1 DEF Answered, StopsFrom, TypeOK
    <3>4. pending_ack_seq = None
      <4>1. Sent
        BY <1>p, <1>r, <3>3 DEF Alternation, InFlight, Taken, TypeOK, latest
      <4> QED BY <3>2, <4>1 DEF Sent, AckDecision
    <3>5. Head(cmds).conv # None
      BY <2>6, ReceivedCommand, OrderTypes DEF RecvUpdate
    <3> QED BY <1>0, <3>1, <3>4, <3>5
  <2> QED BY <1>2, <2>1, <2>2, <2>5, <2>6 DEF RecvStep
<1> QED BY <1>1, <1>2 DEF CoordinatorStep, ThreadStep, CoordNext

\* A headless run never waits for an event that nobody will send: whenever
\* run_auto_drive_session is in event_rx.recv(), the event is there or the coordinator
\* is gone or has something left that makes it send one.
THEOREM DriveNeverStranded == DriveSpec => []EventOnTheWay
<1>1. DriveInit => EventOnTheWay
  <2> SUFFICES ASSUME DriveInit PROVE EventOnTheWay
    OBVIOUS
  <2>1. events = <<Decision(0, "Continue")>> \/ pc = "exited"
    BY NoneAssumption DEF DriveInit, Init, CoordInit
  <2> QED BY <2>1 DEF EventOnTheWay
<1>2. TypeOK /\ Alternation /\ EventOnTheWay /\ [DriveNext]_driveVars => EventOnTheWay'
  <2> SUFFICES ASSUME TypeOK, Alternation, EventOnTheWay, [DriveNext]_driveVars, at' = "recv"
               PROVE  EventOnTheWay'
    BY DEF EventOnTheWay
  <2>1. CASE CoordinatorStep
    BY <2>1, CoordinatorOnTheWay
  <2>2. ASSUME NEW x \in Commands, x.kind \in {"Update", "Stop"}, cmds' = Append(cmds, x) PROVE EventOnTheWay'
    <3>1. Elems(cmds') = Elems(cmds) \union {x}
      BY <2>2, ElemsPush DEF TypeOK
    <3> QED BY <2>2, <3>1, OnTheWayView DEF Waking
  <2>3. CASE SendsStop
    BY <2>2, <2>3 DEF SendsStop, SendStop, ClientSend, Commands, Stop
  <2>4. CASE SendUpdate
    <3>1. pc # "exited" /\ next_snapshot \in Snapshots /\ cmds' = Append(cmds, UpdateConversation(next_snapshot))
      BY <2>4 DEF SendUpdate, Goto, ClientSend, Snapshots, TypeOK
    <3>2. UpdateConversation(next_snapshot) \in Commands /\ UpdateConversation(next_snapshot).kind = "Update"
      BY <3>1 DEF Commands, UpdateConversation
    <3> QED BY <2>2, <3>1, <3>2
  <2>5. CASE UNCHANGED vars /\ at = "recv"
    BY <2>5 DEF EventOnTheWay, vars, threadVars, loopVars
  <2>6. CASE DriverStep /\ ~SendsStop /\ ~SendUpdate
    BY <2>6 DEF DriverStep, RecvEvent, RecvClosed, Acknowledge, DeadlineRecv, DeadlineTurn, DeadlineEnd, AbortStop,
                AbortCancel, Return, CancelRun, GraceOver, SendShutdown, Goto
  <2>7. CASE SessionStep \/ Expire \/ UNCHANGED driveVars
    <3>1. UNCHANGED vars
      BY <2>7 DEF SessionStep, TurnEnds, TurnMessage, TurnSilent, TurnError, ShutdownComplete, SessionLost,
                  ReviewReported, Expire, Local, driveVars
    <3>2. at = "recv"
      BY <2>7 DEF SessionStep, TurnEnds, TurnMessage, TurnSilent, TurnError, ShutdownComplete, SessionLost,
                  ReviewReported, Expire, Goto, driveVars, driverVars
    <3> QED BY <2>5, <3>1, <3>2
  <2> QED BY <2>1, <2>3, <2>4, <2>6, <2>7 DEF DriveNext
<1> QED BY <1>1, <1>2, DriveAlternates, DriveIsClient, CoordinatorTypes, PTL DEF DriveSpec
=============================================================================
