---------------------- MODULE CoordinatorClientProofs ----------------------
(***************************************************************************)
(* The safety of the Auto Drive coordinator loop, for every queue capacity,*)
(* retry limit, turn cap and number of snapshots.                          *)
(***************************************************************************)
EXTENDS CoordinatorClient, TLAPS

USE NoneAssumption, QueueCapAssumption, MaxRecoveryAssumption, TurnCapAssumption,
    MaxSnapshotsAssumption, MaxDupAcksAssumption

\* The queue as a set, after a pop.
LEMMA TailFacts ==
    ASSUME NEW S, NEW q \in Seq(S), q # <<>>
    PROVE  /\ Tail(q) \in Seq(S)
           /\ Len(Tail(q)) = Len(q) - 1
           /\ Head(q) \in S
           /\ \A i \in 1 .. Len(q) : q[i] = Head(q) \/ \E j \in 1 .. Len(Tail(q)) : Tail(q)[j] = q[i]
<1>1. Len(q) \in Nat \ {0}
  OBVIOUS
<1>2. Tail(q) \in Seq(S) /\ Len(Tail(q)) = Len(q) - 1 /\ Head(q) \in S
  BY <1>1
<1>3. ASSUME NEW i \in 1 .. Len(q), i # 1
      PROVE  \E j \in 1 .. Len(Tail(q)) : Tail(q)[j] = q[i]
  <2>1. i - 1 \in 1 .. Len(Tail(q))
    BY <1>2, <1>3, <1>1
  <2>2. Tail(q)[i - 1] = q[i]
    BY <1>3, <1>1
  <2> QED BY <2>1, <2>2
<1>4. Head(q) = q[1]
  BY <1>1
<1> QED BY <1>2, <1>3, <1>4

\* The queue as a set, after a push.
LEMMA AppendFacts ==
    ASSUME NEW S, NEW q \in Seq(S), NEW n \in S
    PROVE  /\ Append(q, n) \in Seq(S)
           /\ Len(Append(q, n)) = Len(q) + 1
           /\ Append(q, n) # <<>>
           /\ \A i \in 1 .. Len(q) : \E j \in 1 .. Len(Append(q, n)) : Append(q, n)[j] = q[i]
           /\ \E j \in 1 .. Len(Append(q, n)) : Append(q, n)[j] = n
<1>1. Append(q, n) \in Seq(S) /\ Len(Append(q, n)) = Len(q) + 1 /\ Append(q, n) # <<>> /\ Len(q) \in Nat
  OBVIOUS
<1>2. \A i \in 1 .. Len(q) : Append(q, n)[i] = q[i] /\ i \in 1 .. Len(Append(q, n))
  BY <1>1
<1>3. Append(q, n)[Len(q) + 1] = n /\ Len(q) + 1 \in 1 .. Len(Append(q, n))
  BY <1>1
<1> QED BY <1>1, <1>2, <1>3

\* r holds what the queue q held, except its head, and n.
Rotated(S, q, r, n) ==
    /\ r \in Seq(S)
    /\ Len(r) = Len(q)
    /\ r # <<>>
    /\ \A i \in 1 .. Len(q) : q[i] = Head(q) \/ \E j \in 1 .. Len(r) : r[j] = q[i]
    /\ \E j \in 1 .. Len(r) : r[j] = n

\* The queue as a set, after a pop and a push.
LEMMA RotateFacts ==
    \A S, q, n, r : q \in Seq(S) /\ q # <<>> /\ n \in S /\ r = Append(Tail(q), n) => Rotated(S, q, r, n)
<1> SUFFICES ASSUME NEW S, NEW q \in Seq(S), q # <<>>, NEW n \in S, NEW r, r = Append(Tail(q), n)
             PROVE  Rotated(S, q, r, n)
  OBVIOUS
<1>1. Len(q) \in Nat \ {0}
  OBVIOUS
<1>2. r \in Seq(S) /\ Len(r) = Len(q) /\ r # <<>> /\ Head(q) = q[1]
  BY <1>1
<1>3. ASSUME NEW i \in 1 .. Len(q), i # 1 PROVE \E j \in 1 .. Len(r) : r[j] = q[i]
  <2>1. i - 1 \in 1 .. Len(r)
    BY <1>1, <1>2, <1>3
  <2>2. r[i - 1] = q[i]
    BY <1>1, <1>3
  <2> QED BY <2>1, <2>2
<1>4. r[Len(q)] = n /\ Len(q) \in 1 .. Len(r)
  BY <1>1, <1>2
<1> QED BY <1>2, <1>3, <1>4 DEF Rotated

\* A capped push keeps the queue's bound and loses nothing but what it records as
\* dropped.
LEMMA CappedPush ==
    ASSUME NEW n \in Snapshots, queued_updates \in Seq(Snapshots), dropped \subseteq Snapshots,
           Len(queued_updates) <= QueueCap, queue_update_capped(n)
    PROVE  /\ queued_updates' \in Seq(Snapshots)
           /\ Len(queued_updates') <= QueueCap
           /\ queued_updates' # <<>>
           /\ dropped' \subseteq Snapshots
           /\ dropped \union Queued \union {n} \subseteq dropped' \union Queued'
<1>1. CASE Len(queued_updates) >= QueueCap
  <2>1. queued_updates # <<>>
    BY <1>1
  <2>2. queued_updates' = Append(Tail(queued_updates), n) /\ dropped' = dropped \union {Head(queued_updates)}
    BY <1>1 DEF queue_update_capped
  <2>3. /\ queued_updates' \in Seq(Snapshots)
        /\ Len(queued_updates') = Len(queued_updates)
        /\ queued_updates' # <<>>
        /\ \A i \in 1 .. Len(queued_updates) :
               \/ queued_updates[i] = Head(queued_updates)
               \/ \E j \in 1 .. Len(queued_updates') : queued_updates'[j] = queued_updates[i]
        /\ \E j \in 1 .. Len(queued_updates') : queued_updates'[j] = n
    <3>1. Rotated(Snapshots, queued_updates, queued_updates', n)
      BY <2>1, <2>2, RotateFacts, Zenon
    <3> QED BY <3>1, Zenon DEF Rotated
  <2>4. Head(queued_updates) \in Snapshots
    BY <2>1, TailFacts
  <2>5. ASSUME NEW x \in Queued PROVE x \in dropped' \union Queued'
    BY <2>2, <2>3, Zenon DEF Queued
  <2>6. n \in Queued'
    BY <2>3, Zenon DEF Queued
  <2> QED BY <2>2, <2>3, <2>4, <2>5, <2>6
<1>2. CASE ~(Len(queued_updates) >= QueueCap)
  <2>1. queued_updates' = Append(queued_updates, n) /\ dropped' = dropped
    BY <1>2 DEF queue_update_capped
  <2>2. /\ queued_updates' \in Seq(Snapshots)
        /\ Len(queued_updates') = Len(queued_updates) + 1
        /\ queued_updates' # <<>>
        /\ \A i \in 1 .. Len(queued_updates) :
               \E j \in 1 .. Len(queued_updates') : queued_updates'[j] = queued_updates[i]
        /\ \E j \in 1 .. Len(queued_updates') : queued_updates'[j] = n
    BY <2>1, AppendFacts
  <2>3. Len(queued_updates') <= QueueCap
    BY <1>2, <2>2
  <2>4. Queued \union {n} \subseteq Queued'
    BY <2>2 DEF Queued
  <2> QED BY <2>1, <2>2, <2>3, <2>4
<1> QED BY <1>1, <1>2

-----------------------------------------------------------------------------
(* Types *)

\* What a step from a typed state knows about the next command and event.
LEMMA ReceivedCommand ==
    ASSUME TypeOK, NEW k \in {"Ack", "Update", "User", "Stop"}, Receive(k)
    PROVE  /\ cmds' \in Seq(Commands)
           /\ k = "Ack" => Head(cmds).seq \in Nat
           /\ k \in {"Update", "User"} => Head(cmds).conv \in Snapshots
<1>1. cmds \in Seq(Commands) /\ cmds # <<>> /\ cmds' = Tail(cmds) /\ Head(cmds).kind = k
  BY DEF Receive, TypeOK
<1>2. Head(cmds) \in Commands /\ cmds' \in Seq(Commands)
  BY <1>1, TailFacts, Zenon
<1>3. k = "Ack" => Head(cmds).seq \in Nat
  BY <1>1, <1>2 DEF Commands, Stop
<1>4. k \in {"Update", "User"} => Head(cmds).conv \in Snapshots
  BY <1>1, <1>2 DEF Commands, Stop
<1> QED BY <1>2, <1>3, <1>4

LEMMA SendType ==
    ASSUME TypeOK, NEW status \in Statuses, Send(status)
    PROVE  /\ decision_seq' \in Nat
           /\ pending_ack_seq' \in Nat \union {None}
           /\ events' \in Seq(Events)
           /\ unacked' \subseteq Nat
<1>1. Decision(decision_seq + 1, status) \in Events
  BY DEF TypeOK, Decision, Events
<1> QED BY <1>1, AppendFacts DEF TypeOK, Send

LEMMA LoopType == ASSUME TypeOK, LoopStep, UNCHANGED <<cancelled, closed, clientVars>> PROVE TypeOK'
<1> USE DEF clientVars
<1>1. CASE TopQueue
  <2>1. queued_updates' \in Seq(Snapshots) /\ Len(queued_updates') <= QueueCap /\ dropped' \subseteq Snapshots
    BY <1>1, CappedPush DEF TypeOK, TopQueue
  <2> QED BY <1>1, <2>1 DEF TypeOK, TopQueue, LoopStep
<1>2. CASE TopRequest
  <2>1. queued_updates # <<>> =>
            /\ Tail(queued_updates) \in Seq(Snapshots)
            /\ Len(Tail(queued_updates)) = Len(queued_updates) - 1
            /\ Head(queued_updates) \in Snapshots
    BY TailFacts DEF TypeOK
  <2> QED BY <1>2, <2>1 DEF TypeOK, TopRequest, LoopStep
<1>3. CASE TopCancelled
  <2>1. queued_updates # <<>> =>
            /\ Tail(queued_updates) \in Seq(Snapshots)
            /\ Len(Tail(queued_updates)) = Len(queued_updates) - 1
    BY TailFacts DEF TypeOK
  <2> QED BY <1>3, <2>1 DEF TypeOK, TopCancelled, LoopStep, histVars
<1>4. CASE TopIdle
  BY <1>4 DEF TypeOK, TopIdle, LoopStep, loopVars, histVars
<1>5. ASSUME NEW status \in Statuses, RequestOk(status) PROVE TypeOK'
  <2>1. PICK sent \in Statuses : Send(sent)
    BY <1>5 DEF RequestOk, Statuses
  <2>2. /\ decision_seq' \in Nat
        /\ pending_ack_seq' \in Nat \union {None}
        /\ events' \in Seq(Events)
        /\ unacked' \subseteq Nat
    BY <2>1, SendType
  <2> QED BY <1>5, <2>2 DEF TypeOK, RequestOk, LoopStep
<1>6. CASE RequestInvalid
  BY <1>6 DEF TypeOK, RequestInvalid, LoopStep, histVars
<1>7. CASE RequestFailed
  <2>1. /\ decision_seq' \in Nat
        /\ pending_ack_seq' \in Nat \union {None}
        /\ events' \in Seq(Events)
        /\ unacked' \subseteq Nat
    BY <1>7, SendType DEF RequestFailed, Statuses
  <2> QED BY <1>7, <2>1 DEF TypeOK, RequestFailed, LoopStep
<1>8. CASE RequestCancelled
  BY <1>8 DEF TypeOK, RequestCancelled, LoopStep, loopVars, histVars
<1> QED BY <1>1, <1>2, <1>3, <1>4, <1>5, <1>6, <1>7, <1>8 DEF LoopStep

LEMMA RecvType == ASSUME TypeOK, RecvStep, UNCHANGED <<cancelled, closed, clientVars>> PROVE TypeOK'
<1> USE DEF clientVars
<1>1. CASE RecvAck
  <2>1. cmds' \in Seq(Commands)
    BY <1>1, ReceivedCommand DEF RecvAck
  <2>2. queued_updates # <<>> =>
            /\ Tail(queued_updates) \in Seq(Snapshots)
            /\ Len(Tail(queued_updates)) = Len(queued_updates) - 1
            /\ Head(queued_updates) \in Snapshots
    BY TailFacts DEF TypeOK
  <2>3. /\ pending_ack_seq' \in Nat \union {None}
        /\ unacked' \subseteq Nat
        /\ pending_conversation' \in Snapshots \union {None}
        /\ queued_updates' \in Seq(Snapshots)
        /\ Len(queued_updates') <= QueueCap
    <3>1. CASE pending_ack_seq = Head(cmds).seq
      <4>1. CASE queued_updates = <<>>
        BY <1>1, <3>1, <4>1 DEF TypeOK, RecvAck
      <4>2. CASE queued_updates # <<>>
        <5>1. /\ pending_ack_seq' = None
              /\ unacked' = unacked \ {Head(cmds).seq}
              /\ pending_conversation' = Head(queued_updates)
              /\ queued_updates' = Tail(queued_updates)
          BY <1>1, <3>1, <4>2 DEF RecvAck
        <5>2. Len(queued_updates) \in Nat /\ Len(queued_updates) <= QueueCap
          BY DEF TypeOK
        <5>3. unacked' \subseteq Nat
          BY <5>1 DEF TypeOK
        <5> QED BY <2>2, <4>2, <5>1, <5>2, <5>3
      <4> QED BY <4>1, <4>2
    <3>2. CASE pending_ack_seq # Head(cmds).seq
      BY <1>1, <3>2 DEF TypeOK, RecvAck
    <3> QED BY <3>1, <3>2
  <2> QED BY <1>1, <2>1, <2>3 DEF TypeOK, RecvAck
<1>2. CASE RecvUser
  <2>1. cmds' \in Seq(Commands) /\ Head(cmds).conv \in Snapshots
    BY <1>2, ReceivedCommand DEF RecvUser
  <2>2. PICK command \in BOOLEAN : events' = Append(events, UserReply(command))
    BY <1>2 DEF RecvUser
  <2>3. UserReply(command) \in Events
    BY DEF UserReply, Events
  <2>4. events' \in Seq(Events)
    BY <2>2, <2>3, AppendFacts DEF TypeOK
  <2> QED BY <1>2, <2>1, <2>4 DEF TypeOK, RecvUser
<1>3. CASE RecvUpdate
  <2>1. cmds' \in Seq(Commands) /\ Head(cmds).conv \in Snapshots
    BY <1>3, ReceivedCommand DEF RecvUpdate
  <2>2. /\ queued_updates' \in Seq(Snapshots)
        /\ Len(queued_updates') <= QueueCap
        /\ dropped' \subseteq Snapshots
        /\ pending_conversation' \in Snapshots \union {None}
    BY <1>3, <2>1, CappedPush DEF TypeOK, RecvUpdate
  <2> QED BY <1>3, <2>1, <2>2 DEF TypeOK, RecvUpdate
<1>4. CASE RecvStop
  <2>1. cmds' \in Seq(Commands)
    BY <1>4, ReceivedCommand DEF RecvStop, TypeOK
  <2>2. events' \in Seq(Events)
    <3>1. StopAck \in Events
      BY DEF Events
    <3> QED BY <1>4, <3>1, AppendFacts DEF RecvStop, TypeOK
  <2>3. <<>> \in Seq(Snapshots) /\ Len(<<>>) = 0
    OBVIOUS
  <2> QED BY <1>4, <2>1, <2>2, <2>3 DEF TypeOK, RecvStop, histVars
<1> QED BY <1>1, <1>2, <1>3, <1>4 DEF RecvStep

LEMMA ClientType == ASSUME TypeOK, ClientNext PROVE TypeOK'
<1> USE DEF threadVars, loopVars, histVars, clientVars
<1>1. ASSUME NEW c \in Commands, ClientSend(c)
      PROVE  cmds' \in Seq(Commands) /\ UNCHANGED <<threadVars, cancelled, closed>>
  BY <1>1, AppendFacts DEF TypeOK, ClientSend
<1>2. CASE SendConversation
  <2>1. next_snapshot \in Snapshots
    BY <1>2 DEF SendConversation, TypeOK, Snapshots
  <2>2. UpdateConversation(next_snapshot) \in Commands /\ HandleUserPrompt(next_snapshot) \in Commands
    BY <2>1 DEF UpdateConversation, HandleUserPrompt, Commands
  <2>3. cmds' \in Seq(Commands) /\ UNCHANGED <<threadVars, cancelled, closed>>
    BY <1>1, <1>2, <2>2 DEF SendConversation
  <2> QED BY <1>2, <2>3 DEF TypeOK, SendConversation
<1>3. ASSUME NEW s \in received, SendAck(s) \/ RepeatAck(s) PROVE TypeOK'
  <2>1. AckDecision(s) \in Commands
    BY DEF AckDecision, Commands, TypeOK
  <2>2. cmds' \in Seq(Commands) /\ UNCHANGED <<threadVars, cancelled, closed>>
    BY <1>1, <1>3, <2>1 DEF SendAck, RepeatAck
  <2>3. CASE SendAck(s)
    BY <2>2, <2>3 DEF TypeOK, SendAck
  <2>4. CASE RepeatAck(s)
    BY <2>2, <2>4 DEF TypeOK, RepeatAck
  <2> QED BY <1>3, <2>3, <2>4
<1>4. CASE SendStop
  <2>1. Stop \in Commands
    BY DEF Commands
  <2>2. cmds' \in Seq(Commands) /\ UNCHANGED <<threadVars, cancelled, closed>>
    BY <1>1, <1>4, <2>1 DEF SendStop
  <2> QED BY <1>4, <2>2 DEF TypeOK, SendStop
<1>5. CASE Cancel
  BY <1>5 DEF TypeOK, Cancel
<1>6. CASE DropHandle
  BY <1>6 DEF TypeOK, DropHandle
<1>7. CASE TakeEvent
  <2>1. events' \in Seq(Events) /\ Head(events) \in Events
    BY <1>7, TailFacts DEF TakeEvent, TypeOK
  <2>2. Head(events).kind = "Decision" => Head(events).seq \in Nat
    BY <2>1 DEF Events, StopAck
  <2> QED BY <1>7, <2>1, <2>2 DEF TypeOK, TakeEvent
<1> QED BY <1>2, <1>3, <1>4, <1>5, <1>6, <1>7 DEF ClientNext

\* The types hold initially.
LEMMA InitTypes == Init => TypeOK
<1> SUFFICES ASSUME Init PROVE TypeOK
  OBVIOUS
<1>1. events \in Seq(Events)
  <2>1. Decision(0, "Continue") \in Events
    BY DEF Decision, Events, Statuses
  <2>2. <<>> \in Seq(Events) /\ <<Decision(0, "Continue")>> \in Seq(Events)
    BY <2>1
  <2> QED BY <2>2 DEF Init, CoordInit
<1>2. queued_updates \in Seq(Snapshots) /\ Len(queued_updates) = 0 /\ cmds \in Seq(Commands)
  BY DEF Init, CoordInit
<1>3. 1 \in Snapshots
  BY DEF Snapshots
<1>4. /\ pending_conversation \in Snapshots \union {None}
      /\ pending_ack_seq \in Nat \union {None}
      /\ unacked \subseteq Nat
      /\ accepted \subseteq Snapshots
  BY <1>3 DEF Init, CoordInit
<1>5. /\ consecutive_decision_failures \in 0 .. MaxRecovery
      /\ dups \in 0 .. MaxDupAcks
  BY DEF Init, CoordInit
<1>6. /\ pc \in {"top", "exited"} /\ working = None /\ decision_seq = 0 /\ coordinator_turns_seen = 0
      /\ attempts = 0 /\ continues = 0 /\ done = {} /\ dropped = {}
      /\ next_snapshot = 2 /\ received = {} /\ owed = {}
  BY DEF Init, CoordInit
<1>7. cancelled \in BOOLEAN /\ closed \in BOOLEAN
  BY Zenon DEF Init, CoordInit
<1> QED BY <1>1, <1>2, <1>4, <1>5, <1>6, <1>7 DEF TypeOK

\* A step of the thread or of the client keeps the types.
LEMMA StepTypes == TypeOK /\ [Next]_vars => TypeOK'
<1> SUFFICES ASSUME TypeOK, [Next]_vars PROVE TypeOK'
  OBVIOUS
<1>1. CASE ThreadStep
  BY <1>1, LoopType, RecvType DEF ThreadStep, CoordNext
<1>2. CASE ClientNext
  BY <1>2, ClientType
<1>3. CASE UNCHANGED vars
  BY <1>3 DEF TypeOK, vars, threadVars, loopVars, histVars, clientVars
<1> QED BY <1>1, <1>2, <1>3 DEF Next

\* Every variable of the coordinator and its client keeps its type, and the queue of
\* run_auto_loop its cap.
THEOREM CoordinatorTypes == Spec => []TypeOK
BY InitTypes, StepTypes, PTL DEF Spec
-----------------------------------------------------------------------------
(* The inductive invariant of run_auto_loop *)

\* While the loop runs, the decision without an ack is the one it waits for.
Gate ==
    /\ pc # "exited" => unacked = IF pending_ack_seq = None THEN {} ELSE {pending_ack_seq}
    /\ \A a, b \in unacked : a = b

\* A request is made with no ack due and nothing else pending.
Requesting == pc = "request" =>
    pending_ack_seq = None /\ pending_conversation = None /\ working # None /\ working \in done

\* The failure counter counts the requests made since the last command or success, and
\* a retry is never put aside.
Retrying ==
    /\ attempts <= MaxRecovery + 1
    /\ pc = "top" => /\ attempts = consecutive_decision_failures
                     /\ attempts # 0 => pending_conversation # None /\ pending_ack_seq = None
    /\ pc = "recv" => attempts = 0 /\ consecutive_decision_failures = 0
    /\ pc = "request" => attempts = consecutive_decision_failures + 1

\* Each Continue decision is a turn.
Turns == continues <= coordinator_turns_seen /\ (TurnCap > 0 => continues < TurnCap)

LoopInv == Gate /\ Requesting /\ Retrying /\ Turns /\ QueueWaitsForAck /\ NothingVanishes

LEMMA QueuedTail ==
    ASSUME queued_updates \in Seq(Snapshots), queued_updates # <<>>, queued_updates' = Tail(queued_updates)
    PROVE  Queued \subseteq Queued' \union {Head(queued_updates)}
<1>1. \A i \in 1 .. Len(queued_updates) :
          \/ queued_updates[i] = Head(queued_updates)
          \/ \E j \in 1 .. Len(queued_updates') : queued_updates'[j] = queued_updates[i]
  BY TailFacts
<1> QED BY <1>1, Zenon DEF Queued

LEMMA InitLoop == Init => LoopInv
<1> SUFFICES ASSUME Init PROVE LoopInv
  OBVIOUS
<1>1. Gate
  BY DEF Init, CoordInit, Gate
<1>2. Requesting /\ Retrying /\ Turns
  BY DEF Init, CoordInit, Requesting, Retrying, Turns
<1>3. QueueWaitsForAck /\ NothingVanishes
  BY DEF Init, CoordInit, QueueWaitsForAck, NothingVanishes
<1> QED BY <1>1, <1>2, <1>3 DEF LoopInv

LEMMA TopStep ==
    ASSUME TypeOK, LoopInv, TopQueue \/ TopRequest \/ TopCancelled \/ TopIdle
    PROVE  LoopInv'
<1> USE DEF LoopInv
<1>1. CASE TopQueue
  <2>1. queued_updates' # <<>> /\ dropped \union Queued \union {pending_conversation} \subseteq dropped' \union Queued'
    BY <1>1, CappedPush DEF TypeOK, TopQueue
  <2>2. NothingVanishes'
    BY <1>1, <2>1 DEF NothingVanishes, TopQueue
  <2>3. Gate' /\ Requesting' /\ Turns'
    BY <1>1 DEF TopQueue, Gate, Requesting, Turns
  <2>4. Retrying' /\ QueueWaitsForAck'
    BY <1>1 DEF TopQueue, Retrying, QueueWaitsForAck
  <2> QED BY <2>2, <2>3, <2>4
<1>2. CASE TopRequest
  <2>1. Gate' /\ Turns'
    BY <1>2 DEF TopRequest, Gate, Turns
  <2>2. Retrying' /\ QueueWaitsForAck'
    BY <1>2 DEF TopRequest, Retrying, QueueWaitsForAck, TypeOK
  <2>3. Requesting'
    <3>1. working' # None
      <4>1. queued_updates # <<>> => Head(queued_updates) \in Snapshots
        BY TailFacts DEF TypeOK
      <4> QED BY <1>2, <4>1 DEF TopRequest, Snapshots
    <3> QED BY <1>2, <3>1 DEF TopRequest, Requesting
  <2>4. NothingVanishes'
    <3>1. CASE pending_conversation # None
      <4>1. Queued' = Queued
        BY <1>2, <3>1 DEF TopRequest, Queued
      <4> QED BY <1>2, <3>1, <4>1 DEF TopRequest, NothingVanishes
    <3>2. CASE pending_conversation = None
      <4>1. working' = Head(queued_updates) /\ queued_updates' = Tail(queued_updates)
            /\ queued_updates # <<>>
        BY <1>2, <3>2 DEF TopRequest
      <4>2. Queued \subseteq Queued' \union {working'}
        BY <4>1, QueuedTail DEF TypeOK
      <4> QED BY <1>2, <3>2, <4>2 DEF TopRequest, NothingVanishes
    <3> QED BY <3>1, <3>2
  <2> QED BY <2>1, <2>2, <2>3, <2>4
<1>3. CASE TopCancelled
  <2>1. Gate' /\ Turns' /\ Requesting'
    BY <1>3 DEF TopCancelled, Gate, Turns, Requesting, histVars
  <2> QED BY <1>3, <2>1 DEF TopCancelled, Retrying, QueueWaitsForAck, NothingVanishes, histVars
<1>4. CASE TopIdle
  <2> USE DEF loopVars, histVars
  <2>1. Gate' /\ Turns' /\ Requesting'
    BY <1>4 DEF TopIdle, Gate, Turns, Requesting
  <2>2. Retrying' /\ QueueWaitsForAck'
    BY <1>4 DEF TopIdle, Retrying, QueueWaitsForAck
  <2>3. NothingVanishes'
    BY <1>4 DEF TopIdle, NothingVanishes, Queued
  <2> QED BY <2>1, <2>2, <2>3
<1> QED BY <1>1, <1>2, <1>3, <1>4

LEMMA RequestStep ==
    ASSUME TypeOK, LoopInv,
           (\E status \in Statuses : RequestOk(status)) \/ RequestInvalid \/ RequestFailed \/ RequestCancelled
    PROVE  LoopInv'
<1> USE DEF LoopInv
<1>1. ASSUME NEW status \in Statuses, RequestOk(status) PROVE LoopInv'
  <2>1. /\ pending_ack_seq' = decision_seq + 1
        /\ unacked' = unacked \union {decision_seq + 1}
        /\ pc = "request"
        /\ pc' \in {"top", "exited"}
    BY <1>1 DEF RequestOk, Send
  <2>2. Gate' /\ Requesting'
    <3>1. unacked = {}
      BY <2>1 DEF Gate, Requesting
    <3>2. pending_ack_seq' # None
      BY <2>1 DEF TypeOK
    <3> QED BY <2>1, <3>1, <3>2 DEF Gate, Requesting
  <2>3. Retrying' /\ QueueWaitsForAck'
    BY <1>1, <2>1 DEF RequestOk, Retrying, QueueWaitsForAck, TypeOK
  <2>4. Turns'
    BY <1>1 DEF RequestOk, Turns, AtTurnCap, TypeOK
  <2>5. NothingVanishes'
    BY <1>1 DEF RequestOk, NothingVanishes, Queued
  <2> QED BY <2>2, <2>3, <2>4, <2>5
<1>2. CASE RequestInvalid
  <2>1. Gate' /\ Turns' /\ Requesting'
    BY <1>2 DEF RequestInvalid, Gate, Turns, Requesting, histVars
  <2>2. Retrying' /\ QueueWaitsForAck'
    <3>1. /\ attempts' = attempts
          /\ attempts = consecutive_decision_failures + 1
          /\ attempts <= MaxRecovery + 1
      BY <1>2 DEF RequestInvalid, Retrying, histVars
    <3>2. /\ consecutive_decision_failures' = consecutive_decision_failures + 1
          /\ pending_conversation' = working
          /\ pending_ack_seq' = pending_ack_seq
          /\ pc' = "top"
      BY <1>2 DEF RequestInvalid
    <3>3. working # None /\ pending_ack_seq = None
      BY <1>2 DEF RequestInvalid, Requesting
    <3> QED BY <3>1, <3>2, <3>3 DEF Retrying, QueueWaitsForAck
  <2>3. NothingVanishes'
    <3>1. accepted \subseteq done \union dropped \union {None} \union Queued
      BY <1>2 DEF RequestInvalid, NothingVanishes, Requesting
    <3>2. accepted \subseteq Snapshots /\ None \notin Snapshots
      BY DEF TypeOK, Snapshots
    <3> QED BY <1>2, <3>1, <3>2 DEF RequestInvalid, NothingVanishes, Queued, histVars
  <2> QED BY <2>1, <2>2, <2>3
<1>3. CASE RequestFailed
  <2>1. /\ unacked' = unacked \union {decision_seq + 1}
        /\ pc = "request"
        /\ pc' = "exited"
    BY <1>3 DEF RequestFailed, Send
  <2>2. Gate' /\ Requesting'
    <3>1. unacked = {}
      BY <2>1 DEF Gate, Requesting
    <3> QED BY <2>1, <3>1 DEF Gate, Requesting
  <2>3. Retrying' /\ QueueWaitsForAck' /\ Turns' /\ NothingVanishes'
    BY <1>3, <2>1 DEF RequestFailed, Retrying, QueueWaitsForAck, Turns, NothingVanishes
  <2> QED BY <2>2, <2>3
<1>4. CASE RequestCancelled
  <2> USE DEF loopVars, histVars
  <2>1. Gate' /\ Requesting' /\ Turns'
    BY <1>4 DEF RequestCancelled, Gate, Requesting, Turns
  <2>2. Retrying' /\ QueueWaitsForAck' /\ NothingVanishes'
    BY <1>4 DEF RequestCancelled, Retrying, QueueWaitsForAck, NothingVanishes
  <2> QED BY <2>1, <2>2
<1> QED BY <1>1, <1>2, <1>3, <1>4

LEMMA RecvLoop == ASSUME TypeOK, LoopInv, RecvStep PROVE LoopInv'
<1> USE DEF LoopInv
<1>1. pc = "recv" /\ pending_conversation = None /\ attempts = 0 /\ consecutive_decision_failures = 0
  BY DEF RecvStep, RecvAck, RecvUser, RecvUpdate, RecvStop, Receive, QueueWaitsForAck, Retrying
<1>2. CASE RecvAck
  <2>1. Turns' /\ Requesting'
    BY <1>2 DEF RecvAck, Turns, Requesting
  <2>2. CASE pending_ack_seq = Head(cmds).seq
    <3>1. pending_ack_seq' = None /\ unacked' = unacked \ {pending_ack_seq} /\ pc' = "top"
      BY <1>1, <1>2, <2>2 DEF RecvAck
    <3>2. Gate'
      <4>1. unacked \subseteq {pending_ack_seq}
        BY <1>1 DEF Gate
      <4> QED BY <3>1, <4>1 DEF Gate
    <3>3. CASE queued_updates = <<>>
      <4>1. queued_updates' = queued_updates /\ pending_conversation' = pending_conversation
        BY <1>1, <1>2, <2>2, <3>3 DEF RecvAck
      <4>2. Retrying' /\ QueueWaitsForAck'
        BY <1>1, <1>2, <3>3, <4>1 DEF RecvAck, Retrying, QueueWaitsForAck
      <4>3. NothingVanishes'
        BY <1>1, <1>2, <4>1 DEF RecvAck, NothingVanishes, Queued
      <4> QED BY <2>1, <3>2, <4>2, <4>3
    <3>4. CASE queued_updates # <<>>
      <4>1. queued_updates' = Tail(queued_updates) /\ pending_conversation' = Head(queued_updates)
        BY <1>1, <1>2, <2>2, <3>4 DEF RecvAck
      <4>2. pending_conversation' # None
        <5>1. Head(queued_updates) \in Snapshots
          BY <3>4, TailFacts DEF TypeOK
        <5> QED BY <4>1, <5>1 DEF Snapshots
      <4>3. Retrying' /\ QueueWaitsForAck'
        BY <1>1, <1>2, <3>1, <4>2 DEF RecvAck, Retrying, QueueWaitsForAck
      <4>4. Queued \subseteq Queued' \union {pending_conversation'}
        BY <3>4, <4>1, QueuedTail DEF TypeOK
      <4>5. NothingVanishes'
        <5>1. accepted \subseteq done \union dropped \union {None} \union Queued
          BY <1>1 DEF NothingVanishes
        <5>2. accepted' \subseteq Snapshots /\ None \notin Snapshots
          BY <1>2 DEF RecvAck, TypeOK, Snapshots
        <5>3. accepted' = accepted /\ done' = done /\ dropped' = dropped
          BY <1>2 DEF RecvAck
        <5> QED BY <4>4, <5>1, <5>2, <5>3 DEF NothingVanishes
      <4> QED BY <2>1, <3>2, <4>3, <4>5
    <3> QED BY <3>3, <3>4
  <2>3. CASE pending_ack_seq # Head(cmds).seq
    <3>1. /\ UNCHANGED <<pending_ack_seq, unacked, pending_conversation, queued_updates>>
          /\ pc' = "top"
      BY <1>2, <2>3 DEF RecvAck
    <3>2. Gate'
      BY <1>1, <3>1 DEF Gate
    <3>3. Retrying' /\ QueueWaitsForAck'
      BY <1>1, <1>2, <3>1 DEF RecvAck, Retrying, QueueWaitsForAck
    <3>4. NothingVanishes'
      BY <1>1, <1>2, <3>1 DEF RecvAck, NothingVanishes, Queued
    <3> QED BY <2>1, <3>2, <3>3, <3>4
  <2> QED BY <2>2, <2>3
<1>3. CASE RecvUser
  <2>1. Gate' /\ Turns' /\ Requesting'
    BY <1>1, <1>3 DEF RecvUser, Gate, Turns, Requesting
  <2>2. Retrying' /\ QueueWaitsForAck'
    <3>1. pending_ack_seq' = None => queued_updates' = <<>>
      BY <1>1, <1>3 DEF RecvUser, QueueWaitsForAck
    <3> QED BY <1>1, <1>3, <3>1 DEF RecvUser, Retrying, QueueWaitsForAck
  <2>3. NothingVanishes'
    <3>1. accepted \subseteq done \union dropped \union {None} \union Queued
      BY <1>1 DEF NothingVanishes
    <3>2. accepted \subseteq Snapshots /\ None \notin Snapshots
      BY DEF TypeOK, Snapshots
    <3>3. accepted \subseteq done' \union dropped' \union Queued'
      BY <1>3, <3>1, <3>2 DEF RecvUser, Queued
    <3>4. accepted' \subseteq accepted \union {pending_conversation'}
      BY <1>3 DEF RecvUser
    <3> QED BY <3>3, <3>4 DEF NothingVanishes
  <2> QED BY <2>1, <2>2, <2>3
<1>4. CASE RecvUpdate
  <2>1. Gate' /\ Turns' /\ Requesting'
    BY <1>1, <1>4 DEF RecvUpdate, Gate, Turns, Requesting
  <2>2. Head(cmds).conv \in Snapshots
    BY <1>4, ReceivedCommand DEF RecvUpdate
  <2>3. CASE pending_ack_seq # None
    <3>1. queue_update_capped(Head(cmds).conv) /\ pending_conversation' = pending_conversation
      BY <1>4, <2>3 DEF RecvUpdate
    <3>2. dropped \union Queued \union {Head(cmds).conv} \subseteq dropped' \union Queued'
      BY <2>2, <3>1, CappedPush DEF TypeOK
    <3>3. NothingVanishes'
      BY <1>1, <1>4, <3>1, <3>2 DEF RecvUpdate, NothingVanishes
    <3>4. Retrying' /\ QueueWaitsForAck'
      BY <1>1, <1>4, <2>3 DEF RecvUpdate, Retrying, QueueWaitsForAck
    <3> QED BY <2>1, <3>3, <3>4
  <2>4. CASE pending_ack_seq = None
    <3>1. pending_conversation' = Head(cmds).conv /\ UNCHANGED <<queued_updates, dropped>>
      BY <1>1, <1>4, <2>4 DEF RecvUpdate
    <3>2. queued_updates = <<>>
      BY <1>1, <2>4 DEF QueueWaitsForAck
    <3>3. NothingVanishes'
      <4>1. accepted \subseteq done \union dropped \union {None}
        BY <1>1, <3>2 DEF NothingVanishes, Queued
      <4>2. accepted \subseteq Snapshots /\ None \notin Snapshots
        BY DEF TypeOK, Snapshots
      <4> QED BY <1>4, <3>1, <4>1, <4>2 DEF RecvUpdate, NothingVanishes
    <3>4. Retrying' /\ QueueWaitsForAck'
      BY <1>1, <1>4, <3>1, <3>2 DEF RecvUpdate, Retrying, QueueWaitsForAck
    <3> QED BY <2>1, <3>3, <3>4
  <2> QED BY <2>3, <2>4
<1>5. CASE RecvStop
  <2>1. Gate' /\ Turns' /\ Requesting'
    BY <1>5 DEF RecvStop, Gate, Turns, Requesting, histVars
  <2> QED BY <1>5, <2>1 DEF RecvStop, Retrying, QueueWaitsForAck, NothingVanishes, histVars
<1> QED BY <1>2, <1>3, <1>4, <1>5 DEF RecvStep

\* The client reaches the loop's variables only through the channels.
LEMMA ClientLoop ==
    ASSUME LoopInv, UNCHANGED <<pc, loopVars, histVars>>
    PROVE  LoopInv'
BY DEF LoopInv, Gate, Requesting, Retrying, Turns, QueueWaitsForAck, NothingVanishes, Queued,
       loopVars, histVars

\* run_auto_loop keeps its invariant whatever its client sends.
THEOREM LoopInvariant == Spec => []LoopInv
<1>1. TypeOK /\ LoopInv /\ [Next]_vars => LoopInv'
  <2> SUFFICES ASSUME TypeOK, LoopInv, [Next]_vars PROVE LoopInv'
    OBVIOUS
  <2>1. CASE ThreadStep
    BY <2>1, TopStep, RequestStep, RecvLoop DEF ThreadStep, CoordNext, LoopStep
  <2>2. CASE ClientNext
    <3>1. UNCHANGED <<pc, loopVars, histVars>>
      BY <2>2 DEF ClientNext, SendConversation, SendAck, RepeatAck, SendStop, Cancel, DropHandle,
                  TakeEvent, ClientSend, threadVars
    <3> QED BY <3>1, ClientLoop
  <2>3. CASE UNCHANGED vars
    <3>1. UNCHANGED <<pc, loopVars, histVars>>
      BY <2>3 DEF vars, threadVars
    <3> QED BY <3>1, ClientLoop
  <2> QED BY <2>1, <2>2, <2>3 DEF Next
<1> QED BY <1>1, InitLoop, CoordinatorTypes, PTL DEF Spec

\* A decision is requested only after the previous one was acknowledged.
THEOREM DecisionGate == Spec => []OneDecisionAtATime
<1>1. LoopInv => OneDecisionAtATime
  BY DEF LoopInv, Gate, Requesting, OneDecisionAtATime
<1> QED BY <1>1, LoopInvariant, PTL

\* No conversation taken from the channel is forgotten while the loop runs.
THEOREM NoSnapshotLost == Spec => []NothingVanishes
<1>1. LoopInv => NothingVanishes
  BY DEF LoopInv
<1> QED BY <1>1, LoopInvariant, PTL

\* A queued conversation waits for an ack or for nothing: two branches are dead code.
THEOREM QueueNeverStranded == Spec => []QueueWaitsForAck
<1>1. LoopInv => QueueWaitsForAck
  BY DEF LoopInv
<1> QED BY <1>1, LoopInvariant, PTL

\* Validation failures are retried at most MAX_DECISION_RECOVERY_ATTEMPTS times in a row.
THEOREM RetriesBounded == Spec => []BoundedRetries
<1>1. LoopInv => BoundedRetries
  BY DEF LoopInv, Retrying, BoundedRetries
<1> QED BY <1>1, LoopInvariant, PTL

\* coordinator_turn_cap bounds the Continue decisions, Success turns in between or not.
THEOREM TurnsBounded == Spec => []TurnCapRespected
<1>1. LoopInv => TurnCapRespected
  BY DEF LoopInv, Turns, TurnCapRespected
<1> QED BY <1>1, LoopInvariant, PTL

-----------------------------------------------------------------------------
(* Order *)

Carries(c) == c.kind \in {"Update", "User"}

\* Snapshots leave the client in increasing order and stay in order on their way: the
\* one decided on last, those in the queue, the commands.  A pending one goes before the
\* queue when no ack is due and behind it otherwise.  None is in two places, but for one
\* that is tried again, which is pending and was the last decided on.
QueueOrder ==
    /\ \A i, j \in 1 .. Len(queued_updates) : i < j => queued_updates[i] < queued_updates[j]
    /\ \A i \in 1 .. Len(queued_updates) :
           /\ queued_updates[i] < next_snapshot
           /\ working # None => working < queued_updates[i]

PendingOrder ==
    /\ pending_conversation # None =>
           /\ pending_conversation < next_snapshot
           /\ working # None => working <= pending_conversation
           /\ working # None /\ pending_ack_seq # None => working < pending_conversation
           /\ \A i \in 1 .. Len(queued_updates) :
                  IF pending_ack_seq # None THEN queued_updates[i] < pending_conversation
                                            ELSE pending_conversation < queued_updates[i]
    /\ working # None => working < next_snapshot

Sorted(s) == \A i, j \in 1 .. Len(s) : i < j /\ Carries(s[i]) /\ Carries(s[j]) => s[i].conv < s[j].conv
After(s, n) == \A i \in 1 .. Len(s) : Carries(s[i]) => n < s[i].conv
Before(s, n) == \A i \in 1 .. Len(s) : Carries(s[i]) => s[i].conv < n

CommandOrder ==
    /\ Sorted(cmds) /\ Before(cmds, next_snapshot)
    /\ working # None => After(cmds, working)
    /\ pending_conversation # None => After(cmds, pending_conversation)
    /\ \A j \in 1 .. Len(queued_updates) : After(cmds, queued_updates[j])

InOrder == QueueOrder /\ PendingOrder /\ CommandOrder

\* A push behind the largest element keeps the queue sorted, evicted head or not, and
\* adds nothing else.
LEMMA SortedPush ==
    ASSUME queued_updates \in Seq(Snapshots), NEW n \in Snapshots, queue_update_capped(n),
           \A i, j \in 1 .. Len(queued_updates) : i < j => queued_updates[i] < queued_updates[j],
           \A i \in 1 .. Len(queued_updates) : queued_updates[i] < n
    PROVE  /\ \A i, j \in 1 .. Len(queued_updates') : i < j => queued_updates'[i] < queued_updates'[j]
           /\ \A i \in 1 .. Len(queued_updates') :
                  queued_updates'[i] = n \/ \E j \in 1 .. Len(queued_updates) : queued_updates'[i] = queued_updates[j]
<1>1. CASE Len(queued_updates) >= QueueCap
  <2>1. queued_updates' = Append(Tail(queued_updates), n) /\ Len(queued_updates) \in Nat \ {0}
    BY <1>1 DEF queue_update_capped
  <2>2. /\ Len(queued_updates') = Len(queued_updates)
        /\ \A i \in 1 .. Len(queued_updates) - 1 : queued_updates'[i] = queued_updates[i + 1]
        /\ queued_updates'[Len(queued_updates)] = n
    BY <2>1
  <2>3. \A i \in 1 .. Len(queued_updates') :
            i = Len(queued_updates) \/ (i \in 1 .. Len(queued_updates) - 1 /\ i + 1 \in 1 .. Len(queued_updates))
    <3>1. Len(queued_updates) \in Nat /\ Len(queued_updates') = Len(queued_updates)
      BY <2>1, <2>2
    <3> QED BY ONLY <3>1
  <2>4. ASSUME NEW i \in 1 .. Len(queued_updates'), NEW j \in 1 .. Len(queued_updates'), i < j
        PROVE  queued_updates'[i] < queued_updates'[j]
    <3>1. i \in 1 .. Len(queued_updates) - 1 /\ i + 1 \in 1 .. Len(queued_updates)
      BY <2>1, <2>2, <2>4
    <3>2. CASE j = Len(queued_updates)
      BY <2>2, <3>1, <3>2
    <3>3. CASE j # Len(queued_updates)
      <4>1. j \in 1 .. Len(queued_updates) - 1 /\ j + 1 \in 1 .. Len(queued_updates) /\ i + 1 < j + 1
        BY <2>3, <2>4, <3>1, <3>3
      <4> QED BY <2>2, <3>1, <4>1
    <3> QED BY <3>2, <3>3
  <2> QED BY <2>2, <2>3, <2>4
<1>2. CASE ~(Len(queued_updates) >= QueueCap)
  <2>1. queued_updates' = Append(queued_updates, n) /\ Len(queued_updates) \in Nat
    BY <1>2 DEF queue_update_capped
  <2>2. /\ Len(queued_updates') = Len(queued_updates) + 1
        /\ \A i \in 1 .. Len(queued_updates) : queued_updates'[i] = queued_updates[i]
        /\ queued_updates'[Len(queued_updates) + 1] = n
    BY <2>1
  <2>3. \A i \in 1 .. Len(queued_updates') : i = Len(queued_updates) + 1 \/ i \in 1 .. Len(queued_updates)
    BY <2>1, <2>2
  <2>4. ASSUME NEW i \in 1 .. Len(queued_updates'), NEW j \in 1 .. Len(queued_updates'), i < j
        PROVE  queued_updates'[i] < queued_updates'[j]
    <3>1. i \in 1 .. Len(queued_updates)
      BY <2>1, <2>2, <2>4
    <3> QED BY <2>2, <2>3, <2>4, <3>1
  <2> QED BY <2>2, <2>3, <2>4
<1> QED BY <1>1, <1>2

\* A pop keeps the rest and its order.
LEMMA SortedPop ==
    ASSUME queued_updates \in Seq(Snapshots), queued_updates # <<>>, queued_updates' = Tail(queued_updates),
           \A i, j \in 1 .. Len(queued_updates) : i < j => queued_updates[i] < queued_updates[j]
    PROVE  /\ \A i, j \in 1 .. Len(queued_updates') : i < j => queued_updates'[i] < queued_updates'[j]
           /\ \A i \in 1 .. Len(queued_updates') :
                  /\ \E j \in 1 .. Len(queued_updates) : queued_updates'[i] = queued_updates[j]
                  /\ Head(queued_updates) < queued_updates'[i]
           /\ 1 \in 1 .. Len(queued_updates) /\ Head(queued_updates) = queued_updates[1]
<1>1. /\ Len(queued_updates) \in Nat \ {0} /\ Len(queued_updates') = Len(queued_updates) - 1
      /\ Head(queued_updates) = queued_updates[1]
      /\ \A i \in 1 .. Len(queued_updates) - 1 : queued_updates'[i] = queued_updates[i + 1]
  OBVIOUS
<1>2. \A i \in 1 .. Len(queued_updates') : i \in 1 .. Len(queued_updates) - 1 /\ i + 1 \in 1 .. Len(queued_updates)
  BY <1>1
<1>3. 1 \in 1 .. Len(queued_updates)
  BY <1>1
<1>4. ASSUME NEW i \in 1 .. Len(queued_updates')
      PROVE  queued_updates'[i] = queued_updates[i + 1] /\ Head(queued_updates) < queued_updates'[i]
  <2>1. queued_updates'[i] = queued_updates[i + 1] /\ i + 1 \in 1 .. Len(queued_updates) /\ 1 < i + 1
    BY <1>1, <1>2
  <2> QED BY <1>1, <1>3, <2>1
<1>5. ASSUME NEW i \in 1 .. Len(queued_updates'), NEW j \in 1 .. Len(queued_updates'), i < j
      PROVE  queued_updates'[i] < queued_updates'[j]
  <2>1. i + 1 < j + 1
    BY <1>5
  <2> QED BY <1>2, <1>4, <2>1
<1> QED BY <1>1, <1>2, <1>3, <1>4, <1>5

\* Reading a command keeps the order of the rest, which comes after the one read.
LEMMA CommandPop ==
    ASSUME cmds \in Seq(Commands), cmds # <<>>, cmds' = Tail(cmds), Sorted(cmds)
    PROVE  /\ 1 \in 1 .. Len(cmds) /\ Head(cmds) = cmds[1] /\ Sorted(cmds')
           /\ \A n : Before(cmds, n) => Before(cmds', n)
           /\ \A n : After(cmds, n) => After(cmds', n)
           /\ Carries(cmds[1]) => After(cmds', cmds[1].conv)
<1>1. /\ Len(cmds) \in Nat \ {0} /\ Len(cmds') = Len(cmds) - 1 /\ Head(cmds) = cmds[1]
      /\ \A i \in 1 .. Len(cmds) - 1 : cmds'[i] = cmds[i + 1]
  OBVIOUS
<1>2. 1 \in 1 .. Len(cmds) /\ \A i \in 1 .. Len(cmds') : i + 1 \in 1 .. Len(cmds) /\ 1 < i + 1 /\ cmds'[i] = cmds[i + 1]
  BY <1>1
<1>3. Sorted(cmds')
  <2>1. SUFFICES ASSUME NEW i \in 1 .. Len(cmds'), NEW j \in 1 .. Len(cmds'), i < j, Carries(cmds'[i]), Carries(cmds'[j])
                 PROVE  cmds'[i].conv < cmds'[j].conv
    BY DEF Sorted
  <2>2. i + 1 < j + 1
    BY <2>1
  <2> QED BY <1>2, <2>1, <2>2 DEF Sorted
<1>4. ASSUME NEW n PROVE (Before(cmds, n) => Before(cmds', n)) /\ (After(cmds, n) => After(cmds', n))
  BY <1>2 DEF Before, After
<1>5. Carries(cmds[1]) => After(cmds', cmds[1].conv)
  BY <1>2 DEF After, Sorted
<1> QED BY <1>1, <1>2, <1>3, <1>4, <1>5

\* A command sent behind the others keeps their order when it is not older.
LEMMA CommandPush ==
    ASSUME cmds \in Seq(Commands), NEW x \in Commands, cmds' = Append(cmds, x), Sorted(cmds),
           Carries(x) => \A i \in 1 .. Len(cmds) : Carries(cmds[i]) => cmds[i].conv < x.conv
    PROVE  /\ Sorted(cmds')
           /\ \A n : Before(cmds, n) /\ (Carries(x) => x.conv < n) => Before(cmds', n)
           /\ \A n : After(cmds, n) /\ (Carries(x) => n < x.conv) => After(cmds', n)
<1>1. /\ \A i \in 1 .. Len(cmds) : cmds'[i] = cmds[i]
      /\ cmds'[Len(cmds) + 1] = x /\ Len(cmds) \in Nat /\ Len(cmds') = Len(cmds) + 1
  OBVIOUS
<1>2. \A i \in 1 .. Len(cmds') : i \in 1 .. Len(cmds) \/ i = Len(cmds) + 1
  BY <1>1
<1>3. Sorted(cmds')
  <2>1. SUFFICES ASSUME NEW i \in 1 .. Len(cmds'), NEW j \in 1 .. Len(cmds'), i < j, Carries(cmds'[i]), Carries(cmds'[j])
                 PROVE  cmds'[i].conv < cmds'[j].conv
    BY DEF Sorted
  <2>2. i \in 1 .. Len(cmds)
    BY <1>1, <2>1
  <2>3. CASE j \in 1 .. Len(cmds)
    BY <1>1, <2>1, <2>2, <2>3 DEF Sorted
  <2>4. CASE j = Len(cmds) + 1
    BY <1>1, <2>1, <2>2, <2>4
  <2> QED BY <1>2, <2>3, <2>4
<1>4. ASSUME NEW n PROVE /\ Before(cmds, n) /\ (Carries(x) => x.conv < n) => Before(cmds', n)
                         /\ After(cmds, n) /\ (Carries(x) => n < x.conv) => After(cmds', n)
  BY <1>1, <1>2 DEF Before, After
<1> QED BY <1>3, <1>4

\* Steps that take no command and do not touch the queue.
LEMMA OrderFrame ==
    ASSUME InOrder, UNCHANGED <<pending_conversation, queued_updates, working, cmds, next_snapshot>>,
           pending_conversation # None => pending_ack_seq' = pending_ack_seq
    PROVE  InOrder'
BY DEF InOrder, QueueOrder, PendingOrder, CommandOrder, Carries

\* What the types say of everything that is compared.
LEMMA OrderTypes ==
    ASSUME TypeOK
    PROVE  /\ queued_updates \in Seq(Snapshots) /\ cmds \in Seq(Commands)
           /\ pending_conversation \in Snapshots \union {None}
           /\ working \in Snapshots \union {None}
           /\ next_snapshot \in Nat /\ Snapshots \subseteq Nat /\ None \notin Snapshots
           /\ \A i \in 1 .. Len(queued_updates) : queued_updates[i] \in Snapshots
           /\ \A i \in 1 .. Len(cmds) : Carries(cmds[i]) => cmds[i].conv \in Snapshots
<1>1. \A c \in Commands : Carries(c) => c.conv \in Snapshots
  BY DEF Commands, Carries, Stop
<1>2. cmds \in Seq(Commands) /\ \A i \in 1 .. Len(cmds) : cmds[i] \in Commands
  BY DEF TypeOK
<1>3. None \notin Snapshots /\ Snapshots \subseteq Nat
  BY DEF Snapshots
<1> QED BY <1>1, <1>2, <1>3 DEF TypeOK

\* The loop's own steps keep the order and never go back.
LEMMA LoopOrder ==
    ASSUME TypeOK, LoopInv, InOrder, LoopStep, UNCHANGED next_snapshot
    PROVE  InOrder' /\ (working # None => working' >= working)
<1> USE DEF loopVars, histVars
<1>t. /\ queued_updates \in Seq(Snapshots) /\ pending_conversation \in Snapshots \union {None}
      /\ working \in Snapshots \union {None} /\ next_snapshot \in Nat /\ None \notin Snapshots
      /\ Snapshots \subseteq Nat /\ cmds' = cmds /\ next_snapshot' = next_snapshot
      /\ \A i \in 1 .. Len(queued_updates) : queued_updates[i] \in Snapshots
      /\ \A i \in 1 .. Len(cmds) : Carries(cmds[i]) => cmds[i].conv \in Snapshots
  BY OrderTypes DEF LoopStep
<1>w. working' = working => (working # None => working' >= working)
  BY ONLY <1>t
<1>1. CASE TopQueue
  <2>1. /\ queue_update_capped(pending_conversation) /\ pending_conversation' = None
        /\ pending_ack_seq # None /\ pending_conversation \in Snapshots /\ working' = working
    BY <1>1, <1>t DEF TopQueue
  <2>2. \A i \in 1 .. Len(queued_updates) : queued_updates[i] < pending_conversation
    BY <1>t, <2>1 DEF InOrder, PendingOrder
  <2>3. /\ \A i, j \in 1 .. Len(queued_updates') : i < j => queued_updates'[i] < queued_updates'[j]
        /\ \A i \in 1 .. Len(queued_updates') :
               \/ queued_updates'[i] = pending_conversation
               \/ \E j \in 1 .. Len(queued_updates) : queued_updates'[i] = queued_updates[j]
    BY <1>t, <2>1, <2>2, SortedPush DEF InOrder, QueueOrder
  <2>4. QueueOrder'
    BY <1>t, <2>1, <2>3 DEF InOrder, QueueOrder, PendingOrder
  <2>5. PendingOrder' /\ CommandOrder'
    BY <1>t, <2>1, <2>3 DEF InOrder, PendingOrder, CommandOrder
  <2>6. InOrder'
    BY ONLY <2>4, <2>5 DEF InOrder
  <2>7. working # None => working' >= working
    BY ONLY <1>w, <2>1
  <2> QED BY ONLY <2>6, <2>7
<1>2. CASE TopRequest
  <2>1. pending_ack_seq = None /\ pending_conversation' = None
    BY <1>2 DEF TopRequest
  <2>2. CASE pending_conversation # None
    <3>1. working' = pending_conversation /\ queued_updates' = queued_updates
      BY <1>2, <2>2 DEF TopRequest
    <3> QED BY <1>t, <2>1, <2>2, <3>1 DEF InOrder, QueueOrder, PendingOrder, CommandOrder
  <2>3. CASE pending_conversation = None
    BY <1>2, <2>1, <2>3 DEF TopRequest, LoopInv, QueueWaitsForAck
  <2> QED BY <2>2, <2>3
<1>3. CASE TopCancelled
  <2>1. pending_ack_seq = None /\ pending_conversation' = None /\ working' = working
    BY <1>3 DEF TopCancelled
  <2>2. queued_updates' = queued_updates
    BY <1>3, <2>1 DEF TopCancelled, LoopInv, QueueWaitsForAck
  <2>3. QueueOrder' /\ PendingOrder'
    BY <1>t, <2>1, <2>2 DEF InOrder, QueueOrder, PendingOrder
  <2>4. CommandOrder'
    BY <1>t, <2>1, <2>2 DEF InOrder, CommandOrder
  <2>5. InOrder'
    BY ONLY <2>3, <2>4 DEF InOrder
  <2>6. working # None => working' >= working
    BY ONLY <1>w, <2>1
  <2> QED BY ONLY <2>5, <2>6
<1>4. CASE TopIdle
  <2>1. UNCHANGED <<pending_conversation, queued_updates, working, pending_ack_seq>>
    BY <1>4 DEF TopIdle
  <2> QED BY <1>t, <2>1, OrderFrame
<1>5. CASE (\E status \in Statuses : RequestOk(status)) \/ RequestFailed \/ RequestCancelled
  <2>1. UNCHANGED <<pending_conversation, queued_updates, working>> /\ pending_conversation = None
    BY <1>5 DEF RequestOk, RequestFailed, RequestCancelled, LoopInv, Requesting
  <2>2. InOrder'
    BY <1>t, <2>1, OrderFrame
  <2> QED BY ONLY <1>w, <2>1, <2>2
<1>6. CASE RequestInvalid
  <2>1. /\ pending_conversation' = working /\ UNCHANGED <<queued_updates, working, pending_ack_seq>>
        /\ pending_ack_seq = None
    BY <1>6 DEF RequestInvalid, LoopInv, Requesting
  <2> QED BY <1>t, <2>1 DEF InOrder, QueueOrder, PendingOrder, CommandOrder
<1> QED BY <1>1, <1>2, <1>3, <1>4, <1>5, <1>6 DEF LoopStep

\* Reading a command keeps the order.
LEMMA RecvOrder ==
    ASSUME TypeOK, LoopInv, InOrder, RecvStep, UNCHANGED next_snapshot
    PROVE  InOrder' /\ working' = working
<1> USE DEF loopVars, histVars
<1>t. /\ queued_updates \in Seq(Snapshots) /\ pending_conversation = None /\ cmds \in Seq(Commands)
      /\ working \in Snapshots \union {None} /\ next_snapshot \in Nat /\ None \notin Snapshots
      /\ Snapshots \subseteq Nat /\ next_snapshot' = next_snapshot /\ working' = working
      /\ \A i \in 1 .. Len(queued_updates) : queued_updates[i] \in Snapshots
      /\ \A i \in 1 .. Len(cmds) : Carries(cmds[i]) => cmds[i].conv \in Snapshots
  BY OrderTypes DEF RecvStep, RecvAck, RecvUser, RecvUpdate, RecvStop, Receive, LoopInv, QueueWaitsForAck
<1>c. ASSUME NEW k, Receive(k)
      PROVE  /\ cmds[1].kind = k /\ 1 \in 1 .. Len(cmds) /\ Head(cmds) = cmds[1] /\ Sorted(cmds')
             /\ \A n : Before(cmds, n) => Before(cmds', n)
             /\ \A n : After(cmds, n) => After(cmds', n)
             /\ Carries(cmds[1]) => After(cmds', cmds[1].conv)
  BY <1>t, <1>c, CommandPop DEF Receive, InOrder, CommandOrder
<1>d. Carries(cmds[1]) /\ 1 \in 1 .. Len(cmds) =>
          /\ cmds[1].conv < next_snapshot
          /\ working # None => working < cmds[1].conv
          /\ \A j \in 1 .. Len(queued_updates) : queued_updates[j] < cmds[1].conv
  BY DEF InOrder, CommandOrder, Before, After
<1>1. CASE RecvAck
  <2>1. Receive("Ack")
    BY <1>1 DEF RecvAck
  <2>2. CASE UNCHANGED <<pending_conversation, queued_updates>>
    BY <1>c, <1>t, <2>1, <2>2 DEF InOrder, QueueOrder, PendingOrder, CommandOrder
  <2>3. CASE /\ queued_updates # <<>> /\ pending_conversation' = Head(queued_updates)
             /\ queued_updates' = Tail(queued_updates) /\ pending_ack_seq' = None
    <3>1. /\ \A i, j \in 1 .. Len(queued_updates') : i < j => queued_updates'[i] < queued_updates'[j]
          /\ \A i \in 1 .. Len(queued_updates') :
                 /\ \E j \in 1 .. Len(queued_updates) : queued_updates'[i] = queued_updates[j]
                 /\ Head(queued_updates) < queued_updates'[i]
          /\ 1 \in 1 .. Len(queued_updates) /\ Head(queued_updates) = queued_updates[1]
      BY <1>t, <2>3, SortedPop DEF InOrder, QueueOrder
    <3>w. working # None => working <= Head(queued_updates) /\ working < next_snapshot
      <4>1. working # None => working < Head(queued_updates) /\ working < next_snapshot
        BY <3>1 DEF InOrder, QueueOrder, PendingOrder
      <4>2. Head(queued_updates) \in Nat /\ (working # None => working \in Nat)
        BY <1>t, <3>1
      <4> QED BY ONLY <4>1, <4>2
    <3>2. QueueOrder' /\ PendingOrder'
      <4>1. QueueOrder'
        BY <1>t, <2>3, <3>1 DEF InOrder, QueueOrder
      <4>2. Head(queued_updates) < next_snapshot
        BY <3>1 DEF InOrder, QueueOrder
      <4> QED BY <1>t, <2>3, <3>1, <3>w, <4>1, <4>2 DEF PendingOrder
    <3>3. CommandOrder'
      BY <1>c, <1>t, <2>1, <2>3, <3>1 DEF InOrder, QueueOrder, CommandOrder
    <3> QED BY ONLY <1>t, <3>2, <3>3 DEF InOrder
  <2> QED BY <1>1, <1>t, <2>2, <2>3 DEF RecvAck
<1>2. CASE RecvUser
  <2>1. Receive("User") /\ UNCHANGED <<queued_updates, pending_ack_seq>>
        /\ (pending_conversation' = cmds[1].conv \/ pending_conversation' = pending_conversation)
    BY <1>2, <1>c DEF RecvUser
  <2>2. Carries(cmds[1]) /\ cmds[1].conv \in Snapshots
    BY <1>c, <1>t, <2>1 DEF Carries
  <2>3. pending_ack_seq = None => queued_updates = <<>>
    BY <1>t, <2>1 DEF Receive, LoopInv, QueueWaitsForAck
  <2>4. QueueOrder'
    BY <1>t, <2>1 DEF InOrder, QueueOrder
  <2>w. working # None => working < cmds[1].conv /\ working <= cmds[1].conv
    <3>1. working # None => working < cmds[1].conv /\ working \in Nat
      BY <1>c, <1>d, <1>t, <2>1, <2>2
    <3>2. cmds[1].conv \in Nat
      BY <1>t, <2>2
    <3> QED BY ONLY <3>1, <3>2
  <2>5. PendingOrder'
    BY <1>c, <1>d, <1>t, <2>1, <2>2, <2>3, <2>w DEF InOrder, PendingOrder
  <2>6. CommandOrder'
    BY <1>c, <1>t, <2>1, <2>2 DEF InOrder, CommandOrder
  <2> QED BY ONLY <1>t, <2>4, <2>5, <2>6 DEF InOrder
<1>3. CASE RecvUpdate
  <2>1. Receive("Update") /\ pending_ack_seq' = pending_ack_seq
    BY <1>3 DEF RecvUpdate
  <2>2. Carries(cmds[1]) /\ cmds[1].conv \in Snapshots /\ Head(cmds) = cmds[1]
    BY <1>c, <1>t, <2>1 DEF Carries
  <2>3. CASE pending_ack_seq # None
    <3>1. queue_update_capped(cmds[1].conv) /\ pending_conversation' = None
      BY <1>3, <1>t, <2>2, <2>3 DEF RecvUpdate
    <3>2. \A i \in 1 .. Len(queued_updates) : queued_updates[i] < cmds[1].conv
      BY <1>c, <1>d, <2>1, <2>2
    <3>3. /\ \A i, j \in 1 .. Len(queued_updates') : i < j => queued_updates'[i] < queued_updates'[j]
          /\ \A i \in 1 .. Len(queued_updates') :
                 \/ queued_updates'[i] = cmds[1].conv
                 \/ \E j \in 1 .. Len(queued_updates) : queued_updates'[i] = queued_updates[j]
      BY <1>t, <2>2, <3>1, <3>2, SortedPush DEF InOrder, QueueOrder
    <3>4. QueueOrder'
      BY <1>c, <1>d, <1>t, <2>1, <2>2, <3>3 DEF InOrder, QueueOrder
    <3>5. PendingOrder'
      BY <1>t, <3>1 DEF InOrder, PendingOrder
    <3>6. CommandOrder'
      BY <1>c, <1>t, <2>1, <2>2, <3>1, <3>3 DEF InOrder, CommandOrder
    <3> QED BY ONLY <1>t, <3>4, <3>5, <3>6 DEF InOrder
  <2>4. CASE pending_ack_seq = None
    <3>1. pending_conversation' = cmds[1].conv /\ queued_updates' = queued_updates
      BY <1>3, <1>t, <2>2, <2>4 DEF RecvUpdate
    <3>2. queued_updates = <<>>
      BY <1>t, <2>1, <2>4 DEF Receive, LoopInv, QueueWaitsForAck
    <3>w. working # None => working <= cmds[1].conv
      <4>1. working # None => working < cmds[1].conv /\ working \in Nat
        BY <1>c, <1>d, <1>t, <2>1, <2>2
      <4>2. cmds[1].conv \in Nat
        BY <1>t, <2>2
      <4> QED BY ONLY <4>1, <4>2
    <3>3. QueueOrder' /\ PendingOrder'
      BY <1>c, <1>d, <1>t, <2>1, <2>2, <2>4, <3>1, <3>2, <3>w DEF InOrder, QueueOrder, PendingOrder
    <3>4. CommandOrder'
      BY <1>c, <1>t, <2>1, <2>2, <3>1, <3>2 DEF InOrder, CommandOrder
    <3> QED BY ONLY <1>t, <3>3, <3>4 DEF InOrder
  <2> QED BY <2>3, <2>4
<1>4. CASE RecvStop
  <2>1. queued_updates' = <<>> /\ pending_conversation' = pending_conversation
    BY <1>4 DEF RecvStop
  <2>2. CASE Receive("Stop")
    BY <1>c, <1>t, <2>1, <2>2 DEF InOrder, QueueOrder, PendingOrder, CommandOrder
  <2>3. CASE cmds' = cmds
    BY <1>t, <2>1, <2>3 DEF InOrder, QueueOrder, PendingOrder, CommandOrder
  <2> QED BY <1>4, <2>2, <2>3 DEF RecvStop
<1> QED BY <1>1, <1>2, <1>3, <1>4 DEF RecvStep

\* A command sent last is the newest.
LEMMA ClientOrder ==
    ASSUME TypeOK, InOrder, ClientNext
    PROVE  InOrder' /\ working' = working
<1> USE DEF threadVars, loopVars, histVars, clientVars
<1>t. /\ queued_updates \in Seq(Snapshots) /\ pending_conversation \in Snapshots \union {None}
      /\ working \in Snapshots \union {None} /\ next_snapshot \in Nat /\ None \notin Snapshots
      /\ Snapshots \subseteq Nat /\ cmds \in Seq(Commands)
      /\ \A i \in 1 .. Len(queued_updates) : queued_updates[i] \in Snapshots
      /\ \A i \in 1 .. Len(cmds) : Carries(cmds[i]) => cmds[i].conv \in Snapshots
  BY OrderTypes
<1>f. UNCHANGED <<pending_conversation, queued_updates, working, pending_ack_seq>>
  BY DEF ClientNext, SendConversation, SendAck, RepeatAck, SendStop, Cancel, DropHandle, TakeEvent, ClientSend
<1>1. CASE SendConversation
  <2>1. PICK x \in {UpdateConversation(next_snapshot), HandleUserPrompt(next_snapshot)} : cmds' = Append(cmds, x)
    BY <1>1 DEF SendConversation, ClientSend
  <2>2. /\ next_snapshot' = next_snapshot + 1 /\ next_snapshot \in Snapshots
        /\ x \in Commands /\ x.conv = next_snapshot
    BY <1>1 DEF SendConversation, Snapshots, Commands, UpdateConversation, HandleUserPrompt, TypeOK
  <2>3. QueueOrder'
    <3>1. ASSUME NEW k \in 1 .. Len(queued_updates) PROVE queued_updates[k] < next_snapshot'
      <4>1. queued_updates[k] < next_snapshot /\ queued_updates[k] \in Nat
        BY <1>t DEF InOrder, QueueOrder
      <4> QED BY ONLY <4>1, <2>2, <1>t
    <3> QED BY <1>f, <3>1 DEF InOrder, QueueOrder
  <2>4. PendingOrder'
    <3>1. PendingOrder
      BY DEF InOrder
    <3>2. pending_conversation # None => pending_conversation < next_snapshot + 1
      <4>1. pending_conversation # None => pending_conversation < next_snapshot /\ pending_conversation \in Nat
        BY ONLY <1>t, <3>1 DEF PendingOrder
      <4> QED BY ONLY <4>1, <1>t
    <3>3. /\ pending_conversation' = pending_conversation /\ queued_updates' = queued_updates
          /\ working' = working /\ pending_ack_seq' = pending_ack_seq
      BY ONLY <1>f
    <3>4. pending_conversation' # None => pending_conversation' < next_snapshot'
      BY ONLY <2>2, <3>2, <3>3
    <3>5. /\ pending_conversation' # None /\ working' # None =>
                 /\ working' <= pending_conversation'
                 /\ pending_ack_seq' # None => working' < pending_conversation'
          /\ pending_conversation' # None =>
                 \A i \in 1 .. Len(queued_updates') :
                     IF pending_ack_seq' # None THEN queued_updates'[i] < pending_conversation'
                                                ELSE pending_conversation' < queued_updates'[i]
      BY ONLY <3>1, <3>3, Zenon DEF PendingOrder
    <3>6. working' # None => working' < next_snapshot'
      <4>1. working # None => working < next_snapshot /\ working \in Nat
        BY ONLY <1>t, <3>1 DEF PendingOrder
      <4> QED BY ONLY <4>1, <1>t, <2>2, <3>3
    <3> QED BY ONLY <3>4, <3>5, <3>6, Zenon DEF PendingOrder
  <2>5. ASSUME NEW i \in 1 .. Len(cmds), Carries(cmds[i])
        PROVE  cmds[i].conv < x.conv /\ cmds[i].conv < next_snapshot + 1
    <3>1. cmds[i].conv < next_snapshot /\ cmds[i].conv \in Nat
      BY <1>t, <2>5 DEF InOrder, CommandOrder, Before
    <3> QED BY ONLY <1>t, <2>2, <3>1
  <2>6. /\ Sorted(cmds')
        /\ \A n : Before(cmds, n) /\ (Carries(x) => x.conv < n) => Before(cmds', n)
        /\ \A n : After(cmds, n) /\ (Carries(x) => n < x.conv) => After(cmds', n)
    BY <1>t, <2>1, <2>2, <2>5, CommandPush DEF InOrder, CommandOrder
  <2>7. Before(cmds, next_snapshot + 1) /\ x.conv < next_snapshot + 1
    <3>1. x.conv < next_snapshot + 1
      BY ONLY <1>t, <2>2
    <3> QED BY <2>5, <3>1 DEF Before
  <2>8. ASSUME NEW j \in 1 .. Len(queued_updates) PROVE After(cmds', queued_updates[j])
    <3>1. queued_updates[j] < next_snapshot /\ queued_updates[j] \in Nat /\ After(cmds, queued_updates[j])
      BY <1>t DEF InOrder, QueueOrder, CommandOrder
    <3>2. queued_updates[j] < x.conv
      BY ONLY <1>t, <2>2, <3>1
    <3> QED BY <2>6, <3>1, <3>2
  <2>9. CommandOrder'
    <3>1. ASSUME NEW n \in Nat, n < next_snapshot, After(cmds, n) PROVE After(cmds', n)
      <4>1. n < x.conv
        BY ONLY <1>t, <2>2, <3>1
      <4> QED BY <2>6, <3>1, <4>1
    <3>2. (working # None => After(cmds', working)) /\ (pending_conversation # None => After(cmds', pending_conversation))
      BY <1>t, <3>1 DEF InOrder, PendingOrder, CommandOrder
    <3>3. Sorted(cmds') /\ Before(cmds', next_snapshot')
      BY <2>2, <2>6, <2>7
    <3> QED BY <1>f, <2>8, <3>2, <3>3 DEF CommandOrder
  <2> QED BY <1>f, <2>3, <2>4, <2>9 DEF InOrder
<1>2. CASE SendStop \/ \E s \in received : SendAck(s) \/ RepeatAck(s)
  <2>1. PICK x \in Commands : cmds' = Append(cmds, x) /\ ~Carries(x)
    <3>1. CASE SendStop
      BY <3>1 DEF SendStop, ClientSend, Commands, Stop, Carries
    <3>2. ASSUME NEW s \in received, SendAck(s) \/ RepeatAck(s)
          PROVE  \E x \in Commands : cmds' = Append(cmds, x) /\ ~Carries(x)
      <4>1. s \in Nat /\ cmds' = Append(cmds, AckDecision(s))
        BY <3>2 DEF SendAck, RepeatAck, ClientSend, TypeOK
      <4>2. AckDecision(s) \in Commands /\ ~Carries(AckDecision(s))
        BY <4>1 DEF AckDecision, Commands, Carries
      <4> QED BY <4>1, <4>2
    <3> QED BY <1>2, <3>1, <3>2
  <2>2. next_snapshot' = next_snapshot
    BY <1>2 DEF SendStop, SendAck, RepeatAck
  <2>3. /\ Sorted(cmds')
        /\ \A n : Before(cmds, n) => Before(cmds', n)
        /\ \A n : After(cmds, n) => After(cmds', n)
    BY <1>t, <2>1, CommandPush DEF InOrder, CommandOrder
  <2>4. QueueOrder' /\ PendingOrder'
    BY <1>f, <2>2 DEF InOrder, QueueOrder, PendingOrder
  <2>5. CommandOrder'
    BY <1>f, <2>2, <2>3 DEF InOrder, CommandOrder
  <2> QED BY <1>f, <2>4, <2>5 DEF InOrder
<1>3. CASE Cancel \/ DropHandle \/ TakeEvent
  <2>1. UNCHANGED <<cmds, next_snapshot>>
    BY <1>3 DEF Cancel, DropHandle, TakeEvent
  <2> QED BY <1>f, <2>1, OrderFrame
<1> QED BY <1>1, <1>2, <1>3 DEF ClientNext

LEMMA InitOrder == Init => InOrder
BY DEF Init, CoordInit, InOrder, QueueOrder, PendingOrder, CommandOrder, Sorted, After, Before

LEMMA StepOrder ==
    TypeOK /\ LoopInv /\ InOrder /\ [Next]_vars => InOrder' /\ (working # None => working' >= working)
<1> SUFFICES ASSUME TypeOK, LoopInv, InOrder, [Next]_vars
             PROVE  InOrder' /\ (working # None => working' >= working)
  OBVIOUS
<1>0. working # None => working >= working
  BY DEF TypeOK, Snapshots
<1>1. CASE ThreadStep
  BY <1>0, <1>1, LoopOrder, RecvOrder DEF ThreadStep, CoordNext, clientVars
<1>2. CASE ClientNext
  BY <1>0, <1>2, ClientOrder
<1>3. CASE UNCHANGED vars
  <2>1. UNCHANGED <<pending_conversation, queued_updates, working, pending_ack_seq, cmds, next_snapshot>>
    BY <1>3 DEF vars, threadVars, loopVars, clientVars
  <2> QED BY <1>0, <2>1, OrderFrame
<1> QED BY <1>1, <1>2, <1>3 DEF Next

\* The order of everything a conversation can be in.
THEOREM OrderInvariant == Spec => []InOrder
BY InitOrder, StepOrder, CoordinatorTypes, LoopInvariant, PTL DEF Spec

\* A decision is never taken on an older conversation than the last, whatever acks,
\* retries, user prompts and evictions happen in run_auto_loop.
THEOREM OrderOfDecisions == Spec => DecidesInOrder
<1>1. TypeOK /\ LoopInv /\ InOrder /\ [Next]_vars => [working # None => working' >= working]_vars
  BY StepOrder
<1> QED BY <1>1, CoordinatorTypes, LoopInvariant, OrderInvariant, PTL DEF Spec, DecidesInOrder
-----------------------------------------------------------------------------
(* The contract with the client *)

Elems(q) == {q[i] : i \in 1 .. Len(q)}

\* Decisions are numbered by the turns they took; what is sent, taken or acknowledged has
\* a number that was given.
Numbers ==
    /\ pc # "exited" => coordinator_turns_seen = decision_seq
    /\ \A e \in Elems(events) : e.kind = "Decision" => e.seq <= decision_seq
    /\ \A s \in received : s <= decision_seq
    /\ \A c \in Elems(cmds) : c.kind = "Ack" => c.seq <= decision_seq

LEMMA ElemsPop ==
    ASSUME NEW S, NEW q \in Seq(S), q # <<>>
    PROVE  /\ Elems(q) = Elems(Tail(q)) \union {Head(q)} /\ Head(q) = q[1] /\ 1 \in 1 .. Len(q)
           /\ Head(q) \in S /\ Elems(Tail(q)) \subseteq S
<1>1. /\ Len(q) \in Nat \ {0} /\ Head(q) = q[1] /\ Len(Tail(q)) = Len(q) - 1 /\ Tail(q) \in Seq(S)
      /\ Head(q) \in S
  OBVIOUS
<1>2. \A i \in 1 .. Len(Tail(q)) : Tail(q)[i] = q[i + 1] /\ i + 1 \in 1 .. Len(q) /\ Tail(q)[i] \in S
  BY <1>1
<1>3. \A i \in 1 .. Len(q) : i = 1 \/ (i - 1 \in 1 .. Len(Tail(q)) /\ q[i] = Tail(q)[i - 1])
  BY <1>1
<1>4. 1 \in 1 .. Len(q)
  BY <1>1
<1> DEFINE t == Tail(q)
           h == Head(q)
<1>5. /\ \A i \in 1 .. Len(t) : i + 1 \in 1 .. Len(q) /\ t[i] = q[i + 1] /\ t[i] \in S
      /\ \A i \in 1 .. Len(q) : q[i] = h \/ (i - 1 \in 1 .. Len(t) /\ q[i] = t[i - 1])
      /\ h = q[1] /\ h \in S
  BY <1>1, <1>2, <1>3
<1> HIDE DEF t, h
<1>6. \A x : x \in Elems(q) => x \in Elems(t) \/ x = h BY <1>5 DEF Elems
<1>7. \A x : x \in Elems(t) => x \in Elems(q) /\ x \in S BY <1>5 DEF Elems
<1>8. h \in Elems(q) BY <1>4, <1>5 DEF Elems
<1>9. Elems(q) = Elems(t) \union {h} /\ Elems(t) \subseteq S BY <1>6, <1>7, <1>8
<1> QED BY <1>4, <1>5, <1>9 DEF t, h

LEMMA ElemsPush ==
    ASSUME NEW S, NEW q \in Seq(S), NEW x \in S
    PROVE  Elems(Append(q, x)) = Elems(q) \union {x}
<1>1. Len(Append(q, x)) = Len(q) + 1 /\ Len(q) \in Nat
  OBVIOUS
<1>2. \A i \in 1 .. Len(q) : Append(q, x)[i] = q[i] /\ i \in 1 .. Len(Append(q, x))
  BY <1>1
<1>3. Append(q, x)[Len(q) + 1] = x /\ Len(q) + 1 \in 1 .. Len(Append(q, x))
  BY <1>1
<1>4. \A i \in 1 .. Len(Append(q, x)) : i \in 1 .. Len(q) \/ i = Len(q) + 1
  BY <1>1
<1> QED BY <1>2, <1>3, <1>4 DEF Elems

\* The channel as the contract sees it.
LEMMA ChannelView ==
    /\ \A k, n : n \in InChannel(k) <=> \E c \in Elems(cmds) : c.kind = k /\ c.conv = n
    /\ \A s : AckSent(s) <=> AckDecision(s) \in Elems(cmds)
    /\ StopWanted <=> cancelled \/ closed \/ Stop \in Elems(cmds)
    /\ Queued = Elems(queued_updates)
BY DEF InChannel, AckSent, StopWanted, Queued, Elems

LEMMA ChannelView2 ==
    /\ \A k, n : n \in InChannel(k)' <=> \E c \in Elems(cmds') : c.kind = k /\ c.conv = n
    /\ \A s : AckSent(s)' <=> AckDecision(s) \in Elems(cmds')
    /\ StopWanted' <=> cancelled' \/ closed' \/ Stop \in Elems(cmds')
    /\ Queued' = Elems(queued_updates')
BY DEF InChannel, AckSent, StopWanted, Queued, Elems

LEMMA ChannelSame ==
    ASSUME cmds' = cmds
    PROVE  /\ \A k : InChannel(k)' = InChannel(k)
           /\ \A s : AckSent(s)' <=> AckSent(s)
           /\ UNCHANGED <<cancelled, closed>> => (StopWanted' <=> StopWanted)
<1>1. \A k : InChannel(k)' = InChannel(k)
  BY DEF InChannel
<1>2. \A s : AckSent(s)' <=> AckSent(s)
  BY ChannelView, ChannelView2
<1>3. UNCHANGED <<cancelled, closed>> => (StopWanted' <=> StopWanted)
  BY ChannelView, ChannelView2
<1> QED BY <1>1, <1>2, <1>3

LEMMA ChannelPop ==
    ASSUME TypeOK, InOrder, cmds # <<>>, cmds' = Tail(cmds), UNCHANGED <<cancelled, closed>>
    PROVE  /\ \A k : Head(cmds).kind # k => InChannel(k)' = InChannel(k)
           /\ \A s : AckSent(s) <=> AckSent(s)' \/ Head(cmds) = AckDecision(s)
           /\ StopWanted <=> StopWanted' \/ Head(cmds) = Stop
           /\ \A k \in {"Update", "User"} : Head(cmds).kind = k =>
                 /\ Head(cmds).conv \in InChannel(k)
                 /\ InChannel(k)' = InChannel(k) \ {Head(cmds).conv}
                 /\ \A n \in InChannel(k) : Head(cmds).conv <= n
<1>1. /\ Elems(cmds) = Elems(cmds') \union {Head(cmds)} /\ Head(cmds) = cmds[1] /\ 1 \in 1 .. Len(cmds)
      /\ Head(cmds) \in Commands /\ Elems(cmds') \subseteq Commands
  BY ElemsPop DEF TypeOK
<1>2. \A s : AckSent(s) <=> AckSent(s)' \/ Head(cmds) = AckDecision(s)
  BY <1>1, ChannelView, ChannelView2
<1>3. StopWanted <=> StopWanted' \/ Head(cmds) = Stop
  BY <1>1, ChannelView, ChannelView2
<1>4. ASSUME NEW k, Head(cmds).kind # k PROVE InChannel(k)' = InChannel(k)
  <2>1. ASSUME NEW n PROVE n \in InChannel(k)' <=> n \in InChannel(k)
    <3>1. (\E c \in Elems(cmds) : c.kind = k /\ c.conv = n) <=> \E c \in Elems(cmds') : c.kind = k /\ c.conv = n
      BY <1>1, <1>4
    <3> QED BY <3>1, ChannelView, ChannelView2
  <2> QED BY <2>1
<1>5. ASSUME NEW k \in {"Update", "User"}, Head(cmds).kind = k
      PROVE  /\ Head(cmds).conv \in InChannel(k)
             /\ InChannel(k)' = InChannel(k) \ {Head(cmds).conv}
             /\ \A n \in InChannel(k) : Head(cmds).conv <= n
  <2>1. Head(cmds).conv \in InChannel(k)
    BY <1>1, <1>5, ChannelView
  <2>2. After(cmds', Head(cmds).conv)
    BY <1>1, <1>5, CommandPop DEF TypeOK, InOrder, CommandOrder, Carries
  <2>3. Head(cmds).conv \in Nat
    BY <1>1, <1>5, OrderTypes DEF Carries
  <2>4. ASSUME NEW c \in Elems(cmds'), c.kind = k PROVE Head(cmds).conv < c.conv /\ c.conv \in Nat
    <3>1. PICK i \in 1 .. Len(cmds') : c = cmds'[i]
      BY <2>4 DEF Elems
    <3>2. Carries(c)
      BY <2>4 DEF Carries
    <3>3. c \in Commands
      BY <1>1, <2>4
    <3>4. c.conv \in Nat
      BY <3>2, <3>3 DEF Commands, Carries, Stop, Snapshots
    <3> QED BY <2>2, <3>1, <3>2, <3>4 DEF After
  <2>5. \A n \in InChannel(k)' : Head(cmds).conv < n /\ n \in Nat
    BY <2>4, ChannelView2
  <2>6. InChannel(k) = InChannel(k)' \union {Head(cmds).conv}
    BY <1>1, <1>5, ChannelView, ChannelView2
  <2>7. Head(cmds).conv \notin InChannel(k)' /\ \A n \in InChannel(k)' : Head(cmds).conv <= n
    BY <2>3, <2>5
  <2> QED BY <2>1, <2>3, <2>6, <2>7
<1> QED BY <1>2, <1>3, <1>4, <1>5

LEMMA ChannelPush ==
    ASSUME TypeOK, NEW x \in Commands, cmds' = Append(cmds, x), UNCHANGED <<cancelled, closed>>
    PROVE  /\ \A k : x.kind # k => InChannel(k)' = InChannel(k)
           /\ \A k : x.kind = k => InChannel(k)' = InChannel(k) \union {x.conv}
           /\ \A s : AckSent(s)' <=> AckSent(s) \/ x = AckDecision(s)
           /\ StopWanted' <=> StopWanted \/ x = Stop
<1>1. Elems(cmds') = Elems(cmds) \union {x}
  BY ElemsPush DEF TypeOK
<1>2. ASSUME NEW k PROVE /\ x.kind # k => InChannel(k)' = InChannel(k)
                         /\ x.kind = k => InChannel(k)' = InChannel(k) \union {x.conv}
  <2>1. ASSUME NEW n PROVE n \in InChannel(k)' <=> n \in InChannel(k) \/ (x.kind = k /\ x.conv = n)
    <3>1. (\E c \in Elems(cmds') : c.kind = k /\ c.conv = n) <=>
              (\E c \in Elems(cmds) : c.kind = k /\ c.conv = n) \/ (x.kind = k /\ x.conv = n)
      BY <1>1
    <3> QED BY <3>1, ChannelView, ChannelView2
  <2> QED BY <2>1
<1>3. \A s : AckSent(s)' <=> AckSent(s) \/ x = AckDecision(s)
  BY <1>1, ChannelView, ChannelView2
<1>4. StopWanted' <=> StopWanted \/ x = Stop
  BY <1>1, ChannelView, ChannelView2
<1> QED BY <1>2, <1>3, <1>4

\* Where the conversations are, as sets.
LEMMA SetOrder ==
    ASSUME TypeOK, InOrder
    PROVE  /\ \A n \in Queued : n \in Snapshots /\ n < next_snapshot /\ (working # None => working < n)
           /\ \A n \in InChannel("Update") \union InChannel("User") :
                 /\ n \in Snapshots /\ n < next_snapshot /\ (working # None => working < n)
                 /\ pending_conversation # None => pending_conversation < n
                 /\ \A q \in Queued : q < n
           /\ pending_conversation # None => \A n \in Queued :
                 IF pending_ack_seq # None THEN n < pending_conversation ELSE pending_conversation < n
<1>1. \A n \in Queued : \E i \in 1 .. Len(queued_updates) : n = queued_updates[i]
  BY DEF Queued
<1>2. \A n \in InChannel("Update") \union InChannel("User") :
          \E i \in 1 .. Len(cmds) : Carries(cmds[i]) /\ n = cmds[i].conv
  BY DEF InChannel, Carries
<1>3. \A n \in Queued : n \in Snapshots /\ n < next_snapshot /\ (working # None => working < n)
  BY <1>1, OrderTypes DEF InOrder, QueueOrder
<1>4. pending_conversation # None => \A n \in Queued :
          IF pending_ack_seq # None THEN n < pending_conversation ELSE pending_conversation < n
  BY <1>1 DEF InOrder, PendingOrder
<1>5. ASSUME NEW n \in InChannel("Update") \union InChannel("User")
      PROVE  /\ n \in Snapshots /\ n < next_snapshot /\ (working # None => working < n)
             /\ pending_conversation # None => pending_conversation < n
             /\ \A q \in Queued : q < n
  <2>1. PICK i \in 1 .. Len(cmds) : Carries(cmds[i]) /\ n = cmds[i].conv
    BY <1>2
  <2>2. n \in Snapshots
    BY <2>1, OrderTypes
  <2>3. n < next_snapshot /\ (working # None => working < n) /\ (pending_conversation # None => pending_conversation < n)
    BY <2>1 DEF InOrder, CommandOrder, Before, After
  <2>4. \A j \in 1 .. Len(queued_updates) : queued_updates[j] < n
    BY <2>1 DEF InOrder, CommandOrder, After
  <2> QED BY <1>1, <2>2, <2>3, <2>4
<1> QED BY <1>3, <1>4, <1>5

\* A capped push adds the conversation, and gives up the oldest queued one or none.
LEMMA SetPush ==
    ASSUME TypeOK, InOrder, NEW n \in Snapshots, queue_update_capped(n), \A q \in Queued : q < n
    PROVE  \/ Queued' = Queued \union {n}
           \/ \E h \in Queued : (\A q \in Queued : h <= q) /\ Queued' = (Queued \ {h}) \union {n}
<1>t. queued_updates \in Seq(Snapshots) /\ Snapshots \subseteq Nat
  BY OrderTypes
<1>1. CASE Len(queued_updates) >= QueueCap
  <2>1. queued_updates' = Append(Tail(queued_updates), n) /\ queued_updates # <<>>
    BY <1>1 DEF queue_update_capped
  <2>2. /\ Queued = Elems(Tail(queued_updates)) \union {Head(queued_updates)}
        /\ Head(queued_updates) = queued_updates[1] /\ 1 \in 1 .. Len(queued_updates)
        /\ Head(queued_updates) \in Snapshots
    BY <1>t, <2>1, ElemsPop, ChannelView
  <2>3. Tail(queued_updates) \in Seq(Snapshots)
    BY <1>t, <2>1
  <2>4. Queued' = Elems(Tail(queued_updates)) \union {n}
    <3>1. Elems(Append(Tail(queued_updates), n)) = Elems(Tail(queued_updates)) \union {n}
      BY <2>3, ElemsPush
    <3> QED BY <2>1, <3>1, ChannelView2
  <2>5. \A q \in Elems(Tail(queued_updates)) : Head(queued_updates) < q /\ q \in Nat
    <3>1. /\ Len(Tail(queued_updates)) = Len(queued_updates) - 1 /\ Len(queued_updates) \in Nat
          /\ \A i \in 1 .. Len(Tail(queued_updates)) : Tail(queued_updates)[i] = queued_updates[i + 1]
      BY <1>t, <2>1
    <3>2. \A i \in 1 .. Len(Tail(queued_updates)) : i + 1 \in 1 .. Len(queued_updates) /\ 1 < i + 1
      BY <3>1
    <3>3. ASSUME NEW i \in 1 .. Len(Tail(queued_updates))
          PROVE  Head(queued_updates) < Tail(queued_updates)[i] /\ Tail(queued_updates)[i] \in Nat
      <4>1. queued_updates[1] < queued_updates[i + 1]
        BY <2>2, <3>2 DEF InOrder, QueueOrder
      <4>2. queued_updates[i + 1] \in Nat
        BY <3>2, OrderTypes
      <4> QED BY <2>2, <3>1, <4>1, <4>2
    <3> QED BY <3>3 DEF Elems
  <2>6. Head(queued_updates) \in Nat
    BY <1>t, <2>2
  <2>7. Head(queued_updates) \notin Elems(Tail(queued_updates)) /\ \A q \in Queued : Head(queued_updates) <= q
    BY <2>2, <2>5, <2>6
  <2> QED BY <2>2, <2>4, <2>7
<1>2. CASE ~(Len(queued_updates) >= QueueCap)
  <2>1. queued_updates' = Append(queued_updates, n)
    BY <1>2 DEF queue_update_capped
  <2> QED BY <1>t, <2>1, ElemsPush, ChannelView, ChannelView2
<1> QED BY <1>1, <1>2

\* The numbers are kept by every step.
LEMMA NumbersStep ==
    ASSUME TypeOK, Numbers, Next
    PROVE  Numbers'
<1> USE DEF loopVars, histVars, threadVars, clientVars
<1>t. /\ decision_seq \in Nat /\ coordinator_turns_seen \in Nat /\ received \subseteq Nat
      /\ events \in Seq(Events) /\ cmds \in Seq(Commands)
  BY DEF TypeOK
<1>d. \A s \in Statuses : Decision(decision_seq + 1, s) \in Events
  BY <1>t DEF Decision, Events
<1>u. \A command \in BOOLEAN : UserReply(command) \in Events /\ UserReply(command).kind # "Decision"
  BY DEF UserReply, Events
<1>a. StopAck \in Events /\ StopAck.kind # "Decision"
  BY DEF StopAck, Events
<1>0. ASSUME decision_seq' \in {decision_seq, decision_seq + 1},
             pc' # "exited" => coordinator_turns_seen' = decision_seq',
             \A e \in Elems(events') : e \in Elems(events) \/ e.kind # "Decision" \/ e.seq = decision_seq',
             \A s \in received' : s \in received \/ \E e \in Elems(events) : e.kind = "Decision" /\ e.seq = s,
             \A c \in Elems(cmds') : c \in Elems(cmds) \/ c.kind # "Ack" \/ c.seq \in received
      PROVE  Numbers'
  <2>1. \A e \in Elems(events) : e.kind = "Decision" => e.seq \in Nat
    <3>1. \A e \in Elems(events) : e \in Events
      BY <1>t DEF Elems
    <3>2. \A e \in Events : e.kind = "Decision" => e.seq \in Nat
      BY DEF Events, StopAck
    <3> QED BY <3>1, <3>2
  <2>2. \A c \in Elems(cmds) : c.kind = "Ack" => c.seq \in Nat
    <3>1. \A c \in Elems(cmds) : c \in Commands
      BY <1>t DEF Elems
    <3>2. \A c \in Commands : c.kind = "Ack" => c.seq \in Nat
      BY DEF Commands, Stop
    <3> QED BY <3>1, <3>2
  <2>3. \A s \in Nat : s <= decision_seq => s <= decision_seq'
    BY <1>0, <1>t
  <2>4. decision_seq' <= decision_seq'
    BY <1>0, <1>t
  <2>5. \A e \in Elems(events') : e.kind = "Decision" => e.seq <= decision_seq'
    BY <1>0, <2>1, <2>3, <2>4 DEF Numbers
  <2>6. \A s \in received' : s <= decision_seq'
    BY <1>0, <1>t, <2>1, <2>3 DEF Numbers
  <2>7. \A c \in Elems(cmds') : c.kind = "Ack" => c.seq <= decision_seq'
    BY <1>0, <1>t, <2>2, <2>3 DEF Numbers
  <2> QED BY <1>0, <2>5, <2>6, <2>7 DEF Numbers
<1>1. CASE ThreadStep /\ LoopStep
  <2>1. UNCHANGED <<cmds, received>>
    BY <1>1 DEF ThreadStep, LoopStep
  <2>2. CASE decision_seq' = decision_seq /\ events' = events /\ coordinator_turns_seen' = coordinator_turns_seen /\ pc # "exited"
    BY <1>0, <2>1, <2>2 DEF Numbers
  <2>3. ASSUME NEW s \in Statuses, decision_seq' = decision_seq + 1,
               events' = Append(events, Decision(decision_seq + 1, s)),
               pc' # "exited" => coordinator_turns_seen' = coordinator_turns_seen + 1, pc # "exited"
        PROVE  Numbers'
    <3>1. Elems(events') = Elems(events) \union {Decision(decision_seq + 1, s)}
      BY <1>d, <1>t, <2>3, ElemsPush
    <3>2. Decision(decision_seq + 1, s).seq = decision_seq'
      BY <2>3 DEF Decision
    <3>3. \A e \in Elems(events') : e \in Elems(events) \/ e.kind # "Decision" \/ e.seq = decision_seq'
      BY <3>1, <3>2
    <3>4. pc' # "exited" => coordinator_turns_seen' = decision_seq'
      BY <2>3 DEF Numbers
    <3> QED BY <1>0, <2>1, <2>3, <3>3, <3>4
  <2>4. CASE TopQueue \/ TopRequest \/ TopCancelled \/ TopIdle \/ RequestInvalid \/ RequestCancelled
    BY <2>2, <2>4 DEF TopQueue, TopRequest, TopCancelled, TopIdle, RequestInvalid, RequestCancelled
  <2>5. ASSUME NEW status \in Statuses, RequestOk(status) PROVE Numbers'
    <3>1. \E s \in Statuses : Send(s)
      BY <2>5 DEF RequestOk, Statuses
    <3>2. coordinator_turns_seen' = coordinator_turns_seen + 1 /\ pc # "exited"
      BY <2>5 DEF RequestOk
    <3> QED BY <2>3, <3>1, <3>2 DEF Send
  <2>6. CASE RequestFailed
    BY <2>3, <2>6 DEF RequestFailed, Send, Statuses
  <2> QED BY <1>1, <2>4, <2>5, <2>6 DEF LoopStep
<1>2. CASE ThreadStep /\ RecvStep
  <2>1. /\ decision_seq' = decision_seq /\ coordinator_turns_seen' = coordinator_turns_seen /\ received' = received
        /\ pc # "exited"
    BY <1>2 DEF ThreadStep, RecvStep, RecvAck, RecvUser, RecvUpdate, RecvStop, Receive
  <2>2. Elems(cmds') \subseteq Elems(cmds)
    <3>1. cmds' = cmds \/ (cmds # <<>> /\ cmds' = Tail(cmds))
      BY <1>2 DEF RecvStep, RecvAck, RecvUser, RecvUpdate, RecvStop, Receive
    <3> QED BY <1>t, <3>1, ElemsPop
  <2>3. events' = events \/ \E e \in Events : e.kind # "Decision" /\ events' = Append(events, e)
    BY <1>2, <1>u, <1>a DEF RecvStep, RecvAck, RecvUser, RecvUpdate, RecvStop
  <2>4. \A e \in Elems(events') : e \in Elems(events) \/ e.kind # "Decision"
    <3>1. ASSUME NEW x \in Events, x.kind # "Decision", events' = Append(events, x)
          PROVE  \A e \in Elems(events') : e \in Elems(events) \/ e.kind # "Decision"
      <4>1. Elems(events') = Elems(events) \union {x}
        BY <1>t, <3>1, ElemsPush
      <4> QED BY <3>1, <4>1
    <3> QED BY <2>3, <3>1
  <2> QED BY <1>0, <2>1, <2>2, <2>4 DEF Numbers
<1>3. CASE ClientNext
  <2>1. decision_seq' = decision_seq /\ coordinator_turns_seen' = coordinator_turns_seen /\ pc' = pc
    BY <1>3 DEF ClientNext, SendConversation, SendAck, RepeatAck, SendStop, Cancel, DropHandle, TakeEvent, ClientSend
  <2>2. CASE TakeEvent
    <3>1. events # <<>> /\ events' = Tail(events) /\ cmds' = cmds
          /\ \A s \in received' : s \in received \/ (Head(events).kind = "Decision" /\ Head(events).seq = s)
      BY <2>2 DEF TakeEvent
    <3>2. Elems(events) = Elems(events') \union {Head(events)}
      BY <1>t, <3>1, ElemsPop
    <3> QED BY <1>0, <2>1, <3>1, <3>2 DEF Numbers
  <2>3. CASE ~TakeEvent
    <3>1. events' = events /\ received' = received
      BY <1>3, <2>3 DEF ClientNext, SendConversation, SendAck, RepeatAck, SendStop, Cancel, DropHandle, ClientSend
    <3>2. cmds' = cmds \/ \E x \in Commands : cmds' = Append(cmds, x) /\ (x.kind # "Ack" \/ x.seq \in received)
      <4>1. CASE SendConversation
        <5>1. next_snapshot \in Snapshots
          BY <4>1 DEF SendConversation, Snapshots, TypeOK
        <5> QED BY <4>1, <5>1 DEF SendConversation, ClientSend, Commands, UpdateConversation, HandleUserPrompt
      <4>2. ASSUME NEW s \in received, SendAck(s) \/ RepeatAck(s)
            PROVE  \E x \in Commands : cmds' = Append(cmds, x) /\ (x.kind # "Ack" \/ x.seq \in received)
        BY <1>t, <4>2 DEF SendAck, RepeatAck, ClientSend, Commands, AckDecision
      <4>3. CASE SendStop
        BY <4>3 DEF SendStop, ClientSend, Commands, Stop
      <4>4. CASE Cancel \/ DropHandle
        BY <4>4 DEF Cancel, DropHandle
      <4> QED BY <1>3, <2>3, <4>1, <4>2, <4>3, <4>4 DEF ClientNext
    <3>3. \A c \in Elems(cmds') : c \in Elems(cmds) \/ c.kind # "Ack" \/ c.seq \in received
      <4>1. ASSUME NEW x \in Commands, cmds' = Append(cmds, x), x.kind # "Ack" \/ x.seq \in received
            PROVE  \A c \in Elems(cmds') : c \in Elems(cmds) \/ c.kind # "Ack" \/ c.seq \in received
        <5>1. Elems(cmds') = Elems(cmds) \union {x}
          BY <1>t, <4>1, ElemsPush
        <5> QED BY <4>1, <5>1
      <4> QED BY <3>2, <4>1
    <3> QED BY <1>0, <2>1, <3>1, <3>3 DEF Numbers
  <2> QED BY <2>2, <2>3
<1> QED BY <1>1, <1>2, <1>3 DEF Next, ThreadStep, CoordNext

ContractStep == Contract!ContractNext \/ UNCHANGED Contract!contractVars

LEMMA ContractStutter ==
    ASSUME ContractMode' = ContractMode, ContractGate' = ContractGate, decision_seq' = decision_seq,
           ContractWork' = ContractWork, ContractPrompts' = ContractPrompts, events' = events
    PROVE  ContractStep
BY DEF ContractStep, Contract!contractVars

\* While the loop runs: what the contract's variables are.
LEMMA ContractView ==
    ASSUME pc # "exited"
    PROVE  /\ ContractMode # "ended"
           /\ StopWanted => ContractMode = "stopping"
           /\ ~StopWanted => ContractMode = "running"
           /\ pending_ack_seq = None => ContractGate = None
           /\ AckSent(pending_ack_seq) => ContractGate = None
           /\ ~AckSent(pending_ack_seq) => ContractGate = pending_ack_seq
           /\ ContractPrompts = InChannel("User")
           /\ pc # "request" =>
                  ContractWork = InChannel("Update") \union Queued \union ({pending_conversation} \ {None})
           /\ pc = "request" =>
                  ContractWork = InChannel("Update") \union Queued \union ({pending_conversation, working} \ {None})
BY DEF ContractMode, ContractGate, ContractPrompts, ContractWork

LEMMA ContractView2 ==
    ASSUME pc' # "exited"
    PROVE  /\ StopWanted' => ContractMode' = "stopping"
           /\ ~StopWanted' => ContractMode' = "running"
           /\ pending_ack_seq' = None => ContractGate' = None
           /\ AckSent(pending_ack_seq)' => ContractGate' = None
           /\ ~AckSent(pending_ack_seq)' => ContractGate' = pending_ack_seq'
           /\ ContractPrompts' = InChannel("User")'
           /\ pc' # "request" =>
                  ContractWork' = InChannel("Update")' \union Queued' \union ({pending_conversation'} \ {None})
           /\ pc' = "request" =>
                  ContractWork' = InChannel("Update")' \union Queued' \union ({pending_conversation', working'} \ {None})
BY DEF ContractMode, ContractGate, ContractPrompts, ContractWork

LEMMA ContractEnded ==
    ASSUME pc' = "exited"
    PROVE  ContractMode' = "ended" /\ ContractGate' = None /\ ContractWork' = {} /\ ContractPrompts' = {}
BY DEF ContractMode, ContractGate, ContractPrompts, ContractWork

\* The thread ends because the client wanted it to.
LEMMA ContractStopped ==
    ASSUME pc # "exited", StopWanted, pc' = "exited", decision_seq' = decision_seq,
           events' = events \/ events' = Append(events, StopAck)
    PROVE  ContractStep
<1>1. ContractMode = "stopping"
  BY ContractView
<1>2. Contract!Stopped
  BY <1>1, ContractEnded DEF Contract!Stopped, Contract!End, Contract!Tell, StopAck
<1> QED BY <1>2 DEF ContractStep, Contract!ContractNext

\* A conversation is queued, at the cost of the oldest one when the queue is full.
LEMMA ContractQueued ==
    ASSUME TypeOK, InOrder, pc # "exited", NEW n \in Snapshots, queue_update_capped(n), NEW rest,
           ContractWork = rest \union Queued \union {n}, ContractWork' = rest \union Queued' \union {n},
           \A q \in Queued : q < n, \A q \in Queued : \A m \in rest : q < m,
           rest \subseteq Snapshots,
           ContractMode' = ContractMode, ContractGate' = ContractGate, decision_seq' = decision_seq,
           ContractPrompts' = ContractPrompts, events' = events
    PROVE  ContractStep
<1>1. CASE Queued' = Queued \union {n}
  <2>1. ContractWork' = ContractWork
    BY <1>1
  <2> QED BY <2>1, ContractStutter
<1>2. ASSUME NEW h \in Queued, \A q \in Queued : h <= q, Queued' = (Queued \ {h}) \union {n}
      PROVE  ContractStep
  <2>1. h \in Snapshots /\ h < n /\ h \in Nat /\ n \in Nat /\ Snapshots \subseteq Nat
    BY <1>2, SetOrder DEF Snapshots
  <2>2. h # n /\ n \in ContractWork /\ h \in ContractWork
    BY <1>2, <2>1
  <2>3. h \notin rest
    <3>1. SUFFICES ASSUME h \in rest PROVE FALSE
      OBVIOUS
    <3>2. h < h
      BY <1>2, <3>1
    <3> QED BY <2>1, <3>2
  <2>4. ContractWork' = ContractWork \ {h}
    BY <1>2, <2>2, <2>3
  <2>5. \A m \in ContractWork : h <= m
    <3>1. ASSUME NEW m \in rest PROVE h <= m
      <4>1. h < m /\ m \in Nat
        BY <1>2, <2>1, <3>1
      <4> QED BY <2>1, <4>1
    <3>2. h <= n
      BY <2>1
    <3> QED BY <1>2, <3>1, <3>2
  <2>6. ContractMode # "ended"
    BY ContractView
  <2>7. Contract!Evict(h)
    BY <2>2, <2>4, <2>5, <2>6 DEF Contract!Evict, Contract!Oldest, Contract!Live
  <2> QED BY <2>1, <2>7 DEF ContractStep, Contract!ContractNext
<1> QED BY <1>1, <1>2, SetPush

LEMMA TopContract ==
    ASSUME TypeOK, LoopInv, InOrder, UNCHANGED <<cmds, cancelled, closed>>,
           TopQueue \/ TopRequest \/ TopCancelled \/ TopIdle
    PROVE  ContractStep
<1> USE DEF loopVars, histVars
<1>e. pc = "top" /\ pc # "exited" /\ pc # "request"
  BY DEF TopQueue, TopRequest, TopCancelled, TopIdle
<1>c. /\ \A k : InChannel(k)' = InChannel(k)
      /\ \A s : AckSent(s)' <=> AckSent(s)
      /\ StopWanted' <=> StopWanted
  BY ChannelSame
<1>n. None \notin Snapshots
  BY OrderTypes
<1>1. CASE TopQueue
  <2>1. /\ pending_conversation # None /\ pending_ack_seq # None /\ queue_update_capped(pending_conversation)
        /\ pending_conversation' = None /\ pc' = "recv" /\ pending_ack_seq' = pending_ack_seq
        /\ decision_seq' = decision_seq /\ events' = events
    BY <1>1 DEF TopQueue
  <2>2. pending_conversation \in Snapshots
    BY <2>1 DEF TypeOK
  <2>3. ContractMode' = ContractMode /\ ContractPrompts' = ContractPrompts
    BY <1>c, <1>e, <2>1, ContractView, ContractView2
  <2>4. ContractGate' = ContractGate
    BY <1>c, <1>e, <2>1 DEF ContractGate, AckSent
  <2>5. /\ ContractWork = InChannel("Update") \union Queued \union {pending_conversation}
        /\ ContractWork' = InChannel("Update") \union Queued'
    BY <1>c, <1>e, <2>1, ContractView, ContractView2
  <2>6. \A q \in Queued : q < pending_conversation /\ \A m \in InChannel("Update") : q < m
    BY <2>1, SetOrder
  <2>7. InChannel("Update") \subseteq Snapshots
    BY SetOrder
  <2>8. pending_conversation \in Queued'
    <3>1. \/ Queued' = Queued \union {pending_conversation}
          \/ \E h \in Queued : (\A q \in Queued : h <= q) /\ Queued' = (Queued \ {h}) \union {pending_conversation}
      BY <2>1, <2>2, <2>6, SetPush
    <3> QED BY <3>1
  <2>9. ContractWork' = InChannel("Update") \union Queued' \union {pending_conversation}
    BY <2>5, <2>8
  <2> QED BY <1>e, <2>1, <2>2, <2>3, <2>4, <2>5, <2>6, <2>7, <2>9, ContractQueued
<1>2. CASE TopRequest
  <2>1. pending_conversation # None
    BY <1>2 DEF TopRequest, LoopInv, QueueWaitsForAck
  <2>2. /\ pending_ack_seq = None /\ pending_ack_seq' = None /\ working' = pending_conversation
        /\ queued_updates' = queued_updates /\ pending_conversation' = None /\ pc' = "request"
        /\ decision_seq' = decision_seq /\ events' = events
    BY <1>2, <2>1 DEF TopRequest
  <2>3. ContractMode' = ContractMode /\ ContractPrompts' = ContractPrompts /\ ContractGate' = ContractGate
    BY <1>c, <1>e, <2>2, ContractView, ContractView2
  <2>4. Queued' = Queued
    BY <2>2 DEF Queued
  <2>5. ContractWork = InChannel("Update") \union Queued \union {pending_conversation}
    BY <1>e, <2>1, ContractView
  <2>6. ContractWork' = InChannel("Update") \union Queued \union {pending_conversation}
    BY <1>c, <2>1, <2>2, <2>4, ContractView2
  <2> QED BY <2>2, <2>3, <2>5, <2>6, ContractStutter
<1>3. CASE TopCancelled
  BY <1>3, <1>e, ContractStopped DEF TopCancelled, StopWanted
<1>4. CASE TopIdle
  <2>1. /\ pc' = "recv" /\ pending_ack_seq' = pending_ack_seq /\ queued_updates' = queued_updates
        /\ pending_conversation' = pending_conversation /\ decision_seq' = decision_seq /\ events' = events
    BY <1>4 DEF TopIdle
  <2>2. ContractMode' = ContractMode /\ ContractPrompts' = ContractPrompts
    BY <1>c, <1>e, <2>1, ContractView, ContractView2
  <2>3. ContractGate' = ContractGate
    BY <1>c, <1>e, <2>1 DEF ContractGate, AckSent
  <2>4. Queued' = Queued
    BY <2>1 DEF Queued
  <2>5. ContractWork' = ContractWork
    BY <1>c, <1>e, <2>1, <2>4, ContractView, ContractView2
  <2> QED BY <2>1, <2>2, <2>3, <2>5, ContractStutter
<1> QED BY <1>1, <1>2, <1>3, <1>4
\* While a request is under way the last ack was given and its conversation is the oldest.
LEMMA RequestView ==
    ASSUME TypeOK, LoopInv, InOrder, pc = "request"
    PROVE  /\ ContractGate = None /\ ContractMode # "ended" /\ pending_conversation = None
           /\ pending_ack_seq = None /\ working \in Snapshots
           /\ ContractWork = InChannel("Update") \union Queued \union {working}
           /\ working \notin InChannel("Update") \union Queued
           /\ Contract!Oldest(working, ContractWork)
<1>1. pending_ack_seq = None /\ pending_conversation = None /\ working # None
  BY DEF LoopInv, Requesting
<1>2. working \in Snapshots /\ working \in Nat
  BY <1>1, OrderTypes
<1>3. ContractGate = None /\ ContractMode # "ended"
  BY <1>1, ContractView
<1>4. ContractWork = InChannel("Update") \union Queued \union {working}
  BY <1>1, ContractView
<1>5. \A n \in InChannel("Update") \union Queued : working < n /\ n \in Nat
  <2>1. \A n \in InChannel("Update") \union Queued : working < n /\ n \in Snapshots
    BY <1>1, SetOrder
  <2> QED BY <2>1, OrderTypes
<1>6. working \notin InChannel("Update") \union Queued
  BY <1>2, <1>5
<1>7. \A n \in ContractWork : working <= n
  BY <1>2, <1>4, <1>5
<1> QED BY <1>1, <1>2, <1>3, <1>4, <1>6, <1>7 DEF Contract!Oldest

\* A decision is sent.
LEMMA ContractDecided ==
    ASSUME TypeOK, LoopInv, InOrder, Numbers, pc = "request", UNCHANGED <<cmds, cancelled, closed>>,
           NEW status \in Statuses, Send(status), pending_conversation' = pending_conversation,
           queued_updates' = queued_updates, pc' = IF status = "Failed" THEN "exited" ELSE "top",
           status = "Continue" => ~AtTurnCap(coordinator_turns_seen + 1)
    PROVE  ContractStep
<1>t. decision_seq \in Nat /\ coordinator_turns_seen = decision_seq
  BY DEF TypeOK, Numbers
<1>1. status = "Continue" /\ TurnCap > 0 => decision_seq + 1 < TurnCap
  BY <1>t DEF AtTurnCap
<1>2. /\ decision_seq' = decision_seq + 1 /\ pending_ack_seq' = decision_seq + 1
      /\ events' = Append(events, [kind |-> "Decision", seq |-> decision_seq + 1, status |-> status])
  BY DEF Send, Decision
<1>3. CASE status = "Failed"
  <2>1. Contract!End
    BY <1>3, ContractEnded DEF Contract!End
  <2>2. Contract!Decide(working, status)
    BY <1>1, <1>2, <1>3, <2>1, RequestView DEF Contract!Decide, Contract!Tell, Contract!Live
  <2>3. working \in Snapshots
    BY RequestView
  <2> QED BY <1>3, <2>2, <2>3 DEF ContractStep, Contract!ContractNext
<1>4. CASE status # "Failed"
  <2>e. pc' = "top" /\ pc' # "exited" /\ pc' # "request" /\ pc # "exited"
    BY <1>4
  <2>c. /\ \A k : InChannel(k)' = InChannel(k)
        /\ \A s : AckSent(s)' <=> AckSent(s)
        /\ StopWanted' <=> StopWanted
    BY ChannelSame
  <2>1. ContractMode' = ContractMode /\ ContractPrompts' = ContractPrompts
    BY <2>c, <2>e, ContractView, ContractView2
  <2>2. ContractGate' = decision_seq + 1
    <3>1. AckDecision(decision_seq + 1) \notin Elems(cmds)
      <4>1. SUFFICES ASSUME AckDecision(decision_seq + 1) \in Elems(cmds) PROVE FALSE
        OBVIOUS
      <4>2. AckDecision(decision_seq + 1).kind = "Ack" /\ AckDecision(decision_seq + 1).seq = decision_seq + 1
        BY DEF AckDecision
      <4>3. decision_seq + 1 <= decision_seq
        BY <4>1, <4>2 DEF Numbers
      <4> QED BY <1>t, <4>3
    <3>2. ~AckSent(decision_seq + 1)
      BY <3>1, ChannelView
    <3>3. ~AckSent(pending_ack_seq)'
      <4>1. \A i \in 1 .. Len(cmds) : cmds[i] # AckDecision(decision_seq + 1)
        BY <3>2 DEF AckSent
      <4> QED BY <1>2, <4>1 DEF AckSent
    <3> QED BY <1>2, <2>e, <3>3, ContractView2
  <2>3. Queued' = Queued
    BY DEF Queued
  <2>4. ContractWork' = InChannel("Update") \union Queued
    BY <2>c, <2>e, <2>3, RequestView, ContractView2
  <2>5. ContractWork' = ContractWork \ {working}
    BY <2>4, RequestView
  <2>6. Contract!Decide(working, status)
    BY <1>1, <1>2, <1>4, <2>1, <2>2, <2>5, RequestView DEF Contract!Decide, Contract!Tell, Contract!Live
  <2>7. working \in Snapshots
    BY RequestView
  <2> QED BY <2>6, <2>7 DEF ContractStep, Contract!ContractNext, Statuses
<1> QED BY <1>3, <1>4

LEMMA RequestContract ==
    ASSUME TypeOK, LoopInv, InOrder, Numbers, UNCHANGED <<cmds, cancelled, closed>>,
           (\E status \in Statuses : RequestOk(status)) \/ RequestInvalid \/ RequestFailed \/ RequestCancelled
    PROVE  ContractStep
<1> USE DEF loopVars, histVars
<1>e. pc = "request" /\ pc # "exited"
  BY DEF RequestOk, RequestInvalid, RequestFailed, RequestCancelled
<1>1. ASSUME NEW status \in Statuses, RequestOk(status) PROVE ContractStep
  <2>1. pending_conversation' = pending_conversation /\ queued_updates' = queued_updates
    BY <1>1 DEF RequestOk
  <2>2. PICK s \in Statuses : /\ Send(s) /\ pc' = IF s = "Failed" THEN "exited" ELSE "top"
                              /\ s = "Continue" => ~AtTurnCap(coordinator_turns_seen + 1)
    BY <1>1 DEF RequestOk, Statuses
  <2> QED BY <1>e, <2>1, <2>2, ContractDecided
<1>2. CASE RequestFailed
  <2>1. /\ Send("Failed") /\ pc' = "exited" /\ pending_conversation' = pending_conversation
        /\ queued_updates' = queued_updates
    BY <1>2 DEF RequestFailed
  <2>2. "Failed" \in Statuses
    BY DEF Statuses
  <2> QED BY <1>e, <2>1, <2>2, ContractDecided
<1>3. CASE RequestInvalid
  <2>1. /\ pc' = "top" /\ pending_conversation' = working /\ queued_updates' = queued_updates
        /\ pending_ack_seq' = pending_ack_seq /\ decision_seq' = decision_seq /\ events' = events
    BY <1>3 DEF RequestInvalid
  <2>c. /\ \A k : InChannel(k)' = InChannel(k)
        /\ StopWanted' <=> StopWanted
    BY ChannelSame
  <2>2. ContractMode' = ContractMode /\ ContractPrompts' = ContractPrompts
    BY <1>e, <2>1, <2>c, ContractView, ContractView2
  <2>3. ContractGate' = ContractGate
    BY <1>e, <2>1, RequestView, ContractView2
  <2>4. Queued' = Queued
    BY <2>1 DEF Queued
  <2>5. working # None
    BY <1>e, RequestView, OrderTypes
  <2>6. ContractWork' = ContractWork
    BY <1>e, <2>1, <2>4, <2>5, <2>c, RequestView, ContractView2
  <2> QED BY <2>1, <2>2, <2>3, <2>6, ContractStutter
<1>4. CASE RequestCancelled
  BY <1>4, <1>e, ContractStopped DEF RequestCancelled, StopWanted
<1> QED BY <1>1, <1>2, <1>3, <1>4

\* A command is read.
LEMMA RecvContract ==
    ASSUME TypeOK, LoopInv, InOrder, RecvStep, UNCHANGED <<cancelled, closed>>
    PROVE  ContractStep
<1> USE DEF loopVars, histVars
<1>e. pc = "recv" /\ pc # "exited" /\ pc # "request" /\ pending_conversation = None
  BY DEF RecvStep, RecvAck, RecvUser, RecvUpdate, RecvStop, Receive, LoopInv, QueueWaitsForAck
<1>w. ContractWork = InChannel("Update") \union Queued
  BY <1>e, ContractView
<1>k. ASSUME NEW k, Receive(k) PROVE cmds # <<>> /\ cmds' = Tail(cmds) /\ Head(cmds).kind = k
  BY <1>k DEF Receive
<1>n. None \notin Snapshots
  BY OrderTypes
<1>1. CASE RecvAck
  <2>k. Receive("Ack") /\ cmds # <<>> /\ cmds' = Tail(cmds) /\ Head(cmds).kind = "Ack"
    BY <1>1, <1>k DEF RecvAck
  <2>c. /\ \A k : "Ack" # k => InChannel(k)' = InChannel(k)
        /\ \A s : AckSent(s) <=> AckSent(s)' \/ Head(cmds) = AckDecision(s)
        /\ StopWanted <=> StopWanted' \/ Head(cmds) = Stop
    BY <2>k, ChannelPop
  <2>1. StopWanted' <=> StopWanted
    BY <2>c, <2>k DEF Stop
  <2>2. pc' = "top" /\ decision_seq' = decision_seq /\ events' = events
    BY <1>1 DEF RecvAck
  <2>3. ContractMode' = ContractMode /\ ContractPrompts' = ContractPrompts
    BY <1>e, <2>1, <2>2, <2>c, ContractView, ContractView2
  <2>h. Head(cmds) = AckDecision(Head(cmds).seq)
    <3>1. Head(cmds) \in Commands
      BY <2>k, ElemsPop DEF TypeOK
    <3> QED BY <2>k, <3>1 DEF Commands, AckDecision, Stop
  <2>4. CASE pending_ack_seq = Head(cmds).seq /\ pending_ack_seq' = None
    <3>1. ContractGate = None
      BY <1>e, <2>4, <2>c, <2>h, ContractView
    <3>2. ContractGate' = None
      BY <2>2, <2>4, ContractView2
    <3>3. ContractWork' = InChannel("Update") \union Queued' \union ({pending_conversation'} \ {None})
      BY <2>2, <2>c, ContractView2
    <3>4. CASE queued_updates = <<>>
      <4>1. UNCHANGED <<pending_conversation, queued_updates>>
        BY <1>1, <2>4, <3>4 DEF RecvAck
      <4>2. Queued' = Queued
        BY <4>1 DEF Queued
      <4>3. ContractWork' = ContractWork
        BY <1>e, <1>w, <3>3, <4>1, <4>2
      <4> QED BY <2>2, <2>3, <3>1, <3>2, <4>3, ContractStutter
    <3>5. CASE queued_updates # <<>>
      <4>1. pending_conversation' = Head(queued_updates) /\ queued_updates' = Tail(queued_updates)
        BY <1>1, <2>4, <3>5 DEF RecvAck
      <4>2. queued_updates \in Seq(Snapshots)
        BY OrderTypes
      <4>3. /\ Elems(queued_updates) = Elems(Tail(queued_updates)) \union {Head(queued_updates)}
            /\ Head(queued_updates) \in Snapshots
        BY <3>5, <4>2, ElemsPop
      <4>4. Queued = Queued' \union {pending_conversation'} /\ pending_conversation' # None
        BY <1>n, <4>1, <4>3, ChannelView, ChannelView2
      <4>5. ContractWork' = ContractWork
        BY <1>w, <3>3, <4>4
      <4> QED BY <2>2, <2>3, <3>1, <3>2, <4>5, ContractStutter
    <3> QED BY <3>4, <3>5
  <2>5. CASE pending_ack_seq # Head(cmds).seq
    <3>1. UNCHANGED <<pending_ack_seq, pending_conversation, queued_updates>>
      BY <1>1, <2>5 DEF RecvAck
    <3>2. Head(cmds) # AckDecision(pending_ack_seq)
      BY <2>5 DEF AckDecision
    <3>3. AckSent(pending_ack_seq)' <=> AckSent(pending_ack_seq)
      <4> DEFINE s == pending_ack_seq
      <4>1. AckSent(pending_ack_seq)' <=> AckDecision(pending_ack_seq) \in Elems(cmds')
        BY <3>1 DEF AckSent, Elems
      <4>2. Elems(cmds) = Elems(cmds') \union {Head(cmds)}
        BY <2>k, ElemsPop DEF TypeOK
      <4> QED BY <3>2, <4>1, <4>2, ChannelView
    <3>4. ContractGate' = ContractGate
      BY <1>e, <2>2, <3>1, <3>3, ContractView, ContractView2
    <3>5. Queued' = Queued
      BY <3>1 DEF Queued
    <3>6. ContractWork' = ContractWork
      BY <1>e, <1>w, <2>2, <2>c, <3>1, <3>5, ContractView2
    <3> QED BY <2>2, <2>3, <3>4, <3>6, ContractStutter
  <2> QED BY <1>1, <2>4, <2>5 DEF RecvAck
<1>2. CASE RecvUser
  <2>k. Receive("User") /\ cmds # <<>> /\ cmds' = Tail(cmds) /\ Head(cmds).kind = "User"
    BY <1>2, <1>k DEF RecvUser
  <2> DEFINE n == Head(cmds).conv
  <2>c. /\ InChannel("Update")' = InChannel("Update")
        /\ \A s : AckSent(s) <=> AckSent(s)' \/ Head(cmds) = AckDecision(s)
        /\ StopWanted <=> StopWanted' \/ Head(cmds) = Stop
        /\ n \in InChannel("User") /\ InChannel("User")' = InChannel("User") \ {n}
        /\ \A m \in InChannel("User") : n <= m
    BY <2>k, ChannelPop
  <2>s. n \in Snapshots
    BY <2>c, SetOrder
  <2> HIDE DEF n
  <2>1. StopWanted' <=> StopWanted
    BY <2>c, <2>k DEF Stop
  <2>2. pc' = "top" /\ decision_seq' = decision_seq /\ UNCHANGED <<pending_ack_seq, queued_updates>>
    BY <1>2 DEF RecvUser
  <2>3. /\ ContractMode' = ContractMode /\ ContractMode # "ended"
        /\ ContractPrompts = InChannel("User") /\ ContractPrompts' = ContractPrompts \ {n}
    BY <1>e, <2>1, <2>2, <2>c, ContractView, ContractView2
  <2>4. ContractGate' = ContractGate
    <3>1. AckSent(pending_ack_seq)' <=> AckSent(pending_ack_seq)
      <4>1. AckSent(pending_ack_seq)' <=> AckDecision(pending_ack_seq) \in Elems(cmds')
        BY <2>2 DEF AckSent, Elems
      <4>2. Elems(cmds) = Elems(cmds') \union {Head(cmds)}
        BY <2>k, ElemsPop DEF TypeOK
      <4>3. Head(cmds) # AckDecision(pending_ack_seq)
        BY <2>k DEF AckDecision
      <4> QED BY <4>1, <4>2, <4>3, ChannelView
    <3> QED BY <1>e, <2>2, <3>1, ContractView, ContractView2
  <2>5. Queued' = Queued
    BY <2>2 DEF Queued
  <2>6. ContractWork' = InChannel("Update") \union Queued \union ({pending_conversation'} \ {None})
    BY <2>2, <2>5, <2>c, ContractView2
  <2>7. PICK cli \in BOOLEAN : /\ events' = Append(events, UserReply(cli))
                               /\ pending_conversation' = n \/ (~cli /\ pending_conversation' = None)
    BY <1>2, <1>e DEF RecvUser, n
  <2>8. ContractWork' = ContractWork \union {n} \/ (~cli /\ ContractWork' = ContractWork)
    BY <1>n, <1>w, <2>6, <2>7, <2>s
  <2>9. Contract!Oldest(n, ContractPrompts)
    BY <2>3, <2>c DEF Contract!Oldest
  <2>10. Contract!Answer(n, cli)
    BY <2>2, <2>3, <2>4, <2>7, <2>8, <2>9 DEF Contract!Answer, Contract!Tell, Contract!Live, UserReply
  <2> QED BY <2>10, <2>s DEF ContractStep, Contract!ContractNext
<1>3. CASE RecvUpdate
  <2>k. Receive("Update") /\ cmds # <<>> /\ cmds' = Tail(cmds) /\ Head(cmds).kind = "Update"
    BY <1>3, <1>k DEF RecvUpdate
  <2> DEFINE n == Head(cmds).conv
  <2>c. /\ InChannel("User")' = InChannel("User")
        /\ StopWanted <=> StopWanted' \/ Head(cmds) = Stop
        /\ n \in InChannel("Update") /\ InChannel("Update")' = InChannel("Update") \ {n}
        /\ \A m \in InChannel("Update") : n <= m
    BY <2>k, ChannelPop
  <2>s. n \in Snapshots /\ \A q \in Queued : q < n
    BY <2>c, SetOrder
  <2>1. StopWanted' <=> StopWanted
    BY <2>c, <2>k DEF Stop
  <2>2. pc' = "top" /\ decision_seq' = decision_seq /\ pending_ack_seq' = pending_ack_seq /\ events' = events
    BY <1>3 DEF RecvUpdate
  <2>3. ContractMode' = ContractMode /\ ContractPrompts' = ContractPrompts
    BY <1>e, <2>1, <2>2, <2>c, ContractView, ContractView2
  <2>4. ContractGate' = ContractGate
    <3>1. AckSent(pending_ack_seq)' <=> AckSent(pending_ack_seq)
      <4>1. AckSent(pending_ack_seq)' <=> AckDecision(pending_ack_seq) \in Elems(cmds')
        BY <2>2 DEF AckSent, Elems
      <4>2. Elems(cmds) = Elems(cmds') \union {Head(cmds)}
        BY <2>k, ElemsPop DEF TypeOK
      <4>3. Head(cmds) # AckDecision(pending_ack_seq)
        BY <2>k DEF AckDecision
      <4> QED BY <4>1, <4>2, <4>3, ChannelView
    <3> QED BY <1>e, <2>2, <3>1, ContractView, ContractView2
  <2>5. CASE pending_ack_seq # None
    <3>1. queue_update_capped(n) /\ pending_conversation' = None
      BY <1>3, <1>e, <2>5 DEF RecvUpdate
    <3>2. n \in Queued'
      <4>1. \/ Queued' = Queued \union {n}
            \/ \E h \in Queued : (\A q \in Queued : h <= q) /\ Queued' = (Queued \ {h}) \union {n}
        BY <2>s, <3>1, SetPush
      <4> QED BY <4>1
    <3> HIDE DEF n
    <3> DEFINE rest == InChannel("Update") \ {n}
    <3>3. ContractWork = rest \union Queued \union {n}
      BY <1>w, <2>c
    <3>4. ContractWork' = rest \union Queued' \union {n}
      BY <1>e, <2>2, <2>c, <3>1, <3>2, ContractView2
    <3>5. rest \subseteq Snapshots /\ \A q \in Queued : \A m \in rest : q < m
      BY SetOrder
    <3> HIDE DEF rest
    <3> QED BY <1>e, <2>2, <2>3, <2>4, <2>s, <3>1, <3>3, <3>4, <3>5, ContractQueued
  <2>6. CASE pending_ack_seq = None
    <3>1. pending_conversation' = n /\ queued_updates' = queued_updates
      BY <1>3, <1>e, <2>6 DEF RecvUpdate
    <3> HIDE DEF n
    <3>2. Queued' = Queued
      BY <3>1 DEF Queued
    <3>3. n # None
      BY <1>n, <2>s
    <3>4. ContractWork' = (InChannel("Update") \ {n}) \union Queued \union {n}
      BY <1>e, <2>2, <2>c, <3>1, <3>2, <3>3, ContractView2
    <3>5. ContractWork' = ContractWork
      BY <1>w, <2>c, <3>4
    <3> QED BY <2>2, <2>3, <2>4, <3>5, ContractStutter
  <2> QED BY <2>5, <2>6
<1>4. CASE RecvStop
  <2>1. StopWanted
    <3>1. CASE Receive("Stop")
      <4>k. cmds # <<>> /\ cmds' = Tail(cmds) /\ Head(cmds).kind = "Stop"
        BY <1>k, <3>1
      <4>1. Head(cmds) \in Commands /\ Elems(cmds) = Elems(cmds') \union {Head(cmds)}
        BY <4>k, ElemsPop DEF TypeOK
      <4>2. Head(cmds) = Stop
        BY <4>k, <4>1 DEF Commands, Stop
      <4> QED BY <4>1, <4>2, ChannelView
    <3>2. CASE closed
      BY <3>2 DEF StopWanted
    <3> QED BY <1>4, <3>1, <3>2 DEF RecvStop
  <2> QED BY <1>4, <1>e, <2>1, ContractStopped DEF RecvStop
<1> QED BY <1>1, <1>2, <1>3, <1>4 DEF RecvStep

\* Everything that is to be decided on or answered was sent before what comes next.
LEMMA SentBefore ==
    ASSUME TypeOK, InOrder, pc # "exited"
    PROVE  \A m \in ContractWork \union ContractPrompts : m < next_snapshot
<1>1. \A m \in Queued \union InChannel("Update") \union InChannel("User") : m < next_snapshot
  BY SetOrder
<1>2. pending_conversation # None => pending_conversation < next_snapshot
  BY DEF InOrder, PendingOrder
<1>3. working # None => working < next_snapshot
  BY DEF InOrder, PendingOrder
<1>4. ContractPrompts = InChannel("User")
  BY ContractView
<1>5. ContractWork \subseteq InChannel("Update") \union Queued \union ({pending_conversation, working} \ {None})
  BY ContractView
<1> QED BY <1>1, <1>2, <1>3, <1>4, <1>5

\* Once the thread has ended nothing its client does is seen, but the events it takes.
LEMMA ContractGone ==
    ASSUME pc = "exited", pc' = "exited", decision_seq' = decision_seq, events' = events
    PROVE  ContractStep
BY ContractEnded, ContractStutter DEF ContractMode, ContractGate, ContractPrompts, ContractWork

\* The client's steps that send: a conversation, an ack, the wish to end.
LEMMA ClientContract ==
    ASSUME TypeOK, InOrder, ClientNext
    PROVE  ContractStep
<1> USE DEF loopVars, histVars, threadVars, clientVars
<1>l. UNCHANGED <<pc, pending_conversation, pending_ack_seq, queued_updates, decision_seq, working>>
  BY DEF ClientNext, SendConversation, SendAck, RepeatAck, SendStop, Cancel, DropHandle, TakeEvent, ClientSend
<1>q. Queued' = Queued
  BY <1>l DEF Queued
<1>w. InChannel("Update")' = InChannel("Update") => ContractWork' = ContractWork
  BY <1>l, <1>q DEF ContractWork
<1>p. InChannel("User")' = InChannel("User") => ContractPrompts' = ContractPrompts
  BY <1>l DEF ContractPrompts
<1>g. (AckSent(pending_ack_seq)' <=> AckSent(pending_ack_seq)) => ContractGate' = ContractGate
  BY <1>l DEF ContractGate
<1>m. (StopWanted' <=> StopWanted) => ContractMode' = ContractMode
  BY <1>l DEF ContractMode
<1>x. CASE pc = "exited" /\ ~TakeEvent
  <2>1. events' = events
    BY <1>x DEF ClientNext, SendConversation, SendAck, RepeatAck, SendStop, Cancel, DropHandle, ClientSend
  <2> QED BY <1>l, <1>x, <2>1, ContractGone
<1>1. CASE TakeEvent
  <2>1. /\ events # <<>> /\ events' = Tail(events) /\ cmds' = cmds /\ UNCHANGED <<cancelled, closed>>
    BY <1>1 DEF TakeEvent
  <2>2. /\ \A k : InChannel(k)' = InChannel(k)
        /\ \A s : AckSent(s)' <=> AckSent(s)
        /\ StopWanted' <=> StopWanted
    BY <2>1, ChannelSame
  <2>3. AckSent(pending_ack_seq)' <=> AckSent(pending_ack_seq)
    BY <1>l, <2>1 DEF AckSent
  <2>4. /\ ContractWork' = ContractWork /\ ContractPrompts' = ContractPrompts
        /\ ContractGate' = ContractGate /\ ContractMode' = ContractMode
    BY <1>w, <1>p, <1>g, <1>m, <2>2, <2>3
  <2>5. Contract!Take
    BY <1>l, <2>1, <2>4 DEF Contract!Take
  <2> QED BY <2>5 DEF ContractStep, Contract!ContractNext
<1>2. ASSUME NEW x \in Commands, ClientSend(x), pc # "exited", x = Stop \/ x.kind = "Ack" PROVE ContractStep
  <2>1. cmds' = Append(cmds, x) /\ events' = events /\ UNCHANGED <<cancelled, closed>>
    BY <1>2 DEF ClientSend
  <2>2. x.kind # "Update" /\ x.kind # "User"
    BY <1>2 DEF Stop
  <2>3. /\ InChannel("Update")' = InChannel("Update") /\ InChannel("User")' = InChannel("User")
        /\ StopWanted' <=> StopWanted \/ x = Stop
    BY <2>1, <2>2, ChannelPush
  <2>4. AckSent(pending_ack_seq)' <=> AckSent(pending_ack_seq) \/ x = AckDecision(pending_ack_seq)
    <3>1. AckSent(pending_ack_seq)' <=> AckDecision(pending_ack_seq) \in Elems(cmds')
      BY <1>l DEF AckSent, Elems
    <3>2. Elems(cmds') = Elems(cmds) \union {x}
      BY <2>1, ElemsPush DEF TypeOK
    <3> QED BY <3>1, <3>2, ChannelView
  <2>5. ContractWork' = ContractWork /\ ContractPrompts' = ContractPrompts
    BY <1>w, <1>p, <2>3
  <2>6. CASE x = Stop
    <3>1. Stop # AckDecision(pending_ack_seq)
      <4>1. Stop.kind = "Stop" /\ AckDecision(pending_ack_seq).kind = "Ack"
        BY DEF Stop, AckDecision
      <4> QED BY <4>1
    <3>2. ContractGate' = ContractGate
      BY <1>g, <2>4, <2>6, <3>1
    <3>3. CASE StopWanted
      BY <1>l, <1>m, <2>1, <2>3, <2>5, <3>2, <3>3, ContractStutter
    <3>4. CASE ~StopWanted
      <4>1. ContractMode = "running" /\ ContractMode' = "stopping"
        BY <1>2, <1>l, <2>3, <2>6, <3>4, ContractView, ContractView2
      <4>2. Contract!WantEnd
        BY <1>l, <2>1, <2>5, <3>2, <4>1 DEF Contract!WantEnd
      <4> QED BY <4>2 DEF ContractStep, Contract!ContractNext
    <3> QED BY <3>3, <3>4
  <2>7. CASE x # Stop
    <3>1. ContractMode' = ContractMode
      BY <1>m, <2>3, <2>7
    <3>2. CASE x = AckDecision(pending_ack_seq)
      <4>1. ContractGate' = None
        BY <1>2, <1>l, <2>4, <3>2, ContractView2
      <4>2. Contract!Ack
        BY <1>l, <2>1, <2>5, <3>1, <4>1 DEF Contract!Ack
      <4> QED BY <4>2 DEF ContractStep, Contract!ContractNext
    <3>3. CASE x # AckDecision(pending_ack_seq)
      BY <1>g, <1>l, <2>1, <2>4, <2>5, <3>1, <3>3, ContractStutter
    <3> QED BY <3>2, <3>3
  <2> QED BY <2>6, <2>7
<1>3. ASSUME SendConversation, pc # "exited" PROVE ContractStep
  <2> DEFINE n == next_snapshot
  <2>1. n \in Snapshots
    BY <1>3 DEF SendConversation, Snapshots, TypeOK
  <2>2. PICK x \in {UpdateConversation(n), HandleUserPrompt(n)} : ClientSend(x)
    BY <1>3 DEF SendConversation
  <2>3. x \in Commands /\ x.conv = n /\ x.kind \in {"Update", "User"} /\ x # Stop
    <3>1. x = [kind |-> "Update", conv |-> n] \/ x = [kind |-> "User", conv |-> n]
      BY <2>2 DEF UpdateConversation, HandleUserPrompt
    <3>2. x.conv = n /\ x.kind \in {"Update", "User"} /\ x \in Commands
      BY <2>1, <3>1 DEF Commands
    <3>3. Stop.kind = "Stop"
      BY DEF Stop
    <3> QED BY <3>2, <3>3
  <2>4. \A m \in ContractWork \union ContractPrompts : m < n
    BY <1>3, SentBefore
  <2> HIDE DEF n
  <2>5. cmds' = Append(cmds, x) /\ events' = events /\ UNCHANGED <<cancelled, closed>>
    BY <2>2 DEF ClientSend
  <2>6. /\ \A k : x.kind # k => InChannel(k)' = InChannel(k)
        /\ \A k : x.kind = k => InChannel(k)' = InChannel(k) \union {n}
        /\ StopWanted' <=> StopWanted
    BY <2>3, <2>5, ChannelPush
  <2>7. AckSent(pending_ack_seq)' <=> AckSent(pending_ack_seq)
    <3>1. AckSent(pending_ack_seq)' <=> AckDecision(pending_ack_seq) \in Elems(cmds')
      BY <1>l DEF AckSent, Elems
    <3>2. Elems(cmds') = Elems(cmds) \union {x}
      BY <2>3, <2>5, ElemsPush DEF TypeOK
    <3>3. x # AckDecision(pending_ack_seq)
      BY <2>3 DEF AckDecision
    <3> QED BY <3>1, <3>2, <3>3, ChannelView
  <2>8. ContractGate' = ContractGate /\ ContractMode' = ContractMode /\ ContractMode # "ended"
    BY <1>3, <1>g, <1>m, <2>6, <2>7, ContractView
  <2>9. CASE x.kind = "Update"
    <3>1. InChannel("Update")' = InChannel("Update") \union {n} /\ InChannel("User")' = InChannel("User")
      BY <2>6, <2>9
    <3>2. ContractWork' = ContractWork \union {n}
      BY <1>3, <1>l, <1>q, <3>1, ContractView, ContractView2
    <3>3. ContractPrompts' = ContractPrompts
      BY <1>p, <3>1
    <3>4. Contract!Send(n)
      BY <1>l, <2>4, <2>5, <2>8, <3>2, <3>3 DEF Contract!Send, Contract!Live
    <3> QED BY <2>1, <3>4 DEF ContractStep, Contract!ContractNext
  <2>10. CASE x.kind = "User"
    <3>1. InChannel("User")' = InChannel("User") \union {n} /\ InChannel("Update")' = InChannel("Update")
      BY <2>6, <2>10
    <3>2. ContractPrompts' = ContractPrompts \union {n}
      BY <1>3, <1>l, <3>1, ContractView, ContractView2
    <3>3. ContractWork' = ContractWork
      BY <1>w, <3>1
    <3>4. Contract!Send(n)
      BY <1>l, <2>4, <2>5, <2>8, <3>2, <3>3 DEF Contract!Send, Contract!Live
    <3> QED BY <2>1, <3>4 DEF ContractStep, Contract!ContractNext
  <2> QED BY <2>3, <2>9, <2>10
<1>4. ASSUME Cancel \/ DropHandle, pc # "exited" PROVE ContractStep
  <2>1. cmds' = cmds /\ events' = events /\ StopWanted'
    BY <1>4 DEF Cancel, DropHandle, StopWanted
  <2>2. \A k : InChannel(k)' = InChannel(k)
    BY <2>1, ChannelSame
  <2>3. AckSent(pending_ack_seq)' <=> AckSent(pending_ack_seq)
    BY <1>l, <2>1 DEF AckSent
  <2>4. ContractWork' = ContractWork /\ ContractPrompts' = ContractPrompts /\ ContractGate' = ContractGate
    BY <1>w, <1>p, <1>g, <2>2, <2>3
  <2>5. ContractMode \in {"running", "stopping"} /\ ContractMode' = "stopping"
    BY <1>4, <1>l, <2>1, ContractView, ContractView2
  <2>6. CASE ContractMode = "running"
    <3>1. Contract!WantEnd
      BY <1>l, <2>1, <2>4, <2>5, <2>6 DEF Contract!WantEnd
    <3> QED BY <3>1 DEF ContractStep, Contract!ContractNext
  <2>7. CASE ContractMode = "stopping"
    BY <1>l, <2>1, <2>4, <2>5, <2>7, ContractStutter
  <2> QED BY <2>5, <2>6, <2>7
<1>5. CASE pc # "exited" /\ ~TakeEvent
  <2>1. ASSUME NEW s \in received, SendAck(s) \/ RepeatAck(s) PROVE ContractStep
    <3>1. AckDecision(s) \in Commands /\ AckDecision(s).kind = "Ack"
      BY DEF AckDecision, Commands, TypeOK
    <3> QED BY <1>2, <1>5, <2>1, <3>1 DEF SendAck, RepeatAck
  <2>2. CASE SendStop
    <3>1. Stop \in Commands
      BY DEF Commands
    <3> QED BY <1>2, <1>5, <2>2, <3>1 DEF SendStop
  <2> QED BY <1>3, <1>4, <1>5, <2>1, <2>2 DEF ClientNext
<1> QED BY <1>1, <1>5, <1>x

LEMMA InitContract == Init => Contract!ContractInit
<1> SUFFICES ASSUME Init PROVE Contract!ContractInit
  OBVIOUS
<1>1. /\ cmds = <<>> /\ queued_updates = <<>> /\ decision_seq = 0 /\ ~cancelled /\ ~closed
  BY DEF Init, CoordInit
<1>2. Elems(cmds) = {} /\ Elems(queued_updates) = {}
  BY <1>1 DEF Elems
<1>3. /\ ~StopWanted /\ (\A s : ~AckSent(s)) /\ Queued = {} /\ \A k : InChannel(k) = {}
  BY <1>1, <1>2, ChannelView
<1>4. CASE /\ pc = "top"
           /\ \/ pending_conversation = None /\ pending_ack_seq = 0 /\ events = <<Decision(0, "Continue")>>
              \/ pending_conversation = 1 /\ pending_ack_seq = None /\ events = <<>>
  <2>1. ContractMode = "running" /\ ContractPrompts = {} /\ ContractGate = pending_ack_seq
    BY <1>3, <1>4, ContractView
  <2>2. ContractWork = {pending_conversation} \ {None}
    BY <1>3, <1>4, ContractView
  <2>3. None # 1
    BY NoneAssumption
  <2> QED BY <1>1, <1>4, <2>1, <2>2, <2>3 DEF Contract!ContractInit, Decision
<1>5. CASE pc = "exited" /\ events = <<>>
  <2>1. ContractMode = "ended" /\ ContractPrompts = {} /\ ContractGate = None /\ ContractWork = {}
    BY <1>5 DEF ContractMode, ContractPrompts, ContractGate, ContractWork
  <2> QED BY <1>1, <1>5, <2>1 DEF Contract!ContractInit
<1> QED BY <1>4, <1>5 DEF Init, CoordInit

\* Whatever its loop, its queue and its two channels do, the coordinator looks to its
\* client like CoordinatorContract: run_auto_loop decides on the conversations it was
\* sent one at a time, oldest first, each once and only after the last ack; it answers
\* prompts in between; only a full queue gives up a conversation, for a newer one; and
\* only a failure or its client ends it.  For every length of the queue, turn cap,
\* recovery limit and number of conversations.
THEOREM CoordinatorKeepsContract == Spec => ImplementsContract
<1>1. Init => Numbers
  BY DEF Init, CoordInit, Numbers, Elems, Decision
<1>2. TypeOK /\ Numbers /\ [Next]_vars => Numbers'
  <2>1. ASSUME Numbers, UNCHANGED vars PROVE Numbers'
    BY <2>1 DEF Numbers, vars, threadVars, loopVars, clientVars
  <2> QED BY <2>1, NumbersStep
<1>3. TypeOK /\ LoopInv /\ InOrder /\ Numbers /\ [Next]_vars =>
          [Contract!ContractNext]_(Contract!contractVars)
  <2> SUFFICES ASSUME TypeOK, LoopInv, InOrder, Numbers, [Next]_vars
               PROVE  ContractStep
    BY DEF ContractStep
  <2>1. CASE ThreadStep
    BY <2>1, TopContract, RequestContract, RecvContract DEF ThreadStep, CoordNext, LoopStep
  <2>2. CASE ClientNext
    BY <2>2, ClientContract
  <2>3. CASE UNCHANGED vars
    <3>1. UNCHANGED <<pc, pending_conversation, queued_updates, working, pending_ack_seq, cmds,
                      cancelled, closed, decision_seq, events>>
      BY <2>3 DEF vars, threadVars, loopVars, clientVars
    <3>2. /\ ContractMode' = ContractMode /\ ContractGate' = ContractGate
          /\ ContractWork' = ContractWork /\ ContractPrompts' = ContractPrompts
      BY <3>1 DEF ContractMode, ContractGate, ContractWork, ContractPrompts, InChannel, StopWanted, AckSent, Queued
    <3> QED BY <3>1, <3>2, ContractStutter
  <2> QED BY <2>1, <2>2, <2>3 DEF Next
<1> QED BY <1>1, <1>2, <1>3, InitContract, CoordinatorTypes, LoopInvariant, OrderInvariant, PTL
        DEF Spec, ImplementsContract, Contract!ContractSpec
=============================================================================
