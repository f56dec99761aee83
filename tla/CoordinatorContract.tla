------------------------ MODULE CoordinatorContract ------------------------
(***************************************************************************)
(* What the Auto Drive coordinator promises whoever holds its handle: the  *)
(* channels and the loop of AutoCoordinator are gone, a message counts as  *)
(* received when it is sent and an ack as soon as it is given.  A host     *)
(* need not know more, and AutoDriveHost does not: there a coordinator is  *)
(* this contract with conversations counted instead of named.              *)
(* CoordinatorClient is shown to implement this specification.             *)
(***************************************************************************)
EXTENDS Naturals, Sequences

CONSTANTS None,
          Snapshots,   \* the conversations, in the order they are sent
          TurnCap      \* auto_drive.coordinator_turn_cap; 0 means no cap

VARIABLES mode,      \* running, stopping once the client wants the end, ended
          gate,      \* the decision that awaits its ack, or None
          seq,       \* decisions sent, the planning decision not counted
          work,      \* conversations to decide on
          prompts,   \* user prompts to answer
          events     \* what the client has not taken yet

contractVars == <<mode, gate, seq, work, prompts, events>>

Live == mode # "ended"

Oldest(n, S) == n \in S /\ \A m \in S : n <= m

Tell(e) == events' = Append(events, e)

\* A thread that ends leaves nothing behind but its events.
End == mode' = "ended" /\ gate' = None /\ work' = {} /\ prompts' = {}

\* With a goal the coordinator has announced the planning turn, without one it has a
\* conversation to derive the goal from.  Or it could not start, and says nothing.
ContractInit ==
    /\ seq = 0
    /\ prompts = {}
    /\ \/ /\ mode = "running"
          /\ gate = 0
          /\ work = {}
          /\ events = <<[kind |-> "Decision", seq |-> 0, status |-> "Continue"]>>
       \/ mode = "running" /\ gate = None /\ work = {1} /\ events = <<>>
       \/ mode = "ended" /\ gate = None /\ work = {} /\ events = <<>>

-----------------------------------------------------------------------------
(* The client *)

Send(n) ==
    /\ Live
    /\ \A m \in work \union prompts : m < n
    /\ \/ work' = work \union {n} /\ UNCHANGED prompts
       \/ prompts' = prompts \union {n} /\ UNCHANGED work
    /\ UNCHANGED <<mode, gate, seq, events>>

Ack ==
    /\ gate' = None
    /\ UNCHANGED <<mode, seq, work, prompts, events>>

WantEnd ==
    /\ mode = "running"
    /\ mode' = "stopping"
    /\ UNCHANGED <<gate, seq, work, prompts, events>>

Take ==
    /\ events # <<>>
    /\ events' = Tail(events)
    /\ UNCHANGED <<mode, gate, seq, work, prompts>>

-----------------------------------------------------------------------------
(* The coordinator *)

\* The oldest conversation is decided on once the last decision is acknowledged.  A
\* failure ends the thread, and so does Continue at the cap, which is turned into one.
Decide(n, status) ==
    /\ Live
    /\ gate = None
    /\ Oldest(n, work)
    /\ status = "Continue" /\ TurnCap > 0 => seq + 1 < TurnCap
    /\ seq' = seq + 1
    /\ Tell([kind |-> "Decision", seq |-> seq + 1, status |-> status])
    /\ IF status = "Failed"
       THEN End
       ELSE gate' = seq + 1 /\ work' = work \ {n} /\ UNCHANGED <<mode, prompts>>

\* The oldest prompt is answered, ack or no ack; its conversation is decided on later,
\* unless the request failed.
Answer(n, cli) ==
    /\ Live
    /\ Oldest(n, prompts)
    /\ prompts' = prompts \ {n}
    /\ work' = work \union {n} \/ (~cli /\ UNCHANGED work)
    /\ Tell([kind |-> "UserReply", cli |-> cli])
    /\ UNCHANGED <<mode, gate, seq>>

\* When too many wait, the oldest is given up for newer ones.
Evict(n) ==
    /\ Live
    /\ Oldest(n, work)
    /\ \E m \in work : m # n
    /\ work' = work \ {n}
    /\ UNCHANGED <<mode, gate, seq, prompts, events>>

\* Short of a failure the thread ends only when its client wants it to.
Stopped ==
    /\ mode = "stopping"
    /\ End
    /\ UNCHANGED events \/ Tell([kind |-> "StopAck"])
    /\ UNCHANGED seq

ContractNext ==
    \/ Ack \/ WantEnd \/ Take \/ Stopped
    \/ \E n \in Snapshots :
           \/ Send(n) \/ Evict(n)
           \/ \E status \in {"Continue", "Success", "Failed"} : Decide(n, status)
           \/ \E cli \in BOOLEAN : Answer(n, cli)

ContractSpec == ContractInit /\ [][ContractNext]_contractVars
=============================================================================
