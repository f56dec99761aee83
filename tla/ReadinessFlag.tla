--------------------------- MODULE ReadinessFlag ---------------------------
(***************************************************************************)
(* utils/readiness: a flag that is raised once, by the holder of a token,  *)
(* and that tasks await.  One step per atomic operation, per acquisition   *)
(* of the token mutex and per operation of the watch channel, so calls of  *)
(* several tasks interleave wherever the code allows it.                   *)
(***************************************************************************)
EXTENDS Integers, FiniteSets

CONSTANTS Markers,      \* tasks that call subscribe and mark_ready
          Waiters,      \* tasks that call wait_ready
          Nobody,       \* the mutex is free
          IdSpace,      \* number of values of the token counter: 2^32
          MaxTokens     \* bound: how often fetch_add is called in a model

ASSUME IdSpaceAssumption == IdSpace \in Nat \ {0}
ASSUME MaxTokensAssumption == MaxTokens \in Nat
ASSUME TasksAssumption == Markers \cap Waiters = {} /\ Nobody \notin Markers

Tokens == 0 .. (IdSpace - 1)

VARIABLES
    ready,      \* the AtomicBool
    next_id,    \* calls of fetch_add so far, plus one; wraps when turned into a Token
    tokens,     \* the HashSet behind the mutex
    lock,       \* the task that holds the mutex, or Nobody
    sent,       \* the value stored in the watch channel
    rx,         \* waiters that own a live watch::Receiver
    unseen,     \* receivers whose channel changed since they last looked
    pc,         \* where each task is; "idle" between calls
    arg,        \* the token a marker's call works on
    issued,     \* history: tokens returned by subscribe
    grants,     \* history: number of Ok returns of subscribe
    wins,       \* history: number of mark_ready calls that returned true
    released    \* history: waiters that returned from wait_ready

flagVars == <<ready, next_id, tokens>>
watchVars == <<sent, rx, unseen>>
histVars == <<issued, grants, wins, released>>
vars == <<flagVars, lock, watchVars, pc, arg, histVars>>

MarkerPCs == {"idle", "sub_lock", "sub_in", "mark_lock", "mark_in", "mark_clear", "mark_send"}
WaiterPCs == {"idle", "wait_subscribe", "wait_borrow", "wait_changed"}

\* The fields keep their types; a channel change is pending only for a receiver that is
\* still alive, and every task is somewhere inside one of its own calls.
TypeOK ==
    /\ ready \in BOOLEAN
    /\ next_id \in Nat \ {0}
    /\ tokens \subseteq Tokens
    /\ lock \in Markers \union {Nobody}
    /\ sent \in BOOLEAN
    /\ rx \subseteq Waiters
    /\ unseen \subseteq rx
    /\ pc \in [Markers \union Waiters -> MarkerPCs \union WaiterPCs]
    /\ \A m \in Markers : pc[m] \in MarkerPCs
    /\ \A w \in Waiters : pc[w] \in WaiterPCs
    /\ arg \in [Markers -> Tokens]
    /\ issued \subseteq Tokens
    /\ grants \in Nat
    /\ wins \in Nat
    /\ released \subseteq Waiters

Token(n) == n % IdSpace

Init ==
    /\ ready = FALSE
    /\ next_id = 1
    /\ tokens = {}
    /\ lock = Nobody
    /\ sent = FALSE
    /\ rx = {}
    /\ unseen = {}
    /\ pc = [t \in Markers \union Waiters |-> "idle"]
    /\ arg = [m \in Markers |-> 0]
    /\ issued = {}
    /\ grants = 0
    /\ wins = 0
    /\ released = {}

Goto(t, l) == pc' = [pc EXCEPT ![t] = l]

-----------------------------------------------------------------------------
(* with_tokens: the mutex is awaited for LOCK_TIMEOUT, then the call fails. *)

LockTokens(m, from, to) ==
    /\ pc[m] = from
    /\ lock = Nobody
    /\ lock' = m
    /\ Goto(m, to)
    /\ UNCHANGED <<flagVars, watchVars, arg, histVars>>

\* The timeout only fires while another task holds the mutex: TokenLockFailed.
LockTimeout(m, from) ==
    /\ pc[m] = from
    /\ lock # Nobody
    /\ Goto(m, "idle")
    /\ UNCHANGED <<flagVars, lock, watchVars, arg, histVars>>

-----------------------------------------------------------------------------
(* subscribe.  A call made when the flag is ready changes nothing: it       *)
(* returns FlagAlreadyReady from its first check.                           *)

\* Mutant of SubscribeStart: the counter is read and never advanced.
SubscribeStartLoad(m) ==
    /\ pc[m] = "idle"
    /\ ~ready
    /\ next_id <= MaxTokens
    /\ arg' = [arg EXCEPT ![m] = Token(next_id)]
    /\ Goto(m, "sub_lock")
    /\ UNCHANGED <<flagVars, lock, watchVars, histVars>>

\* The first is_ready check and the fetch_add; the drawn number is read by no
\* other task before it is inserted.
SubscribeStart(m) ==
    /\ pc[m] = "idle"
    /\ ~ready
    /\ next_id <= MaxTokens
    /\ arg' = [arg EXCEPT ![m] = Token(next_id)]
    /\ next_id' = next_id + 1
    /\ Goto(m, "sub_lock")
    /\ UNCHANGED <<ready, tokens, lock, watchVars, histVars>>

SubscribeLock(m) == LockTokens(m, "sub_lock", "sub_in") \/ LockTimeout(m, "sub_lock")

\* Mutant of SubscribeInsert: readiness is not rechecked under the mutex.
SubscribeInsertUnchecked(m) ==
    /\ pc[m] = "sub_in"
    /\ lock' = Nobody
    /\ Goto(m, "idle")
    /\ tokens' = tokens \union {arg[m]}
    /\ issued' = issued \union {arg[m]}
    /\ grants' = grants + 1
    /\ UNCHANGED <<ready, next_id, watchVars, arg, wins, released>>

\* The closure under the mutex and the return.
SubscribeInsert(m) ==
    /\ pc[m] = "sub_in"
    /\ lock' = Nobody
    /\ Goto(m, "idle")
    /\ \/ ready /\ UNCHANGED <<tokens, issued, grants>>     \* FlagAlreadyReady
       \/ /\ ~ready
          /\ tokens' = tokens \union {arg[m]}
          /\ issued' = issued \union {arg[m]}
          /\ grants' = grants + 1
    /\ UNCHANGED <<ready, next_id, watchVars, arg, wins, released>>

-----------------------------------------------------------------------------
(* mark_ready.  A Token is Copy: any marker may present any issued token.  *)
(* A call made when the flag is ready, or with token 0, returns Ok(false)   *)
(* from its first checks and changes nothing.                               *)

MarkStart(m) ==
    /\ pc[m] = "idle"
    /\ ~ready
    /\ \E k \in issued :
         /\ k # 0                         \* token 0 is never authorized
         /\ arg' = [arg EXCEPT ![m] = k]
    /\ Goto(m, "mark_lock")
    /\ UNCHANGED <<flagVars, lock, watchVars, histVars>>

MarkLock(m) == LockTokens(m, "mark_lock", "mark_in") \/ LockTimeout(m, "mark_lock")

\* Mutant of MarkRefuse: the refusal leaves the mutex locked and retries for ever.
MarkRefuseHolds(m) ==
    /\ pc[m] = "mark_in"
    /\ arg[m] \notin tokens
    /\ UNCHANGED vars

\* An unknown or used token: Ok(false).
MarkRefuse(m) ==
    /\ pc[m] = "mark_in"
    /\ arg[m] \notin tokens
    /\ lock' = Nobody
    /\ Goto(m, "idle")
    /\ UNCHANGED <<flagVars, watchVars, arg, histVars>>

\* Mutant of MarkStore: the token is consumed before the flag is raised.
MarkStoreLate(m) ==
    /\ pc[m] = "mark_in"
    /\ arg[m] \in tokens
    /\ tokens' = tokens \ {arg[m]}
    /\ Goto(m, "mark_clear")
    /\ UNCHANGED <<ready, next_id, lock, watchVars, arg, histVars>>

\* remove(token) and the store that every is_ready reader sees at once ...
MarkStore(m) ==
    /\ pc[m] = "mark_in"
    /\ arg[m] \in tokens
    /\ tokens' = tokens \ {arg[m]}
    /\ ready' = TRUE
    /\ Goto(m, "mark_clear")
    /\ UNCHANGED <<next_id, lock, watchVars, arg, histVars>>

\* Mutant of MarkClear: the other tokens survive.
MarkClearKeeps(m) ==
    /\ pc[m] = "mark_clear"
    /\ lock' = Nobody
    /\ Goto(m, "mark_send")
    /\ UNCHANGED <<flagVars, watchVars, arg, histVars>>

\* ... and clear(), still under the mutex.
MarkClear(m) ==
    /\ pc[m] = "mark_clear"
    /\ tokens' = {}
    /\ lock' = Nobody
    /\ Goto(m, "mark_send")
    /\ UNCHANGED <<ready, next_id, watchVars, arg, histVars>>

\* Mutant of WatchSend: the value is stored, the receivers are not notified.
WatchStore(v) == sent' = v /\ UNCHANGED <<rx, unseen>>

\* watch::Sender::send: without a receiver it fails and stores nothing.
WatchSend(v) ==
    \/ rx = {} /\ UNCHANGED watchVars
    \/ rx # {} /\ sent' = v /\ unseen' = rx /\ UNCHANGED rx

\* Mutant of MarkSend: the winner does not broadcast.
MarkSendSilent(m) ==
    /\ pc[m] = "mark_send"
    /\ wins' = wins + 1
    /\ Goto(m, "idle")
    /\ UNCHANGED <<flagVars, lock, arg, issued, grants, released, watchVars>>

MarkSend(m) ==
    /\ pc[m] = "mark_send"
    /\ WatchSend(TRUE)
    /\ wins' = wins + 1
    /\ Goto(m, "idle")
    /\ UNCHANGED <<flagVars, lock, arg, issued, grants, released>>

-----------------------------------------------------------------------------
(* wait_ready *)

WaitReturn(w) ==
    /\ Goto(w, "idle")
    /\ released' = released \union {w}
    /\ rx' = rx \ {w}                     \* the receiver is dropped
    /\ unseen' = unseen \ {w}

WaitStart(w) ==
    /\ pc[w] = "idle"
    /\ \/ ready /\ WaitReturn(w)
       \/ ~ready /\ Goto(w, "wait_subscribe") /\ UNCHANGED <<rx, unseen, released>>
    /\ UNCHANGED <<flagVars, lock, sent, arg, issued, grants, wins>>

\* tx.subscribe(): the new receiver has seen the current value.
WaitSubscribe(w) ==
    /\ pc[w] = "wait_subscribe"
    /\ rx' = rx \union {w}
    /\ Goto(w, "wait_borrow")
    /\ UNCHANGED <<flagVars, lock, sent, unseen, arg, histVars>>

\* Mutant of WaitBorrow: the fast path returns on a fresh receiver.
WaitBorrowEager(w) ==
    /\ pc[w] = "wait_borrow"
    /\ WaitReturn(w)
    /\ UNCHANGED <<flagVars, lock, sent, arg, issued, grants, wins>>

\* The fast path; borrow() does not mark the value as seen.
WaitBorrow(w) ==
    /\ pc[w] = "wait_borrow"
    /\ \/ sent /\ WaitReturn(w)
       \/ ~sent /\ Goto(w, "wait_changed") /\ UNCHANGED <<rx, unseen, released>>
    /\ UNCHANGED <<flagVars, lock, sent, arg, issued, grants, wins>>

\* changed() completes and the loop breaks on true, the only value ever sent.
WaitChanged(w) ==
    /\ pc[w] = "wait_changed"
    /\ w \in unseen
    /\ sent
    /\ WaitReturn(w)
    /\ UNCHANGED <<flagVars, lock, sent, arg, issued, grants, wins>>

-----------------------------------------------------------------------------
MarkerStep(m) ==
    \/ SubscribeLock(m) \/ SubscribeInsert(m)
    \/ MarkLock(m) \/ MarkRefuse(m) \/ MarkStore(m) \/ MarkClear(m) \/ MarkSend(m)

WaiterStep(w) == WaitSubscribe(w) \/ WaitBorrow(w) \/ WaitChanged(w)

Next ==
    \/ \E m \in Markers : SubscribeStart(m) \/ MarkStart(m) \/ MarkerStep(m)
    \/ \E w \in Waiters : WaitStart(w) \/ WaiterStep(w)

Spec == Init /\ [][Next]_vars

\* The runtime polls every task whose call can go on; nobody has to start a call.
Fairness ==
    /\ \A m \in Markers : WF_vars(MarkerStep(m))
    /\ \A w \in Waiters : WF_vars(WaiterStep(w))

FairSpec == Spec /\ Fairness

-----------------------------------------------------------------------------
(* Properties *)

\* At most one mark_ready call returns true, although the closure of mark_ready
\* does not look at the flag again: it is clear() that disarms the tokens of the
\* calls that passed the first is_ready check.
SingleWinner == wins <= 1

\* No token outlives readiness once the mutex is free: a subscribe that drew its
\* token before the flag was raised must not insert it afterwards.
ReadyExpiresTokens == ready /\ lock = Nobody => tokens = {}

\* Until the flag is raised every token that subscribe returned is accepted, so a
\* mark_ready that returns false tells its caller that the flag is ready.
IssuedStayValid == ~ready => issued \subseteq tokens

\* Two Ok returns of subscribe never carry the same token, unless the i32 wraps.
TokensUnique == MaxTokens < IdSpace => grants = Cardinality(issued)

\* The broadcast follows once the flag is up, and reaches everybody who sleeps in
\* changed(): no waiter registers, finds the old value and misses the change.  Left out
\* are only those who register after a broadcast that found no receiver.
SleepersReached ==
    /\ ready => wins = 1 \/ \E m \in Markers : pc[m] \in {"mark_clear", "mark_send"}
    /\ sent => \A w \in Waiters : pc[w] = "wait_changed" => w \in unseen

Abstract == INSTANCE Readiness WITH
    flag <- ready,
    valid <- IF ready THEN {} ELSE tokens

\* Every call takes effect in one step: the flag with its mutex, channel and early
\* checks implements the atomic Readiness specification.  wait_ready returns to
\* nobody before the flag is up, and `true` is never reversed.
ImplementsReadiness == Abstract!AbsSpec

\* A waiter that has its receiver when the winner broadcasts returns.
RegisteredWaiterWakes ==
    \A w \in Waiters, m \in Markers :
        (w \in rx /\ pc[m] = "mark_send") ~> (pc[w] = "idle")

\* Every subscribe and mark_ready call returns, whoever holds the mutex.
MarkerCallsReturn == \A m \in Markers : pc[m] # "idle" ~> pc[m] = "idle"

\* The doc comment of wait_ready: a call made on a flag that becomes ready returns.
WaitReadyReturns == \A w \in Waiters : (ready /\ pc[w] # "idle") ~> (pc[w] = "idle")
=============================================================================
