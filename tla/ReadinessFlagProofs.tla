------------------------ MODULE ReadinessFlagProofs ------------------------
(***************************************************************************)
(* Proofs about ReadinessFlag for any number of tasks, any token space and *)
(* any number of calls.  SingleWinner is not inductive: MarkStore does not *)
(* test `ready`.  The invariant FlagInv says why it may not have to: while *)
(* tokens remain in the set after the flag is raised, the one task that    *)
(* raised it still holds the mutex.                                        *)
(***************************************************************************)
EXTENDS ReadinessFlag, FiniteSetTheorems, TLAPS

\* Tasks that have raised the flag and have not returned yet.
Winning(m) == pc[m] \in {"mark_clear", "mark_send"}

\* The mutex is held by exactly the task inside a with_tokens closure.
MutexInv == \A m \in Markers : pc[m] \in {"sub_in", "mark_in", "mark_clear"} <=> lock = m

\* Before readiness nobody has won, nothing was broadcast, no issued token is lost.
DownInv ==
    ~ready => /\ wins = 0
              /\ \A m \in Markers : ~Winning(m)
              /\ ~sent
              /\ issued \subseteq tokens

\* After it, tokens are left only while the winner is about to clear them.
UpInv == ready /\ tokens # {} => \E m \in Markers : pc[m] = "mark_clear"

\* One winner, and its success is counted when it returns.
WinnerInv ==
    /\ wins <= 1
    /\ \A m \in Markers : Winning(m) => wins = 0
    /\ \A m, n \in Markers : Winning(m) /\ Winning(n) => m = n

FlagInv == TypeOK /\ MutexInv /\ DownInv /\ UpInv /\ WinnerInv

-----------------------------------------------------------------------------
\* Turning the counter into a token stays inside the i32's values.
LEMMA TokenType == \A n \in Nat : Token(n) \in Tokens
  BY IdSpaceAssumption DEF Token, Tokens

\* The initial state, with an empty token set and a free mutex, satisfies FlagInv.
LEMMA InitFlagInv == Init => FlagInv
<1> SUFFICES ASSUME Init PROVE FlagInv
  OBVIOUS
<1> USE DEF Init
<1>0. 0 \in Tokens
  BY IdSpaceAssumption DEF Tokens
<1>b. ready \in BOOLEAN /\ sent \in BOOLEAN
  BY Zenon
<1>1. TypeOK
  BY <1>0, <1>b DEF TypeOK, MarkerPCs, WaiterPCs
<1>2. MutexInv /\ DownInv /\ UpInv /\ WinnerInv
  BY TasksAssumption DEF MutexInv, DownInv, UpInv, WinnerInv, Winning
<1> QED BY <1>1, <1>2 DEF FlagInv

\* Every step of a subscribe or mark_ready call preserves the type invariant.
LEMMA MarkerTypeOK ==
  ASSUME TypeOK, NEW m \in Markers,
         SubscribeStart(m) \/ MarkStart(m) \/ MarkerStep(m)
  PROVE  TypeOK'
<1> USE TasksAssumption, TokenType DEF TypeOK, MarkerPCs, WaiterPCs, Goto, flagVars, watchVars, histVars
<1>1. CASE SubscribeStart(m)
  BY <1>1 DEF SubscribeStart
<1>2. CASE MarkStart(m)
  BY <1>2 DEF MarkStart
<1>3. CASE SubscribeLock(m) \/ MarkLock(m)
  BY <1>3 DEF SubscribeLock, MarkLock, LockTokens, LockTimeout
<1>4. CASE SubscribeInsert(m)
  BY <1>4 DEF SubscribeInsert
<1>5. CASE MarkRefuse(m)
  BY <1>5 DEF MarkRefuse
<1>6. CASE MarkStore(m)
  BY <1>6 DEF MarkStore
<1>7. CASE MarkClear(m)
  BY <1>7 DEF MarkClear
<1>8. CASE MarkSend(m)
  <2>1. sent' \in BOOLEAN
    BY <1>8, Zenon DEF MarkSend, WatchSend
  <2>2. rx' = rx /\ (unseen' = unseen \/ unseen' = rx)
    BY <1>8 DEF MarkSend, WatchSend
  <2> QED BY <1>8, <2>1, <2>2 DEF MarkSend
<1> QED BY <1>1, <1>2, <1>3, <1>4, <1>5, <1>6, <1>7, <1>8 DEF MarkerStep

\* Every step of a wait_ready call preserves the type invariant.
LEMMA WaiterTypeOK ==
  ASSUME TypeOK, NEW w \in Waiters, WaitStart(w) \/ WaiterStep(w)
  PROVE  TypeOK'
<1> USE TasksAssumption DEF TypeOK, MarkerPCs, WaiterPCs, Goto, flagVars, watchVars, histVars, WaitReturn
<1>1. CASE WaitStart(w)
  BY <1>1 DEF WaitStart
<1>2. CASE WaitSubscribe(w)
  BY <1>2 DEF WaitSubscribe
<1>3. CASE WaitBorrow(w)
  BY <1>3 DEF WaitBorrow
<1>4. CASE WaitChanged(w)
  BY <1>4 DEF WaitChanged
<1> QED BY <1>1, <1>2, <1>3, <1>4 DEF WaiterStep

\* Every step of a subscribe or mark_ready call preserves FlagInv.
LEMMA MarkerFlagInv ==
  ASSUME FlagInv, NEW m \in Markers,
         SubscribeStart(m) \/ MarkStart(m) \/ MarkerStep(m)
  PROVE  FlagInv'
<1>t. TypeOK'
  BY MarkerTypeOK DEF FlagInv
<1> USE TasksAssumption DEF FlagInv, TypeOK, MutexInv, DownInv, UpInv, WinnerInv, Winning,
        Goto, flagVars, watchVars, histVars
<1>1. CASE SubscribeStart(m)
  BY <1>t, <1>1 DEF SubscribeStart
<1>2. CASE MarkStart(m)
  BY <1>t, <1>2 DEF MarkStart
<1>3. CASE SubscribeLock(m) \/ MarkLock(m)
  <2>1. CASE LockTokens(m, "sub_lock", "sub_in") \/ LockTokens(m, "mark_lock", "mark_in")
    BY <1>t, <2>1 DEF LockTokens
  <2>2. CASE LockTimeout(m, "sub_lock") \/ LockTimeout(m, "mark_lock")
    BY <1>t, <2>2 DEF LockTimeout
  <2> QED BY <1>3, <2>1, <2>2 DEF SubscribeLock, MarkLock
<1>4. CASE SubscribeInsert(m)
  BY <1>t, <1>4 DEF SubscribeInsert
<1>5. CASE MarkRefuse(m)
  BY <1>t, <1>5 DEF MarkRefuse
<1>6. CASE MarkStore(m)
  <2>1. ~ready      \* otherwise the winner holds the mutex that m holds
    BY <1>6 DEF MarkStore
  <2> QED BY <1>t, <1>6, <2>1 DEF MarkStore
<1>7. CASE MarkClear(m)
  BY <1>t, <1>7 DEF MarkClear
<1>8. CASE MarkSend(m)
  BY <1>t, <1>8 DEF MarkSend, WatchSend
<1> QED BY <1>1, <1>2, <1>3, <1>4, <1>5, <1>6, <1>7, <1>8 DEF MarkerStep

\* Every step of a wait_ready call preserves FlagInv.
LEMMA WaiterFlagInv ==
  ASSUME FlagInv, NEW w \in Waiters, WaitStart(w) \/ WaiterStep(w)
  PROVE  FlagInv'
<1>1. TypeOK'
  BY WaiterTypeOK DEF FlagInv
<1>2. /\ UNCHANGED <<ready, tokens, lock, sent, wins, issued>>
      /\ \A m \in Markers : pc'[m] = pc[m]
  BY TasksAssumption DEF FlagInv, TypeOK, WaitStart, WaiterStep, WaitSubscribe, WaitBorrow, WaitChanged,
     WaitReturn, Goto, flagVars, histVars
<1> QED BY <1>1, <1>2 DEF FlagInv, MutexInv, DownInv, UpInv, WinnerInv, Winning

\* FlagInv is an invariant of the flag, for all tasks and interleavings.
THEOREM FlagInvariant == Spec => []FlagInv
<1>1. FlagInv /\ [Next]_vars => FlagInv'
  <2> SUFFICES ASSUME FlagInv, [Next]_vars PROVE FlagInv'
    OBVIOUS
  <2>1. CASE Next
    BY <2>1, MarkerFlagInv, WaiterFlagInv DEF Next
  <2>2. CASE UNCHANGED vars
    BY <2>2 DEF FlagInv, TypeOK, MutexInv, DownInv, UpInv, WinnerInv, Winning,
       vars, flagVars, watchVars, histVars
  <2> QED BY <2>1, <2>2
<1> QED BY InitFlagInv, <1>1, PTL DEF Spec

\* The fields of the flag and the position of every call keep their types.
THEOREM TypeCorrect == Spec => []TypeOK
<1>1. FlagInv => TypeOK
  BY DEF FlagInv
<1> QED BY FlagInvariant, <1>1, PTL

\* At most one mark_ready call ever returns true.
THEOREM OneWinner == Spec => []SingleWinner
<1>1. FlagInv => SingleWinner
  BY DEF FlagInv, WinnerInv, SingleWinner
<1> QED BY FlagInvariant, <1>1, PTL

\* No token outlives readiness once the mutex is released.
THEOREM TokensExpire == Spec => []ReadyExpiresTokens
<1>1. FlagInv => ReadyExpiresTokens
  BY TasksAssumption DEF FlagInv, MutexInv, UpInv, ReadyExpiresTokens
<1> QED BY FlagInvariant, <1>1, PTL

\* A token returned by subscribe is accepted until the flag is ready.
THEOREM IssuedAccepted == Spec => []IssuedStayValid
<1>1. FlagInv => IssuedStayValid
  BY DEF FlagInv, DownInv, IssuedStayValid
<1> QED BY FlagInvariant, <1>1, PTL

-----------------------------------------------------------------------------
\* The flag with its mutex, early checks and channel implements the atomic
\* specification: mark_ready takes effect at its store, subscribe at its insert,
\* and every return of wait_ready finds the flag up.
THEOREM FlagImplementsReadiness == Spec => ImplementsReadiness
<1>1. Init => Abstract!AbsInit
  BY DEF Init, Abstract!AbsInit
<1>2. FlagInv /\ [Next]_vars => [Abstract!AbsNext]_Abstract!absVars
  <2> SUFFICES ASSUME FlagInv, [Next]_vars
               PROVE  Abstract!AbsNext \/ UNCHANGED Abstract!absVars
    OBVIOUS
  <2> USE DEF Abstract!absVars, flagVars, histVars
  <2>1. ASSUME NEW m \in Markers, SubscribeStart(m) \/ MarkStart(m) \/ SubscribeLock(m) \/ MarkLock(m)
                 \/ MarkRefuse(m) \/ MarkSend(m)
        PROVE  UNCHANGED Abstract!absVars
    <3>1. UNCHANGED <<ready, tokens, released>>
      BY <2>1 DEF SubscribeStart, MarkStart, SubscribeLock, MarkLock, LockTokens, LockTimeout,
         MarkRefuse, MarkSend
    <3> QED BY <3>1, Zenon
  <2>2. ASSUME NEW m \in Markers, SubscribeInsert(m)
        PROVE  Abstract!AbsNext \/ UNCHANGED Abstract!absVars
    <3>1. CASE ready
      BY <2>2, <3>1 DEF SubscribeInsert
    <3>2. CASE ~ready
      <4>1. Abstract!AbsSubscribe(arg[m])
        BY <2>2, <3>2 DEF SubscribeInsert, Abstract!AbsSubscribe
      <4>2. arg[m] \in Tokens
        BY DEF FlagInv, TypeOK
      <4> QED BY <4>1, <4>2 DEF Abstract!AbsNext
    <3> QED BY <3>1, <3>2
  <2>3. ASSUME NEW m \in Markers, MarkStore(m)
        PROVE  Abstract!AbsNext
    <3>1. ~ready
      BY <2>3 DEF MarkStore, FlagInv, MutexInv, UpInv
    <3>2. Abstract!AbsMarkReady(arg[m])
      BY <2>3, <3>1 DEF MarkStore, Abstract!AbsMarkReady
    <3>3. arg[m] \in Tokens
      BY DEF FlagInv, TypeOK
    <3> QED BY <3>2, <3>3 DEF Abstract!AbsNext
  <2>4. ASSUME NEW m \in Markers, MarkClear(m)
        PROVE  UNCHANGED Abstract!absVars
    BY <2>4 DEF MarkClear, FlagInv, DownInv, Winning
  <2>5. ASSUME NEW w \in Waiters, WaitStart(w) \/ WaiterStep(w)
        PROVE  Abstract!AbsNext \/ UNCHANGED Abstract!absVars
    <3>1. UNCHANGED <<ready, tokens>>
      BY <2>5 DEF WaitStart, WaiterStep, WaitSubscribe, WaitBorrow, WaitChanged
    <3>2. UNCHANGED released \/ (ready /\ released' = released \union {w})
      BY <2>5 DEF WaitStart, WaiterStep, WaitSubscribe, WaitBorrow, WaitChanged, WaitReturn,
         FlagInv, DownInv
    <3> QED BY <3>1, <3>2 DEF Abstract!AbsNext, Abstract!AbsWaitReady
  <2>6. CASE UNCHANGED vars
    BY <2>6 DEF vars
  <2> QED BY <2>1, <2>2, <2>3, <2>4, <2>5, <2>6 DEF Next, MarkerStep
<1> QED BY FlagInvariant, <1>1, <1>2, PTL DEF Spec, ImplementsReadiness, Abstract!AbsSpec

-----------------------------------------------------------------------------
(* Tokens are unique as long as the counter does not wrap.                  *)

Drawn(m) == pc[m] \in {"sub_lock", "sub_in"}

\* A number drawn and not yet returned is below the counter, belongs to one task and was
\* not issued; every issued token was counted.
DrawnInv ==
    /\ next_id <= MaxTokens + 1
    /\ issued \subseteq 1 .. (next_id - 1)
    /\ \A m \in Markers : Drawn(m) => arg[m] \in 1 .. (next_id - 1) /\ arg[m] \notin issued
    /\ \A m, n \in Markers : Drawn(m) /\ Drawn(n) /\ arg[m] = arg[n] => m = n
    /\ IsFiniteSet(issued)
    /\ grants = Cardinality(issued)

LEMMA MarkerDrawn ==
  ASSUME MaxTokens < IdSpace, TypeOK, DrawnInv, NEW m \in Markers,
         SubscribeStart(m) \/ MarkStart(m) \/ MarkerStep(m)
  PROVE  DrawnInv'
<1>t. /\ next_id \in Nat \ {0} /\ arg \in [Markers -> Tokens] /\ issued \subseteq Tokens
      /\ pc \in [Markers \union Waiters -> MarkerPCs \union WaiterPCs] /\ m \in Markers \union Waiters
      /\ MaxTokens \in Nat /\ IdSpace \in Nat
  BY IdSpaceAssumption, MaxTokensAssumption DEF TypeOK
<1>1. CASE SubscribeStart(m)
  <2>1. next_id <= MaxTokens /\ next_id' = next_id + 1 BY <1>1 DEF SubscribeStart
  <2>2. Token(next_id) = next_id
    <3>1. next_id \in Nat /\ next_id < IdSpace BY <1>t, <2>1
    <3> QED BY <1>t, <3>1 DEF Token
  <2>3. /\ arg' = [arg EXCEPT ![m] = next_id] /\ issued' = issued /\ grants' = grants
        /\ pc' = [pc EXCEPT ![m] = "sub_lock"]
    BY <1>1, <2>2 DEF SubscribeStart, Goto, histVars
  <2>4. \A n \in Markers : n # m => arg'[n] = arg[n] /\ (Drawn(n)' <=> Drawn(n))
    BY <1>t, <2>3 DEF Drawn
  <2>5. arg'[m] = next_id BY <1>t, <2>3
  <2>6. next_id \notin issued /\ \A n \in Markers : Drawn(n) => arg[n] # next_id
    BY <1>t DEF DrawnInv
  <2>7. next_id' <= MaxTokens + 1 /\ issued' \subseteq 1 .. (next_id' - 1)
    BY <1>t, <2>1, <2>3 DEF DrawnInv
  <2>8. ASSUME NEW n \in Markers, Drawn(n)'
        PROVE  arg'[n] \in 1 .. (next_id' - 1) /\ arg'[n] \notin issued'
    <3>1. CASE n = m BY <1>t, <2>1, <2>3, <2>5, <2>6, <3>1
    <3>2. CASE n # m
      <4>1. arg[n] \in 1 .. (next_id - 1) /\ arg[n] \notin issued BY <2>4, <2>8, <3>2 DEF DrawnInv
      <4> QED BY <1>t, <2>1, <2>3, <2>4, <3>2, <4>1
    <3> QED BY <3>1, <3>2
  <2>9. ASSUME NEW n \in Markers, NEW k \in Markers, Drawn(n)', Drawn(k)', arg'[n] = arg'[k]
        PROVE  n = k
    <3>1. CASE n = m \/ k = m BY <2>4, <2>5, <2>6, <2>9, <3>1
    <3>2. CASE n # m /\ k # m BY <2>4, <2>9, <3>2 DEF DrawnInv
    <3> QED BY <3>1, <3>2
  <2> QED BY <2>3, <2>7, <2>8, <2>9 DEF DrawnInv
<1>2. CASE SubscribeInsert(m) /\ ~ready
  <2>1. /\ pc[m] = "sub_in" /\ pc' = [pc EXCEPT ![m] = "idle"] /\ arg' = arg /\ next_id' = next_id
        /\ issued' = issued \union {arg[m]} /\ grants' = grants + 1
    BY <1>2 DEF SubscribeInsert, Goto
  <2>2. Drawn(m) BY <2>1 DEF Drawn
  <2>3. arg[m] \in 1 .. (next_id - 1) /\ arg[m] \notin issued BY <2>2 DEF DrawnInv
  <2>4. IsFiniteSet(issued') /\ Cardinality(issued') = Cardinality(issued) + 1
    BY <2>1, <2>3, FS_AddElement DEF DrawnInv
  <2>5. \A n \in Markers : Drawn(n)' => n # m /\ Drawn(n) BY <1>t, <2>1 DEF Drawn
  <2>6. \A n \in Markers : Drawn(n)' => arg[n] # arg[m] BY <2>2, <2>5 DEF DrawnInv
  <2> QED BY <2>1, <2>3, <2>4, <2>5, <2>6 DEF DrawnInv
<1>3. CASE ~SubscribeStart(m) /\ ~(SubscribeInsert(m) /\ ~ready)
  <2>1. UNCHANGED <<next_id, issued, grants>>
    BY <1>3 DEF MarkStart, MarkerStep, SubscribeInsert, SubscribeLock, MarkLock, LockTokens, LockTimeout,
         MarkRefuse, MarkStore, MarkClear, MarkSend, flagVars, histVars
  <2>2. \A n \in Markers : Drawn(n)' => Drawn(n) /\ arg'[n] = arg[n]
    BY <1>3, <1>t DEF MarkStart, MarkerStep, SubscribeInsert, SubscribeLock, MarkLock, LockTokens,
         LockTimeout, MarkRefuse, MarkStore, MarkClear, MarkSend, Goto, Drawn
  <2> QED BY <2>1, <2>2 DEF DrawnInv
<1> QED BY <1>1, <1>2, <1>3

\* Whatever the interleaving of the calls, subscribe never returns the same token
\* twice before the i32 behind the counter wraps.
THEOREM TokensNeverRepeat == Spec => []TokensUnique
<1>1. CASE MaxTokens < IdSpace
  <2>1. Init => DrawnInv
    <3> SUFFICES ASSUME Init PROVE DrawnInv OBVIOUS
    <3>1. next_id = 1 /\ issued = {} /\ grants = 0 /\ \A m \in Markers : pc[m] = "idle"
      BY DEF Init
    <3> QED BY <3>1, MaxTokensAssumption, FS_EmptySet DEF DrawnInv, Drawn
  <2>2. TypeOK /\ DrawnInv /\ [Next]_vars => DrawnInv'
    <3> SUFFICES ASSUME TypeOK, DrawnInv, [Next]_vars PROVE DrawnInv' OBVIOUS
    <3>1. CASE \E m \in Markers : SubscribeStart(m) \/ MarkStart(m) \/ MarkerStep(m)
      BY <1>1, <3>1, MarkerDrawn
    <3>2. ASSUME NEW w \in Waiters, WaitStart(w) \/ WaiterStep(w) PROVE DrawnInv'
      <4>1. /\ UNCHANGED <<next_id, issued, grants, arg>>
            /\ \A m \in Markers : pc'[m] = pc[m]
        BY <3>2, TasksAssumption
           DEF TypeOK, WaitStart, WaiterStep, WaitSubscribe, WaitBorrow, WaitChanged, WaitReturn,
               Goto, flagVars, histVars
      <4> QED BY <4>1 DEF DrawnInv, Drawn
    <3>3. CASE UNCHANGED vars BY <3>3 DEF vars, flagVars, histVars, DrawnInv, Drawn
    <3> QED BY <3>1, <3>2, <3>3 DEF Next
  <2>3. DrawnInv => TokensUnique BY DEF DrawnInv, TokensUnique
  <2> QED BY <2>1, <2>2, <2>3, TypeCorrect, PTL DEF Spec
<1>2. CASE ~(MaxTokens < IdSpace)
  <2>1. TokensUnique BY <1>2 DEF TokensUnique
  <2> QED BY <2>1, PTL
<1> QED BY <1>1, <1>2

-----------------------------------------------------------------------------
(* The broadcast and the waiters. *)

\* Whoever looked at the channel or sleeps on it has a receiver, which send notifies.
WatchInv ==
    /\ SleepersReached
    /\ \A w \in Waiters : pc[w] \in {"wait_borrow", "wait_changed"} => w \in rx

LEMMA MarkerWatch ==
  ASSUME FlagInv, WatchInv, NEW m \in Markers, SubscribeStart(m) \/ MarkStart(m) \/ MarkerStep(m)
  PROVE  WatchInv'
<1>t. TypeOK /\ pc \in [Markers \union Waiters -> MarkerPCs \union WaiterPCs] /\ m \in Markers \union Waiters
  BY DEF FlagInv, TypeOK
<1>w. \A w \in Waiters : pc'[w] = pc[w]
  BY <1>t, TasksAssumption
     DEF SubscribeStart, MarkStart, MarkerStep, SubscribeLock, SubscribeInsert, MarkLock, LockTokens, LockTimeout,
         MarkRefuse, MarkStore, MarkClear, MarkSend, Goto
<1>1. CASE MarkSend(m)
  <2>1. wins' = 1 /\ rx' = rx /\ (UNCHANGED <<sent, unseen>> \/ unseen' = rx)
    <3>1. wins = 0
      BY <1>1 DEF FlagInv, WinnerInv, Winning, MarkSend
    <3> QED BY <1>1, <3>1 DEF MarkSend, WatchSend, watchVars
  <2> QED BY <1>w, <2>1 DEF WatchInv, SleepersReached
<1>2. CASE MarkStore(m) \/ MarkClear(m)
  <2>1. pc'[m] \in {"mark_clear", "mark_send"} /\ UNCHANGED watchVars
    BY <1>2, <1>t DEF MarkStore, MarkClear, Goto
  <2> QED BY <1>w, <2>1 DEF WatchInv, SleepersReached, watchVars
<1>3. CASE ~MarkSend(m) /\ ~MarkStore(m) /\ ~MarkClear(m)
  <2>1. /\ UNCHANGED watchVars /\ UNCHANGED <<ready, wins>>
        /\ pc[m] \notin {"mark_clear", "mark_send"} /\ \A n \in Markers : n # m => pc'[n] = pc[n]
    BY <1>3, <1>t
       DEF SubscribeStart, MarkStart, MarkerStep, SubscribeLock, SubscribeInsert, MarkLock, LockTokens, LockTimeout,
           MarkRefuse, Goto, flagVars, histVars
  <2> QED BY <1>w, <2>1 DEF WatchInv, SleepersReached, watchVars
<1> QED BY <1>1, <1>2, <1>3

LEMMA WaiterWatch ==
  ASSUME FlagInv, WatchInv, NEW w \in Waiters, WaitStart(w) \/ WaiterStep(w)
  PROVE  WatchInv'
<1>t. TypeOK /\ pc \in [Markers \union Waiters -> MarkerPCs \union WaiterPCs] /\ w \in Markers \union Waiters
  BY DEF FlagInv, TypeOK
<1>1. /\ UNCHANGED <<ready, wins, sent>>
      /\ \A t \in Markers \union Waiters : t # w => pc'[t] = pc[t]
      /\ \A v \in Waiters : v # w => (v \in rx' <=> v \in rx) /\ (v \in unseen' <=> v \in unseen)
  BY <1>t DEF WaitStart, WaiterStep, WaitSubscribe, WaitBorrow, WaitChanged, WaitReturn, Goto, flagVars, histVars
<1>2. /\ pc'[w] = "wait_changed" => ~sent /\ w \in rx'
      /\ pc'[w] = "wait_borrow" => w \in rx'
  BY <1>t DEF WaitStart, WaiterStep, WaitSubscribe, WaitBorrow, WaitChanged, WaitReturn, Goto, WatchInv
<1>3. \A m \in Markers : m # w
  BY TasksAssumption
<1>4. ready' => wins' = 1 \/ \E m \in Markers : pc'[m] \in {"mark_clear", "mark_send"}
  BY <1>1, <1>3 DEF WatchInv, SleepersReached
<1>5. sent' => \A v \in Waiters : pc'[v] = "wait_changed" => v \in unseen'
  BY <1>1, <1>2 DEF WatchInv, SleepersReached
<1>6. \A v \in Waiters : pc'[v] \in {"wait_borrow", "wait_changed"} => v \in rx'
  BY <1>1, <1>2 DEF WatchInv
<1> QED BY <1>4, <1>5, <1>6 DEF WatchInv, SleepersReached

\* Once the flag is up, the winner of mark_ready is still to broadcast or has returned,
\* and a broadcast that was stored is pending for everybody who sleeps in wait_ready,
\* for any number of tasks.
THEOREM BroadcastReachesSleepers == Spec => []SleepersReached
<1>1. Init => WatchInv
  BY DEF Init, WatchInv, SleepersReached
<1>2. FlagInv /\ WatchInv /\ [Next]_vars => WatchInv'
  <2> SUFFICES ASSUME FlagInv, WatchInv, [Next]_vars PROVE WatchInv'
    OBVIOUS
  <2>1. CASE UNCHANGED vars
    BY <2>1 DEF vars, flagVars, watchVars, histVars, WatchInv, SleepersReached
  <2> QED BY <2>1, MarkerWatch, WaiterWatch DEF Next
<1>3. WatchInv => SleepersReached
  BY DEF WatchInv
<1> QED BY <1>1, <1>2, <1>3, FlagInvariant, PTL DEF Spec
=============================================================================
