----------------------------- MODULE Readiness -----------------------------
(***************************************************************************)
(* What the Readiness trait of utils/readiness promises, with every call   *)
(* of the trait a single atomic step: a one-way flag that only the holder  *)
(* of a subscribed token can raise, once, and that a waiter never outruns. *)
(* ReadinessFlag is shown to implement this specification.                 *)
(***************************************************************************)
CONSTANTS Tokens,     \* every value a Token can have
          Waiters     \* the tasks that call wait_ready

VARIABLES flag,       \* what is_ready returns
          valid,      \* tokens that mark_ready would accept now
          released    \* waiters that have returned from a wait_ready call

absVars == <<flag, valid, released>>

AbsInit ==
    /\ flag = FALSE
    /\ valid = {}
    /\ released = {}

\* subscribe: a token becomes valid, only while the flag is down.
AbsSubscribe(k) ==
    /\ ~flag
    /\ valid' = valid \union {k}
    /\ UNCHANGED <<flag, released>>

\* mark_ready returning true: the token was valid; all tokens expire with it.
AbsMarkReady(k) ==
    /\ ~flag
    /\ k \in valid
    /\ flag' = TRUE
    /\ valid' = {}
    /\ UNCHANGED released

\* wait_ready returning: the flag is up.
AbsWaitReady(w) ==
    /\ flag
    /\ released' = released \union {w}
    /\ UNCHANGED <<flag, valid>>

AbsNext ==
    \/ \E k \in Tokens : AbsSubscribe(k) \/ AbsMarkReady(k)
    \/ \E w \in Waiters : AbsWaitReady(w)

AbsSpec == AbsInit /\ [][AbsNext]_absVars
=============================================================================
