---------------------------- MODULE FixedWindow ----------------------------
(***************************************************************************)
(* What a limiter of calls promises, whatever store it counts in: the      *)
(* calls about a key fall into windows, a window lets at most Limit calls  *)
(* through, and only the end of the window makes room again.  Both         *)
(* implementations of auth.RateLimiter, one critical section in memory and *)
(* two commands in Redis, are shown to implement it (module RateLimiter).  *)
(***************************************************************************)
EXTENDS Naturals

CONSTANTS
    Keys,     \* what calls are counted by
    Limit(_)  \* calls a window of a key lets through

VARIABLES
    open,     \* keys with an open window
    allowed   \* calls the open window of a key has let through

vars == <<open, allowed>>

Init ==
    /\ open = {}
    /\ allowed = [k \in Keys |-> 0]

\* A call is let through, in the open window or in one that it opens.
Allow(k) ==
    /\ allowed[k] < Limit(k)
    /\ allowed' = [allowed EXCEPT ![k] = @ + 1]
    /\ open' = open \cup {k}

\* A call opens a window and is not answered, or not yet.
Open(k) ==
    /\ k \notin open
    /\ open' = open \cup {k}
    /\ UNCHANGED allowed

\* Windows end.
Close(over) ==
    /\ over \subseteq open
    /\ open' = open \ over
    /\ allowed' = [k \in Keys |-> IF k \in over THEN 0 ELSE allowed[k]]

Next ==
    \/ \E k \in Keys : Allow(k) \/ Open(k)
    \/ \E over \in SUBSET open : Close(over)

Spec == Init /\ [][Next]_vars

\* The promise: no window lets more calls through than the limit, and without a window
\* nothing has been let through.
WithinLimit ==
    \A k \in Keys : allowed[k] <= Limit(k) /\ (allowed[k] > 0 => k \in open)
=============================================================================
