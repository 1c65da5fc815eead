---------------------------- MODULE RateLimiter ----------------------------
(***************************************************************************)
(* The limit on OTP requests: enforceRateLimit of auth/http/handler.go     *)
(* asks a RateLimiter about the client's address and then about the        *)
(* mobile, and the limiter counts calls in fixed windows: in one critical  *)
(* section in memory (cache/memory/stores.go), with INCR and EXPIRE as two *)
(* calls in Redis (cache/redis/rate_limiter.go).                           *)
(*                                                                         *)
(* Time is relative: a window has some ticks left, so runs have no last    *)
(* moment.  Only count <= Limit and count = 1 are ever tested, so a count  *)
(* saturates one above the limit.                                          *)
(***************************************************************************)
EXTENDS Naturals

CONSTANTS
    Procs,        \* request slots
    IPs,          \* client addresses
    Mobiles,      \* mobiles after normalisation
    Limit(_),     \* limit of calls for an address or a mobile, 0 for no limit
    Window,       \* ticks a window lasts
    Faults,       \* do calls to Redis fail and requests end early
    None

Keys == IPs \cup Mobiles

ASSUME RateLimiterAssumption ==
    /\ \A k \in Keys : Limit(k) \in Nat
    /\ Window \in Nat \ {0}
    /\ Faults \in BOOLEAN
    /\ None \notin Nat \cup Keys
    /\ IPs \cap Mobiles = {}

VARIABLES
    backend,  \* the limiter that main built at start, "memory" or "redis"
    count,    \* calls counted in the open window of a key, 0 when none is open
    left,     \* ticks the window has left, None when its key has no time to live
    pc,       \* next step of each request
    key,      \* the key a request asks about
    ask,      \* the mobile it asks about after its address
    granted,  \* history: calls allowed in the open window
    recent,   \* history: calls allowed in the last 1, 2, ..., Window ticks, by the oldest's age
    cut       \* history: keys with a call that the open window counted and no answer to it

vars == <<backend, count, left, pc, key, ask, granted, recent, cut>>

Steps == {"idle", "count", "expire", "next", "handle"}

Ages == 0 .. Window - 1

TypeOK ==
    /\ backend \in {"memory", "redis"}
    /\ count \in [Keys -> Nat]
    /\ \A k \in Keys : count[k] <= Limit(k) + 1
    /\ left \in [Keys -> 0..Window \cup {None}]
    /\ pc \in [Procs -> Steps]
    /\ key \in [Procs -> Keys \cup {None}]
    /\ ask \in [Procs -> Mobiles \cup {None}]
    /\ granted \in [Keys -> Nat]
    /\ recent \in [Keys -> [Ages -> Nat]]
    /\ cut \subseteq Keys

Init ==
    /\ backend \in {"memory", "redis"}
    /\ count = [k \in Keys |-> 0]
    /\ left = [k \in Keys |-> 0]
    /\ pc = [p \in Procs |-> "idle"]
    /\ key = [p \in Procs |-> None]
    /\ ask = [p \in Procs |-> None]
    /\ granted = [k \in Keys |-> 0]
    /\ recent = [k \in Keys |-> [a \in Ages |-> 0]]
    /\ cut = {}

Goto(p, s) == pc' = [pc EXCEPT ![p] = s] /\ UNCHANGED <<key, ask>>

Return(p) ==
    /\ pc' = [pc EXCEPT ![p] = "idle"]
    /\ key' = [key EXCEPT ![p] = None]
    /\ ask' = [ask EXCEPT ![p] = None]

\* The call about k is allowed: history.
Grant(k) ==
    /\ granted' = [granted EXCEPT ![k] = @ + 1]
    /\ recent' = [recent EXCEPT ![k] = [a \in Ages |-> recent[k][a] + 1]]

----------------------------------------------------------------------------
(***************************************************************************)
(* enforceRateLimit: first the address, then the mobile if it is one.      *)
(***************************************************************************)
EnforceRateLimit(p) ==
    /\ pc[p] = "idle"
    /\ \E i \in IPs, m \in Mobiles \cup {None} :
          /\ key' = [key EXCEPT ![p] = i]
          /\ ask' = [ask EXCEPT ![p] = m]
    /\ pc' = [pc EXCEPT ![p] = "count"]
    /\ UNCHANGED <<backend, count, left, granted, recent, cut>>

\* A rule without a limit allows the call and counts nothing.
AllowUnlimited(p) ==
    /\ pc[p] = "count"
    /\ Limit(key[p]) = 0
    /\ Goto(p, "next")
    /\ UNCHANGED <<backend, count, left, granted, recent, cut>>

\* Mutants of Within: the limit is off by one, either way.
WithinOneMore(k, n) == n <= Limit(k) + 1
WithinOneLess(k, n) == n < Limit(k)

\* Is the n-th call of a window of k allowed?
Within(k, n) == n <= Limit(k)

\* Mutants of Opened: every call starts the window anew; a window is one tick too long.
OpenedAlways(k) == Window
OpenedTooLong(k) == IF count[k] = 0 THEN Window + 1 ELSE left[k]

\* The window a call finds: the one open, or a new one with all its ticks left.
Opened(k) == IF count[k] = 0 THEN Window ELSE left[k]

Counted(k) == IF count[k] <= Limit(k) THEN count[k] + 1 ELSE count[k]

\* Allow in memory: window and count under one lock.  The code reads the clock just before
\* it waits for the lock; no tick falls between the two here.
AllowMemory(p) ==
    LET k == key[p]
    IN  /\ pc[p] = "count" /\ backend = "memory" /\ Limit(k) > 0
        /\ count' = [count EXCEPT ![k] = Counted(k)]
        /\ left' = [left EXCEPT ![k] = Opened(k)]
        /\ IF Within(k, Counted(k))
           THEN Goto(p, "next") /\ Grant(k)
           ELSE Return(p) /\ UNCHANGED <<granted, recent>>
        /\ UNCHANGED <<backend, cut>>

\* INCR creates the key without a time to live.
Incr(p) ==
    LET k == key[p]
    IN  /\ pc[p] = "count" /\ backend = "redis" /\ Limit(k) > 0
        /\ count' = [count EXCEPT ![k] = Counted(k)]
        /\ IF count[k] = 0
           THEN /\ left' = [left EXCEPT ![k] = None]
                /\ Goto(p, "expire")
                /\ UNCHANGED <<granted, recent>>
           ELSE /\ UNCHANGED left
                /\ IF Within(k, Counted(k))
                   THEN Goto(p, "next") /\ Grant(k)
                   ELSE Return(p) /\ UNCHANGED <<granted, recent>>
        /\ UNCHANGED <<backend, cut>>

\* INCR takes effect and its answer is lost.  The client sends it again on its own, as
\* redis/client.go leaves its retries on, and then counts the call twice; or the call fails.
IncrUnanswered(p) ==
    LET k == key[p]
    IN  /\ pc[p] = "count" /\ backend = "redis" /\ Limit(k) > 0 /\ Faults
        /\ count' = [count EXCEPT ![k] = Counted(k)]
        /\ left' = IF count[k] = 0 THEN [left EXCEPT ![k] = None] ELSE left
        /\ cut' = cut \cup {k}
        /\ Return(p) \/ UNCHANGED <<pc, key, ask>>
        /\ UNCHANGED <<backend, granted, recent>>

\* Mutant of SetExpiry: the time to live is forgotten.
SetExpiryForgotten(p) ==
    /\ pc[p] = "expire"
    /\ Goto(p, "next")
    /\ Grant(key[p])
    /\ UNCHANGED <<backend, count, left, cut>>

\* Mutant of SetExpiry: the key is set anew with its time to live, which forgets the calls
\* that others have counted since.
SetExpiryBySet(p) ==
    /\ pc[p] = "expire"
    /\ count' = [count EXCEPT ![key[p]] = 1]
    /\ left' = [left EXCEPT ![key[p]] = Window]
    /\ Goto(p, "next") /\ Grant(key[p])
    /\ UNCHANGED <<backend, cut>>

\* EXPIRE by the call that counted to one, which is then allowed, unless the answer of
\* EXPIRE is lost.  Sent again within the same tick, it sets the same end.
SetExpiry(p) ==
    /\ pc[p] = "expire"
    /\ left' = [left EXCEPT ![key[p]] = Window]
    /\ \/ Goto(p, "next") /\ Grant(key[p]) /\ UNCHANGED cut
       \/ /\ Faults
          /\ cut' = cut \cup {key[p]}
          /\ Return(p)
          /\ UNCHANGED <<granted, recent>>
    /\ UNCHANGED <<backend, count>>

\* The address is allowed: the mobile is asked about, or the request is handled.
AskMobile(p) ==
    /\ pc[p] = "next"
    /\ IF ask[p] = None
       THEN Goto(p, "handle")
       ELSE /\ pc' = [pc EXCEPT ![p] = "count"]
            /\ key' = [key EXCEPT ![p] = ask[p]]
            /\ ask' = [ask EXCEPT ![p] = None]
    /\ UNCHANGED <<backend, count, left, granted, recent, cut>>

Handled(p) ==
    /\ pc[p] = "handle"
    /\ Return(p)
    /\ UNCHANGED <<backend, count, left, granted, recent, cut>>

----------------------------------------------------------------------------
(***************************************************************************)
(* The clock and failures.  In memory a window is over when its end has    *)
(* passed; Redis drops the key when its time to live is over.              *)
(***************************************************************************)
LastTick == IF backend = "memory" THEN 0 ELSE 1

Ends(k) == count[k] > 0 /\ left[k] = LastTick

Tick ==
    /\ count' = [k \in Keys |-> IF Ends(k) THEN 0 ELSE count[k]]
    /\ left' = [k \in Keys |-> IF Ends(k) THEN 0
                               ELSE IF count[k] = 0 \/ left[k] = None THEN left[k]
                               ELSE left[k] - 1]
    /\ granted' = [k \in Keys |-> IF Ends(k) THEN 0 ELSE granted[k]]
    /\ recent' = [k \in Keys |-> [a \in Ages |-> IF a = 0 THEN 0 ELSE recent[k][a - 1]]]
    /\ cut' = {k \in cut : ~Ends(k)}
    /\ UNCHANGED <<backend, pc, key, ask>>

\* A call to Redis fails or the request is cut off.
Abort(p) ==
    /\ Faults
    /\ pc[p] # "idle"
    /\ cut' = IF pc[p] = "expire" THEN cut \cup {key[p]} ELSE cut
    /\ Return(p)
    /\ UNCHANGED <<backend, count, left, granted, recent>>

Continue(p) ==
    AllowUnlimited(p) \/ AllowMemory(p) \/ Incr(p) \/ SetExpiry(p) \/ AskMobile(p) \/ Handled(p)

Next ==
    \/ \E p \in Procs : EnforceRateLimit(p) \/ Continue(p) \/ IncrUnanswered(p) \/ Abort(p)
    \/ Tick

Spec == Init /\ [][Next]_vars

\* Time goes on, and a request that has started makes its calls.
Fairness == WF_vars(Tick) /\ \A p \in Procs : WF_vars(Continue(p))

FairSpec == Spec /\ Fairness

----------------------------------------------------------------------------
(***************************************************************************)
(* Properties.                                                             *)
(***************************************************************************)

\* Over any Window ticks, wherever they begin, at most twice the limit of calls are
\* allowed: windows neither overlap nor follow each other faster than they last, also
\* when the time to live is set late or never.
RollingLimit ==
    \A k \in Keys : Limit(k) > 0 => recent[k][Window - 1] <= 2 * Limit(k)

\* A key that is refused has had its limit of calls allowed in this very window, or one
\* of them got no answer after it was counted or is still waiting for its EXPIRE.
RefusedOnlyWhenSpent ==
    \A k \in Keys : count[k] > Limit(k) =>
        \/ granted[k] = Limit(k)
        \/ k \in cut
        \/ \E p \in Procs : pc[p] = "expire" /\ key[p] = k

\* A window without an end is that of a key whose first call is just about to set it, or
\* got no further than INCR.
EndlessOnlyWhenCut ==
    \A k \in Keys : left[k] = None =>
        k \in cut \/ \E p \in Procs : pc[p] = "expire" /\ key[p] = k

\* Both limiters implement fixed windows, where counting a call and giving the window its
\* end are one step: a window lets at most its limit of calls through and makes room only
\* by ending, also when calls interleave between INCR and EXPIRE or lose their answers.
Windows ==
    INSTANCE FixedWindow WITH open <- {k \in Keys : count[k] > 0}, allowed <- granted

ImplementsFixedWindow == Windows!Spec

\* Every window ends, so that a key that is refused is allowed again, unless a call of the
\* window got no answer: in memory always, in Redis as long as INCR is followed by EXPIRE.
EveryWindowEnds ==
    \A k \in Keys : count[k] > 0 ~> count[k] = 0 \/ k \in cut
=============================================================================
