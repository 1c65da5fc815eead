------------------------ MODULE RateLimiterProofs ------------------------
(***************************************************************************)
(* Theorems about RateLimiter for any limits and windows, any number of    *)
(* requests and keys, both limiters, with and without faults.              *)
(*                                                                         *)
(* The inductive invariant ties the history of allowed calls to the count: *)
(* while no call has lost its answer, the calls allowed in the open window *)
(* are the calls it counted, cut at the limit, less the one that is about  *)
(* to send its EXPIRE; that one is alone, and its key cannot expire.       *)
(* From the bound on a window follow the refinement of FixedWindow and the *)
(* bound on the calls of any Window ticks in a row, which meet two windows *)
(* at most.                                                                *)
(***************************************************************************)
EXTENDS RateLimiter, Integers, TLAPS

DataType ==
    /\ backend \in {"memory", "redis"}
    /\ count \in [Keys -> Nat]
    /\ left \in [Keys -> 0..Window \cup {None}]
    /\ granted \in [Keys -> Nat]
    /\ recent \in [Keys -> [Ages -> Nat]]
    /\ cut \subseteq Keys

CountBounded == \A k \in Keys : count[k] <= Limit(k) + 1

LocalType ==
    /\ pc \in [Procs -> Steps]
    /\ key \in [Procs -> Keys \cup {None}]
    /\ ask \in [Procs -> Mobiles \cup {None}]

\* An open window that has an end has not reached it.
Timed == \A k \in Keys : count[k] > 0 /\ left[k] # None => left[k] >= LastTick

\* A request that counts has a key.
KeyGiven == \A p \in Procs : pc[p] \in {"count", "expire"} => key[p] \in Keys

Unlimited == \A k \in Keys : Limit(k) = 0 => count[k] = 0

\* The request p is about to send the EXPIRE of k.
Expiring(p, k) == pc[p] = "expire" /\ key[p] = k

Pending(k) == \E p \in Procs : Expiring(p, k)

\* A key whose EXPIRE is about to be sent has been counted and has no end.
PendingOpen ==
    \A p \in Procs, k \in Keys : Expiring(p, k) => left[k] = None /\ count[k] > 0 /\ Limit(k) > 0

PendingAlone ==
    \A p, q \in Procs, k \in Keys : Expiring(p, k) /\ Expiring(q, k) => p = q

Endless ==
    \A k \in Keys : left[k] = None => count[k] > 0 /\ (k \in cut \/ Pending(k))

Spent(k) == IF count[k] <= Limit(k) THEN count[k] ELSE Limit(k)

GrantedMatches ==
    \A k \in Keys : k \notin cut => Spent(k) = granted[k] + (IF Pending(k) THEN 1 ELSE 0)

IInv ==
    /\ DataType /\ CountBounded /\ Timed /\ LocalType /\ KeyGiven /\ Unlimited
    /\ PendingOpen /\ PendingAlone /\ Endless /\ GrantedMatches

LEMMA LimitNat == \A k \in Keys : Limit(k) \in Nat
  BY RateLimiterAssumption

LEMMA InvInit == Init => IInv
  <1> SUFFICES ASSUME Init PROVE IInv
    OBVIOUS
  <1>1. DataType /\ CountBounded /\ Timed /\ LocalType /\ Unlimited
    BY LimitNat, RateLimiterAssumption
    DEF Init, DataType, CountBounded, Timed, LocalType, Unlimited, Steps
  <1>2. \A p \in Procs, k \in Keys : ~Expiring(p, k)
    BY DEF Init, Expiring
  <1>3. KeyGiven /\ PendingOpen /\ PendingAlone
    BY <1>2 DEF Init, KeyGiven, PendingOpen, PendingAlone
  <1>4. Endless
    BY RateLimiterAssumption DEF Init, Endless
  <1>5. GrantedMatches
    BY <1>2, LimitNat DEF Init, GrantedMatches, Spent, Pending
  <1> QED BY <1>1, <1>3, <1>4, <1>5 DEF IInv

\* A step that counts nothing: a request that sends no EXPIRE before or after goes on,
\* or one about to send it is cut off.
LEMMA QuietStep ==
    ASSUME IInv, NEW p \in Procs, LocalType', KeyGiven',
           \A q \in Procs \ {p} : pc'[q] = pc[q] /\ key'[q] = key[q],
           pc'[p] # "expire",
           cut' = IF pc[p] = "expire" THEN cut \cup {key[p]} ELSE cut,
           UNCHANGED <<backend, count, left, granted, recent>>
    PROVE  IInv'
  <1>1. DataType' /\ CountBounded' /\ Timed' /\ Unlimited'
    BY DEF IInv, DataType, CountBounded, Timed, LastTick, Unlimited, KeyGiven
  <1>2. \A q \in Procs, k \in Keys : Expiring(q, k)' <=> q # p /\ Expiring(q, k)
    BY DEF Expiring
  <1>3. PendingOpen' /\ PendingAlone'
    BY <1>2 DEF IInv, PendingOpen, PendingAlone
  <1>4. \A k \in Keys : k \notin cut' => (Pending(k)' <=> Pending(k))
    BY <1>2 DEF Pending, Expiring
  <1>5. Endless'
    BY <1>4 DEF IInv, Endless
  <1>6. GrantedMatches'
    BY <1>4 DEF IInv, GrantedMatches, Spent
  <1> QED BY <1>1, <1>3, <1>5, <1>6 DEF IInv

\* The steps of a request that neither count nor set a time to live.
LEMMA QuietKeeps ==
    ASSUME IInv, NEW p \in Procs,
           EnforceRateLimit(p) \/ AllowUnlimited(p) \/ AskMobile(p) \/ Handled(p) \/ Abort(p)
    PROVE  IInv'
  <1>1. LocalType'
    <2>1. CASE EnforceRateLimit(p)
      BY <2>1 DEF EnforceRateLimit, IInv, LocalType, Steps, Keys
    <2>2. CASE AllowUnlimited(p)
      BY <2>2 DEF AllowUnlimited, Goto, IInv, LocalType, Steps
    <2>3. CASE AskMobile(p)
      BY <2>3 DEF AskMobile, Goto, IInv, LocalType, Steps, Keys
    <2>4. CASE Handled(p) \/ Abort(p)
      BY <2>4 DEF Handled, Abort, Return, IInv, LocalType, Steps
    <2> QED BY <2>1, <2>2, <2>3, <2>4
  <1>2. \A q \in Procs \ {p} : pc'[q] = pc[q] /\ key'[q] = key[q]
    BY DEF EnforceRateLimit, AllowUnlimited, AskMobile, Handled, Abort, Goto, Return, IInv,
           LocalType
  <1>3. pc'[p] \notin {"count", "expire"} \/ (pc'[p] = "count" /\ key'[p] \in Keys)
    <2>1. CASE EnforceRateLimit(p)
      BY <2>1 DEF EnforceRateLimit, IInv, LocalType, Keys
    <2>2. CASE AllowUnlimited(p)
      BY <2>2 DEF AllowUnlimited, Goto, IInv, LocalType
    <2>3. CASE AskMobile(p)
      BY <2>3 DEF AskMobile, Goto, IInv, LocalType, Keys
    <2>4. CASE Handled(p) \/ Abort(p)
      BY <2>4 DEF Handled, Abort, Return, IInv, LocalType
    <2> QED BY <2>1, <2>2, <2>3, <2>4
  <1>4. KeyGiven'
    BY <1>2, <1>3 DEF IInv, KeyGiven
  <1>5. cut' = IF pc[p] = "expire" THEN cut \cup {key[p]} ELSE cut
    BY DEF EnforceRateLimit, AllowUnlimited, AskMobile, Handled, Abort
  <1>6. UNCHANGED <<backend, count, left, granted, recent>>
    BY DEF EnforceRateLimit, AllowUnlimited, AskMobile, Handled, Abort
  <1> QED BY <1>1, <1>2, <1>3, <1>4, <1>5, <1>6, QuietStep

\* What an allowed call does to the history.
LEMMA GrantGives ==
    ASSUME DataType, NEW k \in Keys, Grant(k)
    PROVE  /\ granted' \in [Keys -> Nat] /\ recent' \in [Keys -> [Ages -> Nat]]
           /\ granted'[k] = granted[k] + 1
           /\ \A j \in Keys \ {k} : granted'[j] = granted[j]
  <1>1. recent[k] \in [Ages -> Nat]
    BY DEF DataType
  <1>2. [a \in Ages |-> recent[k][a] + 1] \in [Ages -> Nat]
    BY <1>1
  <1>3. recent' \in [Keys -> [Ages -> Nat]]
    BY <1>2 DEF DataType, Grant
  <1> QED BY <1>3 DEF DataType, Grant

\* What a request that goes on or returns does to its locals.
LEMMA GotoGives ==
    ASSUME LocalType, KeyGiven, NEW p \in Procs, NEW s \in Steps \ {"count", "expire"},
           Goto(p, s) \/ Return(p)
    PROVE  /\ LocalType' /\ KeyGiven'
           /\ pc'[p] # "expire"
           /\ \A q \in Procs \ {p} : pc'[q] = pc[q] /\ key'[q] = key[q]
  <1>1. CASE Goto(p, s)
    <2>1. LocalType'
      BY <1>1 DEF Goto, LocalType
    <2>2. pc'[p] = s /\ \A q \in Procs \ {p} : pc'[q] = pc[q] /\ key'[q] = key[q]
      BY <1>1 DEF Goto, LocalType
    <2> QED BY <2>1, <2>2 DEF KeyGiven
  <1>2. CASE Return(p)
    <2>1. LocalType'
      BY <1>2 DEF Return, LocalType, Steps
    <2>2. pc'[p] = "idle" /\ \A q \in Procs \ {p} : pc'[q] = pc[q] /\ key'[q] = key[q]
      BY <1>2 DEF Return, LocalType
    <2> QED BY <2>1, <2>2 DEF KeyGiven
  <1> QED BY <1>1, <1>2

\* Counting a call keeps the count in its bounds.
LEMMA CountedGives ==
    ASSUME DataType, CountBounded, NEW k \in Keys,
           count' = [count EXCEPT ![k] = Counted(k)]
    PROVE  /\ count' \in [Keys -> Nat] /\ CountBounded'
           /\ count'[k] = Counted(k) /\ Counted(k) > 0
           /\ \A j \in Keys \ {k} : count'[j] = count[j]
  <1>1. Counted(k) \in Nat /\ Counted(k) <= Limit(k) + 1 /\ Counted(k) > 0
    BY LimitNat DEF DataType, CountBounded, Counted
  <1> QED BY <1>1 DEF DataType, CountBounded

\* A call is counted in a window that is open or opens with an end, and is answered.
LEMMA CountedStep ==
    ASSUME IInv, NEW p \in Procs, pc[p] = "count", Limit(key[p]) > 0,
           count' = [count EXCEPT ![key[p]] = Counted(key[p])],
           \/ backend = "memory" /\ left' = [left EXCEPT ![key[p]] = Opened(key[p])]
           \/ count[key[p]] > 0 /\ UNCHANGED left,
           IF Within(key[p], Counted(key[p]))
           THEN Goto(p, "next") /\ Grant(key[p])
           ELSE Return(p) /\ UNCHANGED <<granted, recent>>,
           UNCHANGED <<backend, cut>>
    PROVE  IInv'
  <1>1. PICK k \in Keys : k = key[p]
    BY DEF IInv, KeyGiven
  <1>2. /\ count' \in [Keys -> Nat] /\ CountBounded'
        /\ count'[k] = Counted(k) /\ Counted(k) > 0
        /\ \A j \in Keys \ {k} : count'[j] = count[j]
    BY <1>1, CountedGives DEF IInv
  <1>3. /\ LocalType' /\ KeyGiven' /\ pc'[p] # "expire"
        /\ \A q \in Procs \ {p} : pc'[q] = pc[q] /\ key'[q] = key[q]
    BY GotoGives DEF IInv, Steps
  <1>4. \A q \in Procs, j \in Keys : Expiring(q, j)' <=> Expiring(q, j)
    BY <1>3 DEF Expiring
  <1>5. \A j \in Keys : Pending(j)' <=> Pending(j)
    BY <1>4 DEF Pending
  <1>6. left' \in [Keys -> 0..Window \cup {None}]
    <2>1. Opened(k) \in 0..Window \cup {None}
      BY <1>1, RateLimiterAssumption DEF IInv, DataType, Opened
    <2>2. left' = [left EXCEPT ![k] = Opened(k)] \/ left' = left
      BY <1>1
    <2> QED BY <2>1, <2>2 DEF IInv, DataType
  <1>7. \A j \in Keys \ {k} : left'[j] = left[j]
    BY <1>1 DEF IInv, DataType
  <1>8. left'[k] = None <=> count[k] > 0 /\ left[k] = None
    BY <1>1, RateLimiterAssumption DEF IInv, DataType, Opened, Endless
  <1>9. granted' \in [Keys -> Nat] /\ recent' \in [Keys -> [Ages -> Nat]]
    <2>1. CASE Grant(k)
      BY <1>1, <2>1, GrantGives DEF IInv
    <2>2. CASE UNCHANGED <<granted, recent>>
      BY <2>2 DEF IInv, DataType
    <2> QED BY <1>1, <2>1, <2>2
  <1>10. DataType'
    BY <1>2, <1>6, <1>9 DEF IInv, DataType
  <1>11. Unlimited' /\ Timed'
    <2>1. Unlimited'
      BY <1>1, <1>2 DEF IInv, Unlimited
    <2>2. \A j \in Keys \ {k} : count'[j] > 0 /\ left'[j] # None => left'[j] >= LastTick'
      BY <1>2, <1>7 DEF IInv, Timed, LastTick
    <2>3. \/ left'[k] = left[k] /\ count[k] > 0
          \/ left'[k] = Window
      BY <1>1 DEF IInv, DataType, Opened
    <2>4. left'[k] # None => left'[k] >= LastTick'
      BY <2>3, RateLimiterAssumption DEF LastTick, IInv, Timed
    <2> QED BY <2>1, <2>2, <2>4 DEF Timed
  <1>12. PendingOpen' /\ PendingAlone'
    BY <1>1, <1>2, <1>4, <1>7, <1>8 DEF IInv, PendingOpen, PendingAlone
  <1>13. Endless'
    BY <1>1, <1>2, <1>5, <1>7, <1>8 DEF IInv, Endless
  <1>14. GrantedMatches'
    <2> SUFFICES ASSUME NEW j \in Keys, j \notin cut'
        PROVE Spent(j)' = granted'[j] + (IF Pending(j)' THEN 1 ELSE 0)
      BY DEF GrantedMatches
    <2>1. Spent(j) = granted[j] + (IF Pending(j) THEN 1 ELSE 0)
      BY DEF IInv, GrantedMatches
    <2>2. CASE j # k
      <3>1. granted'[j] = granted[j]
        <4>1. CASE Grant(k)
          BY <1>1, <2>2, <4>1, GrantGives DEF IInv
        <4> QED BY <1>1, <4>1
      <3> QED BY <1>2, <1>5, <2>1, <2>2, <3>1 DEF Spent
    <2>3. CASE j = k
      <3>1. count[k] \in Nat /\ granted[k] \in Nat /\ Limit(k) \in Nat
        BY <1>1, LimitNat DEF IInv, DataType
      <3>2. CASE Within(k, Counted(k))
        <4>1. granted'[k] = granted[k] + 1
          BY <1>1, <3>2, GrantGives DEF IInv
        <4>2. count[k] < Limit(k) /\ count'[k] = count[k] + 1
          BY <1>2, <3>1, <3>2 DEF Within, Counted
        <4> QED BY <1>5, <2>1, <2>3, <3>1, <4>1, <4>2 DEF Spent
      <3>3. CASE ~Within(k, Counted(k))
        <4>1. granted'[k] = granted[k]
          BY <1>1, <3>3
        <4>2. count[k] >= Limit(k) /\ count'[k] > Limit(k)
          BY <1>2, <3>1, <3>3 DEF Within, Counted
        <4>3. Spent(k) = Limit(k) /\ Spent(k)' = Limit(k)
          BY <3>1, <4>2, <1>2 DEF Spent
        <4> QED BY <1>5, <2>1, <2>3, <4>1, <4>3
      <3> QED BY <3>2, <3>3
    <2> QED BY <2>2, <2>3
  <1> QED BY <1>2, <1>3, <1>10, <1>11, <1>12, <1>13, <1>14 DEF IInv

LEMMA AllowMemoryKeeps ==
    ASSUME IInv, NEW p \in Procs, AllowMemory(p)
    PROVE  IInv'
  BY CountedStep DEF AllowMemory

\* A call that opens a window in Redis waits for its EXPIRE, or loses its answer.
LEMMA OpenStep ==
    ASSUME IInv, NEW p \in Procs, NEW k \in Keys, k = key[p],
           pc[p] = "count", backend = "redis", Limit(k) > 0, count[k] = 0,
           count' = [count EXCEPT ![k] = Counted(k)],
           left' = [left EXCEPT ![k] = None],
           \/ Goto(p, "expire") /\ UNCHANGED cut
           \/ /\ Return(p) \/ UNCHANGED <<pc, key, ask>>
              /\ cut' = cut \cup {k},
           UNCHANGED <<backend, granted, recent>>
    PROVE  IInv'
  <1>1. /\ count' \in [Keys -> Nat] /\ CountBounded'
        /\ \A j \in Keys \ {k} : count'[j] = count[j]
    BY CountedGives DEF IInv
  <1>2. count'[k] = 1 /\ Limit(k) \in Nat
    BY LimitNat, <1>1 DEF IInv, DataType, Counted
  <1>3. left'[k] = None /\ \A j \in Keys \ {k} : left'[j] = left[j]
    BY DEF IInv, DataType
  <1>4. DataType'
    BY <1>1 DEF IInv, DataType
  <1>5. LocalType' /\ KeyGiven'
    BY DEF IInv, LocalType, KeyGiven, Goto, Return, Steps
  <1>6. \A q \in Procs, j \in Keys :
            q # p => (Expiring(q, j)' <=> Expiring(q, j))
    BY DEF Expiring, Goto, Return, IInv, LocalType
  <1>7. \A j \in Keys : Expiring(p, j)' => j = k
    BY DEF Expiring, Goto, Return, IInv, LocalType
  <1>8. \A j \in Keys : ~Expiring(p, j)
    BY DEF Expiring
  <1>9. \A q \in Procs : ~Expiring(q, k)
    BY DEF IInv, PendingOpen
  <1>10. Goto(p, "expire") => Expiring(p, k)'
    BY DEF Expiring, Goto, IInv, LocalType
  <1>11. \A j \in Keys \ {k} : Pending(j)' <=> Pending(j)
    BY <1>6, <1>7, <1>8 DEF Pending
  <1>12. ~Pending(k) /\ (Goto(p, "expire") => Pending(k)')
    BY <1>9, <1>10 DEF Pending
  <1>13. Unlimited' /\ Timed'
    BY <1>1, <1>3 DEF IInv, Unlimited, Timed, LastTick
  <1>14. PendingOpen' /\ PendingAlone'
    BY <1>1, <1>2, <1>3, <1>6, <1>7, <1>9 DEF IInv, PendingOpen, PendingAlone
  <1>15. Endless'
    BY <1>1, <1>2, <1>3, <1>11, <1>12 DEF IInv, Endless
  <1>16. GrantedMatches'
    <2> SUFFICES ASSUME NEW j \in Keys, j \notin cut'
        PROVE Spent(j)' = granted'[j] + (IF Pending(j)' THEN 1 ELSE 0)
      BY DEF GrantedMatches
    <2>1. Spent(j) = granted[j] + (IF Pending(j) THEN 1 ELSE 0)
      BY DEF IInv, GrantedMatches
    <2>2. CASE j # k
      BY <1>1, <1>11, <2>1, <2>2 DEF Spent
    <2>3. CASE j = k
      <3>1. Pending(k)' /\ ~Pending(k)
        BY <1>12, <2>3
      <3>2. granted[k] = 0 /\ granted[k] \in Nat
        BY <1>2, <2>1, <2>3, <3>1 DEF Spent, IInv, DataType
      <3>3. Spent(k)' = 1
        BY <1>2 DEF Spent
      <3> QED BY <2>3, <3>1, <3>2, <3>3
    <2> QED BY <2>2, <2>3
  <1> QED BY <1>1, <1>4, <1>5, <1>13, <1>14, <1>15, <1>16 DEF IInv

LEMMA IncrKeeps ==
    ASSUME IInv, NEW p \in Procs, Incr(p)
    PROVE  IInv'
  <1>1. PICK k \in Keys : k = key[p]
    BY DEF IInv, KeyGiven, Incr
  <1>2. count[k] \in Nat
    BY DEF IInv, DataType
  <1>3. CASE count[k] = 0
    BY <1>1, <1>3, OpenStep DEF Incr
  <1>4. CASE count[k] > 0
    <2>1. /\ pc[p] = "count" /\ Limit(key[p]) > 0 /\ count[key[p]] > 0
          /\ count' = [count EXCEPT ![key[p]] = Counted(key[p])]
          /\ UNCHANGED left /\ UNCHANGED <<backend, cut>>
      BY <1>1, <1>4 DEF Incr
    <2>2. IF Within(key[p], Counted(key[p]))
          THEN Goto(p, "next") /\ Grant(key[p])
          ELSE Return(p) /\ UNCHANGED <<granted, recent>>
      BY <1>1, <1>4 DEF Incr
    <2> QED BY <2>1, <2>2, CountedStep
  <1> QED BY <1>2, <1>3, <1>4

LEMMA IncrUnansweredKeeps ==
    ASSUME IInv, NEW p \in Procs, IncrUnanswered(p)
    PROVE  IInv'
  <1>1. PICK k \in Keys : k = key[p]
    BY DEF IInv, KeyGiven, IncrUnanswered
  <1>2. count[k] \in Nat
    BY DEF IInv, DataType
  <1>3. CASE count[k] = 0
    BY <1>1, <1>3, OpenStep DEF IncrUnanswered
  <1>4. CASE count[k] > 0
    <2>1. /\ count' \in [Keys -> Nat] /\ CountBounded'
          /\ count'[k] > 0
          /\ \A j \in Keys \ {k} : count'[j] = count[j]
      BY <1>1, CountedGives DEF IInv, IncrUnanswered
    <2>2. UNCHANGED <<backend, left, granted, recent>> /\ cut' = cut \cup {k}
      BY <1>1, <1>4 DEF IncrUnanswered
    <2>3. DataType'
      BY <2>1, <2>2 DEF IInv, DataType
    <2>4. /\ LocalType' /\ KeyGiven' /\ pc'[p] # "expire"
          /\ \A q \in Procs \ {p} : pc'[q] = pc[q] /\ key'[q] = key[q]
      <3>1. CASE Return(p)
        BY <3>1, GotoGives DEF IInv, Steps
      <3>2. CASE UNCHANGED <<pc, key, ask>>
        BY <3>2 DEF IInv, LocalType, KeyGiven, IncrUnanswered
      <3> QED BY <3>1, <3>2 DEF IncrUnanswered
    <2>5. \A q \in Procs, j \in Keys : Expiring(q, j)' <=> Expiring(q, j)
      BY <2>4 DEF Expiring, IncrUnanswered
    <2>6. \A j \in Keys : Pending(j)' <=> Pending(j)
      BY <2>5 DEF Pending
    <2>7. Unlimited' /\ Timed' /\ PendingOpen' /\ PendingAlone'
      BY <1>1, <1>4, <2>1, <2>2, <2>5
      DEF IInv, Unlimited, Timed, LastTick, PendingOpen, PendingAlone, IncrUnanswered
    <2>8. Endless'
      BY <2>1, <2>2, <2>6 DEF IInv, Endless
    <2>9. GrantedMatches'
      BY <2>1, <2>2, <2>6 DEF IInv, GrantedMatches, Spent
    <2> QED BY <2>1, <2>3, <2>4, <2>7, <2>8, <2>9 DEF IInv
  <1> QED BY <1>2, <1>3, <1>4

LEMMA SetExpiryKeeps ==
    ASSUME IInv, NEW p \in Procs, SetExpiry(p)
    PROVE  IInv'
  <1>1. PICK k \in Keys : k = key[p]
    BY DEF IInv, KeyGiven, SetExpiry
  <1>2. Expiring(p, k)
    BY <1>1 DEF Expiring, SetExpiry
  <1>3. left[k] = None /\ count[k] > 0 /\ Limit(k) > 0
    BY <1>2 DEF IInv, PendingOpen
  <1>4. \A q \in Procs : Expiring(q, k) => q = p
    BY <1>2 DEF IInv, PendingAlone
  <1>5. /\ LocalType' /\ KeyGiven' /\ pc'[p] # "expire"
        /\ \A q \in Procs \ {p} : pc'[q] = pc[q] /\ key'[q] = key[q]
    BY GotoGives DEF IInv, Steps, SetExpiry
  <1>6. /\ left' \in [Keys -> 0..Window \cup {None}]
        /\ left'[k] = Window /\ Window # None
        /\ \A j \in Keys \ {k} : left'[j] = left[j]
    BY <1>1, RateLimiterAssumption DEF IInv, DataType, SetExpiry
  <1>7. \/ Grant(k) /\ UNCHANGED cut
        \/ cut' = cut \cup {k} /\ UNCHANGED <<granted, recent>>
    BY <1>1 DEF SetExpiry
  <1>8. granted' \in [Keys -> Nat] /\ recent' \in [Keys -> [Ages -> Nat]]
    BY <1>7, GrantGives DEF IInv, DataType
  <1>9. DataType'
    BY <1>6, <1>7, <1>8 DEF IInv, DataType, SetExpiry
  <1>10. CountBounded' /\ Unlimited' /\ Timed'
    BY <1>6, RateLimiterAssumption
    DEF IInv, CountBounded, Unlimited, Timed, LastTick, SetExpiry
  <1>11. \A q \in Procs, j \in Keys : Expiring(q, j)' <=> (q # p /\ Expiring(q, j))
    BY <1>5 DEF Expiring
  <1>12. \A j \in Keys \ {k} : Pending(j)' <=> Pending(j)
    BY <1>1, <1>11 DEF Pending, Expiring
  <1>13. Pending(k) /\ ~Pending(k)'
    BY <1>2, <1>4, <1>11 DEF Pending
  <1>14. PendingOpen' /\ PendingAlone'
    BY <1>4, <1>6, <1>11 DEF IInv, PendingOpen, PendingAlone, SetExpiry
  <1>15. Endless'
    BY <1>6, <1>7, <1>12 DEF IInv, Endless, SetExpiry
  <1>16. GrantedMatches'
    <2> SUFFICES ASSUME NEW j \in Keys, j \notin cut'
        PROVE Spent(j)' = granted'[j] + (IF Pending(j)' THEN 1 ELSE 0)
      BY DEF GrantedMatches
    <2>1. j \notin cut
      BY <1>7
    <2>2. Spent(j) = granted[j] + (IF Pending(j) THEN 1 ELSE 0)
      BY <2>1 DEF IInv, GrantedMatches
    <2>3. Spent(j)' = Spent(j)
      BY DEF Spent, SetExpiry
    <2>4. CASE j # k
      <3>1. granted'[j] = granted[j]
        BY <1>7, <2>4, GrantGives DEF IInv
      <3> QED BY <1>12, <2>2, <2>3, <2>4, <3>1
    <2>5. CASE j = k
      <3>1. granted'[k] = granted[k] + 1 /\ granted[k] \in Nat
        BY <1>7, <2>5, GrantGives DEF IInv, DataType
      <3> QED BY <1>13, <2>2, <2>3, <2>5, <3>1
    <2> QED BY <2>4, <2>5
  <1> QED BY <1>5, <1>9, <1>10, <1>14, <1>15, <1>16 DEF IInv

LEMMA TickKeeps ==
    ASSUME IInv, Tick
    PROVE  IInv'
  <1>1. DataType'
    <2>1. backend' = backend /\ count' \in [Keys -> Nat] /\ granted' \in [Keys -> Nat] /\ cut' \subseteq Keys
      BY DEF IInv, DataType, Tick
    <2>2. \A k \in Keys : left'[k] \in 0..Window \cup {None}
      <3> TAKE k \in Keys
      <3>1. left[k] \in 0..Window \cup {None}
        BY DEF IInv, DataType
      <3>2. Ends(k) => left'[k] = 0
        BY DEF Tick
      <3>3. ~Ends(k) /\ (count[k] = 0 \/ left[k] = None) => left'[k] = left[k]
        BY DEF Tick
      <3>4. ~Ends(k) /\ count[k] # 0 /\ left[k] # None =>
                left'[k] = left[k] - 1 /\ left[k] > LastTick
        <4>1. count[k] # 0 => count[k] > 0
          BY DEF IInv, DataType
        <4> QED BY <3>1, <4>1, RateLimiterAssumption DEF Tick, Ends, LastTick, IInv, Timed
      <3> QED BY <3>1, <3>2, <3>3, <3>4, RateLimiterAssumption DEF LastTick
    <2>3. left' \in [Keys -> 0..Window \cup {None}]
      BY <2>2 DEF Tick
    <2>4. recent' \in [Keys -> [Ages -> Nat]]
      <3>1. \A k \in Keys, a \in Ages : (IF a = 0 THEN 0 ELSE recent[k][a - 1]) \in Nat
        <4> TAKE k \in Keys, a \in Ages
        <4>1. a # 0 => a - 1 \in Ages
          BY RateLimiterAssumption DEF Ages
        <4>2. recent[k] \in [Ages -> Nat]
          BY DEF IInv, DataType
        <4> QED BY <4>1, <4>2
      <3> QED BY <3>1 DEF Tick
    <2> QED BY <2>1, <2>3, <2>4 DEF DataType, IInv
  <1>2. \A k \in Keys : ~Ends(k) =>
            /\ count'[k] = count[k] /\ granted'[k] = granted[k]
            /\ (k \in cut' <=> k \in cut)
    BY DEF Tick
  <1>3. \A k \in Keys : Ends(k) =>
            count'[k] = 0 /\ granted'[k] = 0 /\ left'[k] = 0 /\ left[k] # None
    <2> TAKE k \in Keys
    <2>1. LastTick # None
      BY RateLimiterAssumption DEF LastTick
    <2>2. Ends(k) => left[k] # None
      BY <2>1 DEF Ends
    <2> QED BY <2>2 DEF Tick
  <1>4. \A k \in Keys : left[k] = None <=> left'[k] = None
    <2> TAKE k \in Keys
    <2>1. CASE Ends(k)
      BY <1>3, <2>1, RateLimiterAssumption
    <2>2. CASE ~Ends(k) /\ (count[k] = 0 \/ left[k] = None)
      BY <2>2 DEF Tick
    <2>3. CASE ~Ends(k) /\ count[k] # 0 /\ left[k] # None
      <3>1. left'[k] = left[k] - 1
        BY <2>3 DEF Tick
      <3>2. left'[k] \in 0..Window \cup {None} /\ left[k] \in 0..Window
        BY <1>1, <2>3 DEF IInv, DataType
      <3>3. left'[k] # None
        <4>1. left[k] - 1 \in Int
          BY <3>2
        <4>2. count[k] > 0 /\ left[k] >= LastTick /\ left[k] # LastTick
          BY <2>3, <3>2 DEF Ends, IInv, Timed, DataType
        <4>3. left[k] - 1 \in Nat
          BY <3>2, <4>1, <4>2, RateLimiterAssumption DEF LastTick
        <4> QED BY <3>1, <4>3, RateLimiterAssumption
      <3> QED BY <2>3, <3>3
    <2> QED BY <2>1, <2>2, <2>3
  <1>5. CountBounded'
    <2> SUFFICES ASSUME NEW k \in Keys PROVE count'[k] <= Limit(k) + 1
      BY DEF CountBounded
    <2> QED BY <1>2, <1>3, LimitNat DEF IInv, CountBounded
  <1>6. LocalType' /\ KeyGiven'
    BY DEF IInv, LocalType, KeyGiven, Tick
  <1>7. Unlimited'
    BY <1>2, <1>3 DEF IInv, Unlimited
  <1>13. Timed'
    <2> SUFFICES ASSUME NEW k \in Keys, count'[k] > 0, left'[k] # None
        PROVE left'[k] >= LastTick'
      BY DEF Timed
    <2>1. ~Ends(k) /\ count[k] > 0 /\ left[k] # None
      BY <1>2, <1>3, <1>4
    <2>2. left'[k] = left[k] - 1 /\ left[k] \in 0..Window
      BY <2>1 DEF Tick, IInv, DataType
    <2>3. left[k] >= LastTick /\ left[k] # LastTick
      BY <2>1 DEF IInv, Timed, Ends
    <2>4. LastTick' = LastTick
      BY DEF LastTick, Tick
    <2> QED BY <2>2, <2>3, <2>4, RateLimiterAssumption DEF LastTick
  <1>8. \A q \in Procs, k \in Keys : Expiring(q, k)' <=> Expiring(q, k)
    BY DEF Expiring, Tick
  <1>9. \A k \in Keys : Pending(k)' <=> Pending(k)
    BY <1>8 DEF Pending
  <1>10. PendingOpen' /\ PendingAlone'
    BY <1>2, <1>3, <1>4, <1>8 DEF IInv, PendingOpen, PendingAlone
  <1>11. Endless'
    BY <1>2, <1>3, <1>4, <1>9 DEF IInv, Endless
  <1>12. GrantedMatches'
    <2> SUFFICES ASSUME NEW k \in Keys, k \notin cut'
        PROVE Spent(k)' = granted'[k] + (IF Pending(k)' THEN 1 ELSE 0)
      BY DEF GrantedMatches
    <2>1. CASE Ends(k)
      <3>1. ~Pending(k)
        BY <1>3, <2>1 DEF IInv, PendingOpen, Pending
      <3>2. Spent(k)' = 0
        BY <1>3, <2>1, LimitNat DEF Spent
      <3> QED BY <1>3, <1>9, <2>1, <3>1, <3>2
    <2>2. CASE ~Ends(k)
      <3>1. Spent(k) = granted[k] + (IF Pending(k) THEN 1 ELSE 0)
        BY <1>2, <2>2 DEF IInv, GrantedMatches
      <3>2. Spent(k)' = Spent(k)
        BY <1>2, <2>2 DEF Spent
      <3> QED BY <1>2, <1>9, <2>2, <3>1, <3>2
    <2> QED BY <2>1, <2>2
  <1> QED BY <1>1, <1>5, <1>6, <1>7, <1>10, <1>11, <1>12, <1>13 DEF IInv

----------------------------------------------------------------------------
(* The theorems. *)

LEMMA InvNext == IInv /\ [Next]_vars => IInv'
  <1> SUFFICES ASSUME IInv, [Next]_vars PROVE IInv'
    OBVIOUS
  <1>1. ASSUME NEW p \in Procs, EnforceRateLimit(p) \/ Abort(p) PROVE IInv'
    BY <1>1, QuietKeeps
  <1>2. ASSUME NEW p \in Procs, Continue(p) PROVE IInv'
    BY <1>2, QuietKeeps, AllowMemoryKeeps, IncrKeeps, SetExpiryKeeps DEF Continue
  <1>3. CASE UNCHANGED vars
    BY <1>3
    DEF vars, IInv, DataType, CountBounded, Timed, LastTick, LocalType, KeyGiven, Unlimited, PendingOpen,
        PendingAlone, Endless, GrantedMatches, Spent, Pending, Expiring
  <1> QED BY <1>1, <1>2, <1>3, IncrUnansweredKeeps, TickKeeps DEF Next

\* The invariant holds throughout.
THEOREM Invariant == Spec => []IInv
  BY InvInit, InvNext, PTL DEF Spec

\* Every variable keeps its type, and no count goes further than one above its limit.
THEOREM TypeCorrect == Spec => []TypeOK
  <1>1. IInv => TypeOK
    BY DEF IInv, DataType, CountBounded, LocalType, TypeOK
  <1> QED BY <1>1, Invariant, PTL

\* Allow refuses only a key whose limit of calls was allowed in the open window, as long
\* as no counted call of that window has lost its answer or waits for its EXPIRE.
THEOREM RefusalsAreEarned == Spec => []RefusedOnlyWhenSpent
  <1>1. ASSUME IInv, NEW k \in Keys, count[k] > Limit(k), k \notin cut, ~Pending(k)
        PROVE  granted[k] = Limit(k)
    <2>1. Spent(k) = granted[k] /\ granted[k] \in Nat
      BY <1>1 DEF IInv, GrantedMatches, DataType
    <2>2. Spent(k) = Limit(k)
      BY <1>1, LimitNat DEF Spent, IInv, DataType
    <2> QED BY <2>1, <2>2
  <1>2. IInv => RefusedOnlyWhenSpent
    BY <1>1 DEF RefusedOnlyWhenSpent, Pending, Expiring
  <1> QED BY <1>2, Invariant, PTL

\* Only a key whose first call is about to send EXPIRE, or got no further than INCR, has
\* a window without an end.
THEOREM WindowsGetTheirEnd == Spec => []EndlessOnlyWhenCut
  <1>1. IInv => EndlessOnlyWhenCut
    BY DEF IInv, Endless, Pending, Expiring, EndlessOnlyWhenCut
  <1> QED BY <1>1, Invariant, PTL
----------------------------------------------------------------------------
(***************************************************************************)
(* Both limiters implement FixedWindow.  The calls allowed in a window,    *)
(* and the one that is about to send its EXPIRE, never exceed the calls    *)
(* the window counted, whichever of them lost their answers.               *)
(***************************************************************************)
GrantedBound ==
    \A k \in Keys : granted[k] + (IF Pending(k) THEN 1 ELSE 0) <= Spent(k)

\* A step that leaves counts and allowed calls alone and begins no EXPIRE.
LEMMA QuietRefines ==
    ASSUME GrantedBound, UNCHANGED <<count, granted>>,
           \A k \in Keys : Pending(k)' => Pending(k),
           IInv, IInv'
    PROVE  GrantedBound' /\ UNCHANGED Windows!vars
  <1>1. \A k \in Keys : Spent(k)' = Spent(k) /\ granted[k] \in Nat /\ Spent(k) \in Nat
    BY LimitNat DEF Spent, IInv, DataType
  <1>2. GrantedBound'
    BY <1>1 DEF GrantedBound
  <1> QED BY <1>2 DEF Windows!vars

\* A call about k is counted; no EXPIRE begins or ends.
LEMMA CountRefines ==
    ASSUME IInv, IInv', GrantedBound, NEW k \in Keys, Limit(k) > 0,
           count' = [count EXCEPT ![k] = Counted(k)],
           \A j \in Keys : Pending(j)' => Pending(j),
           \/ Within(k, Counted(k)) /\ Grant(k)
           \/ UNCHANGED granted
    PROVE  GrantedBound' /\ [Windows!Next]_(Windows!vars)
  <1>1. /\ count'[k] = Counted(k) /\ Counted(k) > 0
        /\ \A j \in Keys \ {k} : count'[j] = count[j]
    BY CountedGives DEF IInv
  <1>2. /\ \A j \in Keys : count[j] \in Nat /\ granted[j] \in Nat /\ Limit(j) \in Nat
        /\ \A j \in Keys : Spent(j) \in Nat
    BY LimitNat DEF IInv, DataType, Spent
  <1>3. {j \in Keys : count'[j] > 0} = {j \in Keys : count[j] > 0} \cup {k}
    BY <1>1
  <1>4. \A j \in Keys \ {k} : Spent(j)' = Spent(j)
    BY <1>1 DEF Spent
  <1>5. granted[k] + (IF Pending(k) THEN 1 ELSE 0) <= Spent(k)
    BY DEF GrantedBound
  <1>6. CASE Within(k, Counted(k)) /\ Grant(k)
    <2>1. granted'[k] = granted[k] + 1 /\ \A j \in Keys \ {k} : granted'[j] = granted[j]
      BY <1>6, GrantGives DEF IInv
    <2>2. count[k] < Limit(k) /\ count'[k] = count[k] + 1
      BY <1>1, <1>2, <1>6 DEF Within, Counted
    <2>3. Spent(k) = count[k] /\ Spent(k)' = count[k] + 1
      BY <1>2, <2>2 DEF Spent
    <2>4. GrantedBound'
      BY <1>2, <1>4, <1>5, <2>1, <2>3 DEF GrantedBound
    <2>5. granted[k] < Limit(k)
      BY <1>2, <1>5, <2>2, <2>3
    <2>6. Windows!Allow(k)
      BY <1>3, <1>6, <2>5 DEF Windows!Allow, Grant
    <2> QED BY <2>4, <2>6 DEF Windows!Next
  <1>7. CASE UNCHANGED granted
    <2>1. Spent(k) <= Spent(k)' /\ Spent(k)' \in Nat
      BY <1>1, <1>2 DEF Spent, Counted
    <2>2. GrantedBound'
      BY <1>2, <1>4, <1>5, <1>7, <2>1 DEF GrantedBound
    <2>3. CASE count[k] > 0
      BY <1>3, <1>7, <2>2, <2>3 DEF Windows!vars
    <2>4. CASE count[k] = 0
      BY <1>3, <1>7, <2>2, <2>4 DEF Windows!Open, Windows!Next
    <2> QED BY <1>2, <2>2, <2>3, <2>4
  <1> QED BY <1>6, <1>7

\* The requests that are about to send an EXPIRE, before and after a step of p.
LEMMA PendingStep ==
    ASSUME IInv, NEW p \in Procs, NEW s \in Steps \ {"expire"}, Goto(p, s) \/ Return(p)
    PROVE  \A k \in Keys : Pending(k)' => Pending(k)
  <1>1. pc'[p] # "expire" /\ \A q \in Procs \ {p} : pc'[q] = pc[q] /\ key'[q] = key[q]
    BY DEF Goto, Return, IInv, LocalType
  <1> QED BY <1>1 DEF Pending, Expiring

LEMMA RequestRefines ==
    ASSUME IInv, IInv', GrantedBound, NEW p \in Procs,
           EnforceRateLimit(p) \/ AllowUnlimited(p) \/ AskMobile(p) \/ Handled(p) \/ Abort(p)
    PROVE  GrantedBound' /\ [Windows!Next]_(Windows!vars)
  <1>1. \A q \in Procs \ {p} : pc'[q] = pc[q] /\ key'[q] = key[q]
    BY DEF EnforceRateLimit, AllowUnlimited, AskMobile, Handled, Abort, Goto, Return, IInv,
           LocalType
  <1>2. pc'[p] # "expire"
    BY DEF EnforceRateLimit, AllowUnlimited, AskMobile, Handled, Abort, Goto, Return, IInv,
           LocalType
  <1>3. \A k \in Keys : Pending(k)' => Pending(k)
    BY <1>1, <1>2 DEF Pending, Expiring
  <1>4. UNCHANGED <<count, granted>>
    BY DEF EnforceRateLimit, AllowUnlimited, AskMobile, Handled, Abort
  <1> QED BY <1>3, <1>4, QuietRefines

LEMMA AllowMemoryRefines ==
    ASSUME IInv, IInv', GrantedBound, NEW p \in Procs, AllowMemory(p)
    PROVE  GrantedBound' /\ [Windows!Next]_(Windows!vars)
  <1>1. PICK k \in Keys : k = key[p]
    BY DEF IInv, KeyGiven, AllowMemory
  <1>2. \A j \in Keys : Pending(j)' => Pending(j)
    BY PendingStep DEF AllowMemory, Steps
  <1> QED BY <1>1, <1>2, CountRefines DEF AllowMemory

LEMMA IncrRefines ==
    ASSUME IInv, IInv', GrantedBound, NEW p \in Procs, Incr(p) \/ IncrUnanswered(p)
    PROVE  GrantedBound' /\ [Windows!Next]_(Windows!vars)
  <1>1. PICK k \in Keys : k = key[p]
    BY DEF IInv, KeyGiven, Incr, IncrUnanswered
  <1>2. /\ Limit(k) > 0 /\ count' = [count EXCEPT ![k] = Counted(k)]
        /\ count[k] \in Nat /\ Limit(k) \in Nat
    BY <1>1, LimitNat DEF Incr, IncrUnanswered, IInv, DataType
  <1>3. CASE Incr(p) /\ count[k] = 0
    <2>1. \A j \in Keys \ {k} : Pending(j)' => Pending(j)
      BY <1>1, <1>3 DEF Incr, Goto, Pending, Expiring, IInv, LocalType
    <2>2. granted[k] <= Spent(k) /\ Spent(k) = 0 /\ granted[k] \in Nat /\ ~Pending(k)
      BY <1>2, <1>3 DEF GrantedBound, Spent, IInv, DataType, PendingOpen, Pending
    <2>3. /\ Counted(k) = 1 /\ count'[k] = 1
          /\ \A j \in Keys \ {k} : count'[j] = count[j] /\ Spent(j)' = Spent(j)
      BY <1>2, <1>3 DEF Counted, Spent, IInv, DataType
    <2>4. Spent(k)' = 1 /\ UNCHANGED granted
      BY <1>1, <1>2, <1>3, <2>3 DEF Spent, Incr
    <2>5. \A j \in Keys : granted[j] \in Nat /\ Spent(j) \in Nat
      BY LimitNat DEF IInv, DataType, Spent
    <2>6. \A j \in Keys \ {k} : (granted[j] + (IF Pending(j) THEN 1 ELSE 0) <= Spent(j))'
      BY <2>1, <2>3, <2>4, <2>5 DEF GrantedBound
    <2>7. (granted[k] + (IF Pending(k) THEN 1 ELSE 0) <= Spent(k))'
      BY <2>2, <2>4
    <2>8. GrantedBound'
      BY <2>6, <2>7 DEF GrantedBound
    <2>9. {j \in Keys : count'[j] > 0} = {j \in Keys : count[j] > 0} \cup {k}
      BY <2>3
    <2> QED BY <1>3, <2>4, <2>8, <2>9 DEF Windows!Open, Windows!Next
  <1>4. CASE Incr(p) /\ count[k] > 0
    <2>1. \A j \in Keys : Pending(j)' => Pending(j)
      BY <1>1, <1>4, PendingStep DEF Incr, Steps
    <2>2. \/ Within(k, Counted(k)) /\ Grant(k)
          \/ UNCHANGED granted
      BY <1>1, <1>4 DEF Incr
    <2> QED BY <1>2, <2>1, <2>2, CountRefines
  <1>5. CASE IncrUnanswered(p)
    <2>1. \A j \in Keys : Pending(j)' => Pending(j)
      <3>1. CASE Return(p)
        BY <3>1, PendingStep DEF Steps
      <3>2. CASE UNCHANGED <<pc, key, ask>>
        BY <3>2 DEF Pending, Expiring
      <3> QED BY <1>5, <3>1, <3>2 DEF IncrUnanswered
    <2>2. UNCHANGED granted
      BY <1>5 DEF IncrUnanswered
    <2> QED BY <1>2, <2>1, <2>2, CountRefines
  <1> QED BY <1>2, <1>3, <1>4, <1>5

LEMMA SetExpiryRefines ==
    ASSUME IInv, IInv', GrantedBound, NEW p \in Procs, SetExpiry(p)
    PROVE  GrantedBound' /\ [Windows!Next]_(Windows!vars)
  <1>1. PICK k \in Keys : k = key[p]
    BY DEF IInv, KeyGiven, SetExpiry
  <1>2. Pending(k) /\ count[k] > 0
    BY <1>1 DEF Pending, Expiring, SetExpiry, IInv, PendingOpen
  <1>3. \A j \in Keys : Pending(j)' => Pending(j)
    BY PendingStep DEF SetExpiry, Steps
  <1>4. \A q \in Procs : Expiring(q, k) => q = p
    BY <1>1 DEF Expiring, SetExpiry, IInv, PendingAlone
  <1>5. pc'[p] # "expire" /\ \A q \in Procs \ {p} : pc'[q] = pc[q] /\ key'[q] = key[q]
    BY DEF SetExpiry, Goto, Return, IInv, LocalType
  <1>6. ~Pending(k)'
    BY <1>4, <1>5 DEF Pending, Expiring
  <1>7. CASE Grant(k)
    <2>1. granted'[k] = granted[k] + 1 /\ \A j \in Keys \ {k} : granted'[j] = granted[j]
      BY <1>7, GrantGives DEF IInv
    <2>2. \A j \in Keys : Spent(j)' = Spent(j) /\ granted[j] \in Nat /\ Spent(j) \in Nat
      BY LimitNat DEF Spent, SetExpiry, IInv, DataType
    <2>3. granted[k] + 1 <= Spent(k) /\ Spent(k) <= Limit(k) /\ Limit(k) \in Nat
      BY <1>2, LimitNat DEF GrantedBound, Spent, IInv, DataType
    <2>4. GrantedBound'
      BY <1>3, <1>6, <2>1, <2>2, <2>3 DEF GrantedBound
    <2>5. granted[k] < Limit(k)
      BY <2>2, <2>3
    <2>6. {j \in Keys : count'[j] > 0} = {j \in Keys : count[j] > 0} \cup {k}
      BY <1>2 DEF SetExpiry
    <2>7. Windows!Allow(k)
      BY <1>7, <2>5, <2>6 DEF Windows!Allow, Grant
    <2> QED BY <2>4, <2>7 DEF Windows!Next
  <1>8. CASE UNCHANGED granted
    BY <1>3, <1>8, QuietRefines DEF SetExpiry
  <1> QED BY <1>1, <1>7, <1>8 DEF SetExpiry

LEMMA TickRefines ==
    ASSUME IInv, IInv', GrantedBound, Tick
    PROVE  GrantedBound' /\ [Windows!Next]_(Windows!vars)
  <1> DEFINE over == {k \in Keys : Ends(k)}
  <1>1. \A k \in Keys : /\ count'[k] = IF Ends(k) THEN 0 ELSE count[k]
                        /\ granted'[k] = IF Ends(k) THEN 0 ELSE granted[k]
                        /\ count[k] \in Nat /\ granted[k] \in Nat /\ Limit(k) \in Nat
    BY LimitNat DEF Tick, IInv, DataType
  <1>2. \A k \in Keys : Pending(k)' <=> Pending(k)
    BY DEF Pending, Expiring, Tick
  <1>3. \A k \in Keys : Ends(k) => ~Pending(k)
    <2>1. LastTick # None
      BY RateLimiterAssumption DEF LastTick
    <2> QED BY <2>1 DEF Ends, Pending, IInv, PendingOpen
  <1>4. GrantedBound'
    <2> SUFFICES ASSUME NEW k \in Keys
        PROVE (granted[k] + (IF Pending(k) THEN 1 ELSE 0) <= Spent(k))'
      BY DEF GrantedBound
    <2>1. CASE Ends(k)
      BY <1>1, <1>2, <1>3, <2>1 DEF Spent
    <2>2. CASE ~Ends(k)
      BY <1>1, <1>2, <2>2 DEF Spent, GrantedBound
    <2> QED BY <2>1, <2>2
  <1>5. over \subseteq {k \in Keys : count[k] > 0}
    BY DEF Ends
  <1>6. {k \in Keys : count'[k] > 0} = {k \in Keys : count[k] > 0} \ over
    BY <1>1
  <1>7. granted' = [k \in Keys |-> IF k \in over THEN 0 ELSE granted[k]]
    BY DEF Tick
  <1> HIDE DEF over
  <1>8. Windows!Next
    BY <1>5, <1>6, <1>7 DEF Windows!Next, Windows!Close
  <1> QED BY <1>4, <1>8

LEMMA BoundInit == Init => GrantedBound /\ Windows!Init
  <1> SUFFICES ASSUME Init PROVE GrantedBound /\ Windows!Init
    OBVIOUS
  <1>1. \A k \in Keys : ~Pending(k) /\ Spent(k) = 0 /\ granted[k] = 0
    BY LimitNat DEF Init, Pending, Expiring, Spent
  <1>2. GrantedBound
    BY <1>1 DEF GrantedBound
  <1>3. {k \in Keys : count[k] > 0} = {}
    BY DEF Init
  <1> QED BY <1>2, <1>3 DEF Init, Windows!Init

LEMMA BoundNext ==
    IInv /\ IInv' /\ GrantedBound /\ [Next]_vars
        => GrantedBound' /\ [Windows!Next]_(Windows!vars)
  <1> SUFFICES ASSUME IInv, IInv', GrantedBound, [Next]_vars
      PROVE GrantedBound' /\ [Windows!Next]_(Windows!vars)
    OBVIOUS
  <1>1. ASSUME NEW p \in Procs, EnforceRateLimit(p) \/ Abort(p)
        PROVE GrantedBound' /\ [Windows!Next]_(Windows!vars)
    BY <1>1, RequestRefines
  <1>2. ASSUME NEW p \in Procs, Continue(p)
        PROVE GrantedBound' /\ [Windows!Next]_(Windows!vars)
    BY <1>2, RequestRefines, AllowMemoryRefines, IncrRefines, SetExpiryRefines DEF Continue
  <1>3. CASE UNCHANGED vars
    <2>1. \A k \in Keys : Pending(k)' => Pending(k)
      BY <1>3 DEF vars, Pending, Expiring
    <2> QED BY <1>3, <2>1, QuietRefines DEF vars
  <1> QED BY <1>1, <1>2, <1>3, IncrRefines, TickRefines DEF Next

\* The limiter in memory and the one in Redis implement fixed windows, for every limit,
\* window length, number of requests and pattern of failures.
THEOREM LimiterImplementsFixedWindow == Spec => ImplementsFixedWindow
  BY BoundInit, BoundNext, Invariant, PTL DEF Spec, ImplementsFixedWindow, Windows!Spec

\* Hence no window of either limiter lets more calls through than its limit.
THEOREM LimitPerWindow == Spec => []Windows!WithinLimit
  <1>1. IInv /\ GrantedBound => Windows!WithinLimit
    <2> SUFFICES ASSUME IInv, GrantedBound, NEW k \in Keys
        PROVE  granted[k] <= Limit(k) /\ (granted[k] > 0 => k \in {j \in Keys : count[j] > 0})
      BY DEF Windows!WithinLimit
    <2>1. granted[k] \in Nat /\ count[k] \in Nat /\ Limit(k) \in Nat
      BY LimitNat DEF IInv, DataType
    <2>2. granted[k] <= Spent(k)
      BY <2>1, LimitNat DEF GrantedBound, Spent
    <2> QED BY <2>1, <2>2 DEF Spent
  <1> QED BY <1>1, BoundInit, BoundNext, Invariant, PTL DEF Spec
----------------------------------------------------------------------------
(***************************************************************************)
(* RollingLimit.  Windows follow each other, so the last Window ticks meet *)
(* at most two of them.  What the invariant says of an open window: the    *)
(* calls allowed since it opened are among those it granted, and those of  *)
(* before, which earlier windows granted, are at most the limit.           *)
(***************************************************************************)

\* Ticks for which the open window of k is known to have been open.
Elapsed(k) == IF left[k] = None THEN 0 ELSE Window - left[k]

RecentOpen(k) ==
    /\ \A a \in Ages : recent[k][a] <= granted[k] + Limit(k)
    /\ \A a \in Ages : a <= Elapsed(k) => recent[k][a] <= granted[k]

RecentClosed(k) ==
    /\ recent[k][0] = 0
    /\ \A a \in Ages : recent[k][a] <= Limit(k)

RecentInv ==
    \A k \in Keys : IF count[k] = 0 THEN RecentClosed(k) ELSE RecentOpen(k)

LEMMA RecentTypes ==
    ASSUME IInv, NEW k \in Keys
    PROVE  /\ count[k] \in Nat /\ granted[k] \in Nat /\ Limit(k) \in Nat
           /\ left[k] \in 0..Window \cup {None}
           /\ \A a \in Ages : recent[k][a] \in Nat
  <1>1. recent[k] \in [Ages -> Nat]
    BY DEF IInv, DataType
  <1> QED BY <1>1, LimitNat DEF IInv, DataType

LEMMA GrantedWithin ==
    ASSUME IInv, GrantedBound, NEW k \in Keys
    PROVE  granted[k] <= Limit(k) /\ (count[k] = 0 => granted[k] = 0)
  <1>1. granted[k] <= Spent(k) /\ Spent(k) \in Nat
    BY RecentTypes DEF GrantedBound, Spent
  <1> QED BY <1>1, RecentTypes DEF Spent

\* A key whose calls and window stay as they are.
LEMMA RecentSame ==
    ASSUME NEW k \in Keys,
           IF count[k] = 0 THEN RecentClosed(k) ELSE RecentOpen(k),
           count'[k] = count[k], left'[k] = left[k], granted'[k] = granted[k],
           recent'[k] = recent[k]
    PROVE  IF count'[k] = 0 THEN RecentClosed(k)' ELSE RecentOpen(k)'
  <1>1. RecentClosed(k)' <=> RecentClosed(k)
    BY DEF RecentClosed
  <1>2. RecentOpen(k)' <=> RecentOpen(k)
    BY DEF RecentOpen, Elapsed
  <1> QED BY <1>1, <1>2

\* A call about k is counted, or its EXPIRE is sent: the window of k is open from now on,
\* with all its ticks left if it opens or gets its end now; the call is allowed or is not.
LEMMA RecentCounted ==
    ASSUME IInv, GrantedBound, NEW k \in Keys,
           IF count[k] = 0 THEN RecentClosed(k) ELSE RecentOpen(k),
           count'[k] > 0,
           \/ left'[k] = left[k] /\ count[k] > 0
           \/ left'[k] \in {Window, None} /\ (count[k] = 0 \/ left[k] = None),
           Grant(k) \/ UNCHANGED <<granted, recent>>
    PROVE  RecentOpen(k)'
  <1>1. \A a \in Ages : recent[k][a] \in Nat /\ a \in Nat
    BY RecentTypes DEF Ages
  <1>2. /\ count[k] \in Nat /\ granted[k] \in Nat /\ Limit(k) \in Nat
        /\ count[k] = 0 => granted[k] = 0
    BY RecentTypes, GrantedWithin
  <1>3. \A a \in Ages : recent[k][a] <= granted[k] + Limit(k)
    BY <1>1, <1>2 DEF RecentClosed, RecentOpen
  <1>4. \A a \in Ages : a <= Elapsed(k)' => recent[k][a] <= granted[k]
    <2>1. CASE left'[k] = left[k] /\ count[k] > 0
      BY <2>1, <1>2 DEF RecentOpen, Elapsed
    <2>2. CASE left'[k] \in {Window, None} /\ (count[k] = 0 \/ left[k] = None)
      <3>1. Elapsed(k)' = 0
        BY <2>2, RateLimiterAssumption DEF Elapsed
      <3>2. 0 \in Ages
        BY RateLimiterAssumption DEF Ages
      <3>3. recent[k][0] <= granted[k]
        <4>1. CASE count[k] = 0
          BY <1>2, <4>1 DEF RecentClosed
        <4>2. CASE count[k] # 0
          <5>1. left[k] = None
            BY <2>2, <4>2
          <5> QED BY <4>2, <5>1, <3>2 DEF RecentOpen, Elapsed
        <4> QED BY <4>1, <4>2
      <3> QED BY <1>1, <3>1, <3>3
    <2> QED BY <2>1, <2>2
  <1>5. CASE Grant(k)
    <2>1. granted'[k] = granted[k] + 1
      BY <1>5, GrantGives DEF IInv
    <2>2. \A a \in Ages : recent'[k][a] = recent[k][a] + 1
      BY <1>5 DEF Grant, IInv, DataType
    <2> QED BY <1>1, <1>2, <1>3, <1>4, <2>1, <2>2 DEF RecentOpen
  <1>6. CASE UNCHANGED <<granted, recent>>
    BY <1>3, <1>4, <1>6 DEF RecentOpen
  <1> QED BY <1>5, <1>6

\* A step about k leaves the other keys alone.
LEMMA RecentOthers ==
    ASSUME DataType, NEW k \in Keys, NEW j \in Keys \ {k}, Grant(k) \/ UNCHANGED <<granted, recent>>
    PROVE  granted'[j] = granted[j] /\ recent'[j] = recent[j]
  BY DEF Grant, DataType

LEMMA RecentCountedStep ==
    ASSUME IInv, GrantedBound, RecentInv, NEW p \in Procs,
           AllowMemory(p) \/ Incr(p) \/ IncrUnanswered(p) \/ SetExpiry(p)
    PROVE  RecentInv'
  <1>1. PICK k \in Keys : k = key[p]
    BY DEF IInv, KeyGiven, AllowMemory, Incr, IncrUnanswered, SetExpiry
  <1>2. Grant(k) \/ UNCHANGED <<granted, recent>>
    BY <1>1 DEF AllowMemory, Incr, IncrUnanswered, SetExpiry
  <1>3. CASE SetExpiry(p)
    <2>1. /\ left[k] = None /\ count[k] > 0 /\ UNCHANGED count
          /\ left'[k] = Window /\ \A j \in Keys \ {k} : left'[j] = left[j]
      BY <1>1, <1>3 DEF SetExpiry, IInv, PendingOpen, Expiring, DataType
    <2>2. RecentOpen(k)'
      BY <1>2, <2>1, RecentCounted DEF RecentInv
    <2>3. \A j \in Keys \ {k} : granted'[j] = granted[j] /\ recent'[j] = recent[j]
      BY <1>2, RecentOthers DEF IInv
    <2>4. \A j \in Keys \ {k} : IF count'[j] = 0 THEN RecentClosed(j)' ELSE RecentOpen(j)'
      BY <2>1, <2>3, RecentSame DEF RecentInv
    <2> QED BY <2>1, <2>2, <2>4 DEF RecentInv
  <1>4. CASE AllowMemory(p) \/ Incr(p) \/ IncrUnanswered(p)
    <2>1. count' = [count EXCEPT ![k] = Counted(k)]
      BY <1>1, <1>4 DEF AllowMemory, Incr, IncrUnanswered
    <2>2. count'[k] > 0 /\ \A j \in Keys \ {k} : count'[j] = count[j]
      BY <2>1, CountedGives DEF IInv
    <2>3. /\ \A j \in Keys \ {k} : left'[j] = left[j]
          /\ \/ left'[k] = left[k] /\ count[k] > 0
             \/ left'[k] \in {Window, None} /\ count[k] = 0
      <3>1. count[k] \in Nat
        BY RecentTypes
      <3> QED BY <1>1, <1>4, <3>1 DEF AllowMemory, Incr, IncrUnanswered, Opened, IInv, DataType
    <2>4. RecentOpen(k)'
      BY <1>2, <2>2, <2>3, RecentCounted DEF RecentInv
    <2>5. \A j \in Keys \ {k} : granted'[j] = granted[j] /\ recent'[j] = recent[j]
      BY <1>2, RecentOthers DEF IInv
    <2>6. \A j \in Keys \ {k} : IF count'[j] = 0 THEN RecentClosed(j)' ELSE RecentOpen(j)'
      BY <2>2, <2>3, <2>5, RecentSame DEF RecentInv
    <2> QED BY <2>2, <2>4, <2>6 DEF RecentInv
  <1> QED BY <1>3, <1>4

\* A window that ends has been open for all the ticks but one that are looked back on.
LEMMA RecentTick ==
    ASSUME IInv, GrantedBound, RecentInv, Tick
    PROVE  RecentInv'
  <1> SUFFICES ASSUME NEW k \in Keys
      PROVE IF count'[k] = 0 THEN RecentClosed(k)' ELSE RecentOpen(k)'
    BY DEF RecentInv
  <1>1. /\ count[k] \in Nat /\ granted[k] \in Nat /\ Limit(k) \in Nat
        /\ left[k] \in 0..Window \cup {None}
        /\ \A a \in Ages : recent[k][a] \in Nat
        /\ granted[k] <= Limit(k)
    BY RecentTypes, GrantedWithin
  <1>2. \A a \in Ages : recent'[k][a] = IF a = 0 THEN 0 ELSE recent[k][a - 1]
    BY DEF Tick
  <1>3. 0 \in Ages /\ \A a \in Ages : a \in Nat /\ a <= Window - 1 /\ (a # 0 => a - 1 \in Ages)
    BY RateLimiterAssumption DEF Ages
  <1>4. CASE Ends(k)
    <2>1. count'[k] = 0 /\ count[k] > 0 /\ left[k] = LastTick
      BY <1>4 DEF Tick, Ends
    <2>2. Elapsed(k) >= Window - 1 /\ Elapsed(k) \in Nat
      BY <2>1, RateLimiterAssumption DEF Elapsed, LastTick
    <2>3. \A a \in Ages : recent[k][a] <= Limit(k)
      <3> SUFFICES ASSUME NEW a \in Ages PROVE recent[k][a] <= Limit(k)
        OBVIOUS
      <3>1. a <= Elapsed(k)
        BY <1>3, <2>2, RateLimiterAssumption
      <3>2. recent[k][a] <= granted[k]
        BY <1>1, <2>1, <3>1 DEF RecentInv, RecentOpen
      <3> QED BY <1>1, <3>2
    <2> QED BY <1>1, <1>2, <1>3, <2>1, <2>3 DEF RecentClosed
  <1>5. CASE ~Ends(k) /\ count[k] = 0
    <2>1. count'[k] = 0
      BY <1>5 DEF Tick
    <2> QED BY <1>1, <1>2, <1>3, <1>5, <2>1 DEF RecentInv, RecentClosed
  <1>6. CASE ~Ends(k) /\ count[k] # 0
    <2>1. /\ count'[k] = count[k] /\ granted'[k] = granted[k]
          /\ left'[k] = IF left[k] = None THEN None ELSE left[k] - 1
      BY <1>6 DEF Tick
    <2>2. Elapsed(k)' \in Int /\ Elapsed(k) \in Int /\ Elapsed(k)' <= Elapsed(k) + 1
      <3>1. left[k] # None => left[k] - 1 # None
        <4>1. left[k] # None => left[k] \in Nat /\ left[k] >= LastTick /\ left[k] # LastTick
          BY <1>1, <1>6 DEF Ends, IInv, Timed
        <4> QED BY <4>1, RateLimiterAssumption DEF LastTick
      <3> QED BY <1>1, <2>1, <3>1, RateLimiterAssumption DEF Elapsed
    <2>3. \A a \in Ages : recent'[k][a] <= granted[k] + Limit(k)
      BY <1>1, <1>2, <1>3, <1>6 DEF RecentInv, RecentOpen
    <2>4. \A a \in Ages : a <= Elapsed(k)' => recent'[k][a] <= granted[k]
      <3> SUFFICES ASSUME NEW a \in Ages, a <= Elapsed(k)', a # 0
          PROVE recent[k][a - 1] <= granted[k]
        BY <1>1, <1>2
      <3>1. a - 1 \in Ages /\ a - 1 <= Elapsed(k)
        BY <1>3, <2>2
      <3> QED BY <1>6, <3>1 DEF RecentInv, RecentOpen
    <2> QED BY <1>6, <2>1, <2>3, <2>4 DEF RecentOpen
  <1> QED BY <1>4, <1>5, <1>6

LEMMA RecentInit == Init => RecentInv
  <1> SUFFICES ASSUME Init, NEW k \in Keys PROVE count[k] = 0 /\ RecentClosed(k)
    BY DEF RecentInv
  <1>1. 0 \in Ages
    BY RateLimiterAssumption DEF Ages
  <1> QED BY <1>1, LimitNat DEF Init, RecentClosed

LEMMA RecentNext ==
    ASSUME IInv, GrantedBound, RecentInv, [Next]_vars
    PROVE  RecentInv'
  <1>1. ASSUME UNCHANGED <<count, left, granted, recent>>
        PROVE  RecentInv'
    BY <1>1, RecentSame DEF RecentInv
  <1>2. CASE UNCHANGED vars
    BY <1>1, <1>2 DEF vars
  <1>3. ASSUME NEW p \in Procs,
               EnforceRateLimit(p) \/ AllowUnlimited(p) \/ AskMobile(p) \/ Handled(p) \/ Abort(p)
        PROVE  RecentInv'
    BY <1>1, <1>3 DEF EnforceRateLimit, AllowUnlimited, AskMobile, Handled, Abort
  <1> QED BY <1>2, <1>3, RecentCountedStep, RecentTick DEF Next, Continue

\* However windows meet, the calls allowed in any Window consecutive ticks are at most
\* twice the limit, in memory and in Redis, also when EXPIRE comes late or never.
THEOREM CallsStayWithinTwiceTheLimit == Spec => []RollingLimit
  <1>1. IInv /\ GrantedBound /\ RecentInv => RollingLimit
    <2> SUFFICES ASSUME IInv, GrantedBound, RecentInv, NEW k \in Keys
        PROVE recent[k][Window - 1] <= 2 * Limit(k)
      BY DEF RollingLimit
    <2>1. Window - 1 \in Ages
      BY RateLimiterAssumption DEF Ages
    <2>2. recent[k][Window - 1] \in Nat /\ granted[k] \in Nat /\ Limit(k) \in Nat /\ granted[k] <= Limit(k)
      BY <2>1, RecentTypes, GrantedWithin
    <2>3. CASE count[k] = 0
      BY <2>1, <2>2, <2>3 DEF RecentInv, RecentClosed
    <2>4. CASE count[k] # 0
      BY <2>1, <2>2, <2>4 DEF RecentInv, RecentOpen
    <2> QED BY <2>3, <2>4
  <1> QED BY <1>1, RecentInit, RecentNext, BoundInit, BoundNext, Invariant, PTL DEF Spec
=============================================================================
