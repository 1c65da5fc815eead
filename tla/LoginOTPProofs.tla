-------------------------- MODULE LoginOTPProofs --------------------------
(***************************************************************************)
(* Theorems about LoginOTP for any number of requests and mobiles, any     *)
(* lifetime, cooldown and limit, both stores, with and without faults.     *)
(*                                                                         *)
(* The inductive invariant follows a state on its way through a request:   *)
(* the state that was read counts fewer messages than were sent, and once  *)
(* the request has sent its own, one more is sure to be sent.  Other       *)
(* requests only add messages, so saving the copy cannot inflate it.  For  *)
(* a mobile whose requests came one after the other the copies are exact:  *)
(* the state, or what was made of it on the way to Save, counts all the    *)
(* messages that went out since there was no state.                        *)
(***************************************************************************)
EXTENDS LoginOTP, TLAPS

StepsWithTarget == Steps \ {"idle"}

\* A request under way has a mobile.
TargetGiven == \A p \in Procs : pc[p] \in StepsWithTarget => target[p] \in Mobiles

\* The state s counts fewer messages than were sent to m and knows no later time.
Covered(s, m) == s # None => s.resends < sent[m] /\ s.lastSent <= now

\* What a request read before it sends.
ReadCovered == \A p \in Procs : pc[p] = "send" => Covered(read[p], target[p])

\* What a request read after it has sent: the message it sent is counted besides.
SentCovered ==
    \A p \in Procs : pc[p] = "save" =>
        /\ sent[target[p]] > 0
        /\ read[p] # None => read[p].resends + 1 < sent[target[p]]

CoverInv == TypeOK /\ TargetGiven /\ StateNotInflated /\ ReadCovered /\ SentCovered

\* The state s counts exactly the messages that were sent to m, within the limit.
Exact(s, m) ==
    /\ streak[m] = s.resends + 1
    /\ last[m] <= s.lastSent
    /\ MaxResends > 0 => s.resends <= MaxResends

Saving(p, m) == pc[p] = "save" /\ target[p] = m

\* A mobile that is not mixed has one request at a time.
Alone ==
    \A m \in Mobiles \ mixed, p, q \in Procs : Requesting(p, m) /\ Requesting(q, m) => p = q

StoredExact ==
    \A m \in Mobiles \ mixed :
        StateOf(m) # None /\ (\A p \in Procs : ~Saving(p, m)) => Exact(states[m], m)

ReadExact ==
    \A p \in Procs : pc[p] = "send" /\ target[p] \notin mixed =>
        IF read[p] = None THEN states[target[p]] = None
        ELSE Exact(read[p], target[p]) /\ ValidateResendWindow(read[p])

SentExact ==
    \A p \in Procs : pc[p] = "save" /\ target[p] \notin mixed =>
        /\ streak[target[p]] = IF read[p] = None THEN 1 ELSE read[p].resends + 2
        /\ MaxResends > 0 /\ read[p] # None => read[p].resends < MaxResends

LastPast == \A m \in Mobiles : last[m] <= now

IInv == CoverInv /\ Alone /\ StoredExact /\ ReadExact /\ SentExact /\ LastPast

LEMMA StateFields ==
    ASSUME NEW s \in State
    PROVE  s.resends \in Nat /\ s.lastSent \in Nat /\ s.expires \in Nat /\ s # None
  BY NoneAssumption DEF State

LEMMA InvInit == Init => IInv
  <1> SUFFICES ASSUME Init PROVE IInv
    OBVIOUS
  <1>1. CoverInv
    BY NoneAssumption
    DEF Init, CoverInv, TypeOK, TargetGiven, StateNotInflated, ReadCovered, SentCovered, Steps,
        StepsWithTarget
  <1>2. Alone /\ ReadExact /\ SentExact
    BY DEF Init, Alone, Requesting, ReadExact, SentExact
  <1>3. StoredExact /\ LastPast
    BY DEF Init, StoredExact, StateOf, LastPast
  <1> QED
    BY <1>1, <1>2, <1>3 DEF IInv

----------------------------------------------------------------------------
(***************************************************************************)
(* Helpers.                                                                *)
(***************************************************************************)

LEMMA ReturnKeepsType ==
    ASSUME CoverInv, NEW p \in Procs, Return(p)
    PROVE  /\ pc' \in [Procs -> Steps]
           /\ target' \in [Procs -> Mobiles \cup {None}]
           /\ read' \in [Procs -> State \cup {None}]
           /\ TargetGiven'
           /\ pc'[p] = "idle"
           /\ \A q \in Procs \ {p} :
                  pc'[q] = pc[q] /\ target'[q] = target[q] /\ read'[q] = read[q]
  BY DEF CoverInv, TypeOK, TargetGiven, Return, Steps, StepsWithTarget

LEMMA GotoKeepsType ==
    ASSUME CoverInv, NEW p \in Procs, NEW s \in Steps, pc[p] \in StepsWithTarget, Goto(p, s)
    PROVE  /\ pc' \in [Procs -> Steps]
           /\ target' \in [Procs -> Mobiles \cup {None}]
           /\ read' \in [Procs -> State \cup {None}]
           /\ TargetGiven'
           /\ pc'[p] = s
           /\ target'[p] = target[p] /\ read'[p] = read[p]
           /\ \A q \in Procs \ {p} :
                  pc'[q] = pc[q] /\ target'[q] = target[q] /\ read'[q] = read[q]
  BY DEF CoverInv, TypeOK, TargetGiven, Goto, Steps, StepsWithTarget

\* A saved state is well formed, counts one message more, and is of this moment.
LEMMA RenewedIsState ==
    ASSUME NEW s \in State \cup {None}, now \in Nat
    PROVE  /\ Renewed(s) \in State
           /\ Renewed(s).resends = IF s = None THEN 0 ELSE s.resends + 1
           /\ Renewed(s).lastSent = now
  BY LoginAssumption, StateFields DEF Renewed, State

\* Requests that a step leaves alone, or takes out of "send" and "save".
Settled(p) ==
    pc'[p] \in {"send", "save"} =>
        pc'[p] = pc[p] /\ target'[p] = target[p] /\ read'[p] = read[p]

----------------------------------------------------------------------------
(***************************************************************************)
(* Steps that send nothing and save nothing.                               *)
(***************************************************************************)
LEMMA QuietCover ==
    ASSUME CoverInv, TypeOK', TargetGiven', now' >= now, sent' = sent,
           \A m \in Mobiles : states'[m] = states[m] \/ states'[m] = None,
           \A p \in Procs : Settled(p)
    PROVE  CoverInv'
  <1>1. StateNotInflated'
    BY StateFields DEF CoverInv, TypeOK, StateNotInflated
  <1>2. ReadCovered'
    BY StateFields DEF CoverInv, TypeOK, ReadCovered, Covered, Settled
  <1>3. SentCovered'
    BY DEF CoverInv, SentCovered, Settled
  <1> QED
    BY <1>1, <1>2, <1>3 DEF CoverInv

\* States are dropped at most, requests go on or end, and one that ends after its message
\* and before its Save leaves its mobile mixed.
LEMMA QuietStep ==
    ASSUME IInv, CoverInv', now' >= now, mixed \subseteq mixed',
           UNCHANGED <<sent, streak, last>>,
           \A m \in Mobiles : states'[m] = states[m] \/ states'[m] = None,
           \A m \in Mobiles : StateOf(m)' # None => StateOf(m) # None,
           \A p \in Procs : Settled(p),
           \A p \in Procs, m \in Mobiles : Requesting(p, m)' => Requesting(p, m),
           \A p \in Procs, m \in Mobiles : Saving(p, m) => Saving(p, m)' \/ m \in mixed'
    PROVE  IInv'
  <1>1. Alone'
    BY DEF IInv, Alone
  <1>2. StoredExact'
    <2> SUFFICES ASSUME NEW m \in Mobiles, m \notin mixed', StateOf(m)' # None,
                        \A p \in Procs : ~Saving(p, m)'
                 PROVE  Exact(states[m], m)' 
      BY DEF StoredExact
    <2>1. states'[m] = states[m]
      BY DEF StateOf
    <2>2. Exact(states[m], m)
      BY DEF IInv, StoredExact
    <2> QED
      BY <2>1, <2>2 DEF Exact
  <1>3. ReadExact'
    <2> SUFFICES ASSUME NEW p \in Procs, pc'[p] = "send", target'[p] \notin mixed'
                 PROVE  IF read'[p] = None THEN states'[target'[p]] = None
                        ELSE Exact(read[p], target[p])' /\ ValidateResendWindow(read[p])'
      BY DEF ReadExact
    <2>1. /\ pc[p] = "send" /\ target'[p] = target[p] /\ read'[p] = read[p]
          /\ target[p] \in Mobiles /\ target[p] \notin mixed
          /\ read[p] \in State \cup {None} /\ now \in Nat /\ now' \in Nat
      BY DEF IInv, CoverInv, TypeOK, TargetGiven, StepsWithTarget, Steps, Settled
    <2>2. CASE read[p] = None
      BY <2>1, <2>2 DEF IInv, ReadExact
    <2>3. CASE read[p] # None
      <3>1. Exact(read[p], target[p]) /\ ValidateResendWindow(read[p])
        BY <2>1, <2>3 DEF IInv, ReadExact
      <3>2. Exact(read[p], target[p])'
        BY <2>1, <3>1 DEF Exact
      <3>3. ValidateResendWindow(read[p])'
        BY <2>1, <2>3, <3>1, StateFields, LoginAssumption DEF ValidateResendWindow
      <3> QED
        BY <2>1, <2>3, <3>2, <3>3
    <2> QED
      BY <2>2, <2>3
  <1>4. SentExact'
    BY DEF IInv, SentExact, Settled
  <1>5. LastPast'
    BY DEF IInv, LastPast, CoverInv, TypeOK
  <1> QED
    BY <1>1, <1>2, <1>3, <1>4, <1>5 DEF IInv

\* A request that ends; one that ends before its Save leaves its mobile mixed.
LEMMA ReturnKeeps ==
    ASSUME IInv, NEW p \in Procs, Return(p),
           UNCHANGED <<backend, now, accounts, sent, streak, last>>,
           codes' \subseteq codes, states' \in [Mobiles -> State \cup {None}],
           \A m \in Mobiles : states'[m] = states[m] \/ states'[m] = None,
           \A m \in Mobiles : StateOf(m)' # None => StateOf(m) # None,
           mixed \subseteq mixed', mixed' \subseteq Mobiles,
           pc[p] = "save" => target[p] \in mixed'
    PROVE  IInv'
  <1>1. CoverInv /\ TypeOK
    BY DEF IInv, CoverInv
  <1>2. TypeOK' /\ TargetGiven'
    BY <1>1, ReturnKeepsType DEF TypeOK
  <1>3. /\ pc'[p] = "idle"
        /\ \A q \in Procs \ {p} : pc'[q] = pc[q] /\ target'[q] = target[q] /\ read'[q] = read[q]
    BY <1>1, ReturnKeepsType
  <1>4. \A q \in Procs : Settled(q)
    BY <1>3 DEF Settled
  <1>5. now' >= now
    BY <1>1 DEF TypeOK
  <1>6. CoverInv'
    BY <1>1, <1>2, <1>4, <1>5, QuietCover
  <1>7. \A q \in Procs, m \in Mobiles : Requesting(q, m)' => Requesting(q, m)
    BY <1>3 DEF Requesting
  <1>8. \A q \in Procs, m \in Mobiles : Saving(q, m) => Saving(q, m)' \/ m \in mixed'
    BY <1>3 DEF Saving
  <1> QED
    BY <1>4, <1>5, <1>6, <1>7, <1>8, QuietStep

\* A request goes on to a step where it neither sends nor saves.
LEMMA GotoKeeps ==
    ASSUME IInv, NEW p \in Procs, NEW s \in {"reqState", "check", "delete"}, Goto(p, s),
           pc[p] \in StepsWithTarget \ {"save"},
           s = "reqState" => pc[p] = "reqUser",
           UNCHANGED <<backend, now, states, accounts, history>>, codes' \subseteq codes
    PROVE  IInv'
  <1>1. CoverInv /\ TypeOK
    BY DEF IInv, CoverInv
  <1>2. /\ pc' \in [Procs -> Steps] /\ target' \in [Procs -> Mobiles \cup {None}]
        /\ read' \in [Procs -> State \cup {None}] /\ TargetGiven'
        /\ pc'[p] = s /\ target'[p] = target[p]
        /\ \A q \in Procs \ {p} : pc'[q] = pc[q] /\ target'[q] = target[q] /\ read'[q] = read[q]
    BY <1>1, GotoKeepsType DEF Steps
  <1>3. TypeOK' /\ TargetGiven'
    BY <1>1, <1>2 DEF TypeOK, history
  <1>4. \A q \in Procs : Settled(q)
    BY <1>2 DEF Settled
  <1>5. now' >= now /\ UNCHANGED <<sent, streak, last, mixed>>
    BY <1>1 DEF TypeOK, history
  <1>6. CoverInv'
    BY <1>1, <1>3, <1>4, <1>5, QuietCover
  <1>7. \A q \in Procs, m \in Mobiles : Requesting(q, m)' => Requesting(q, m)
    BY <1>2 DEF Requesting
  <1>8. \A q \in Procs, m \in Mobiles : Saving(q, m) => Saving(q, m)'
    BY <1>2 DEF Saving
  <1>9. \A m \in Mobiles : StateOf(m)' = StateOf(m)
    BY DEF StateOf
  <1> QED
    BY <1>4, <1>5, <1>6, <1>7, <1>8, <1>9, QuietStep

LEMMA LookUpKeeps ==
    ASSUME IInv, NEW p \in Procs,
           LookUp(p, "reqUser", "reqState") \/ LookUp(p, "verUser", "check")
    PROVE  IInv'
  <1>1. UNCHANGED <<backend, now, states, accounts, codes, history>>
    BY DEF LookUp
  <1>2. UNCHANGED <<sent, streak, last, mixed>>
    BY <1>1 DEF history
  <1>3. pc[p] \in {"reqUser", "verUser"}
    BY DEF LookUp
  <1>4. CASE Return(p)
    BY <1>1, <1>2, <1>3, <1>4, ReturnKeeps DEF IInv, CoverInv, TypeOK, StateOf
  <1>5. CASE Goto(p, "reqState") /\ pc[p] = "reqUser"
    BY <1>1, <1>5, GotoKeeps DEF Steps, StepsWithTarget
  <1>6. CASE Goto(p, "check")
    BY <1>1, <1>3, <1>6, GotoKeeps DEF Steps, StepsWithTarget
  <1> QED
    BY <1>4, <1>5, <1>6 DEF LookUp

----------------------------------------------------------------------------
(***************************************************************************)
(* The start of a request.                                                 *)
(***************************************************************************)
LEMMA BeginCover ==
    ASSUME IInv, NEW p \in Procs, NEW m \in Mobiles, NEW s \in {"reqUser", "verUser"},
           Begin(p, m, s), mixed' \subseteq Mobiles
    PROVE  /\ CoverInv' /\ pc[p] = "idle" /\ pc'[p] = s /\ target'[p] = m
           /\ \A q \in Procs : Settled(q)
           /\ \A q \in Procs \ {p} : pc'[q] = pc[q] /\ target'[q] = target[q] /\ read'[q] = read[q]
           /\ \A n \in Mobiles : StateOf(n)' = StateOf(n)
           /\ now' >= now /\ UNCHANGED <<states, sent, streak, last>>
  <1>1. CoverInv /\ TypeOK
    BY DEF IInv, CoverInv
  <1>2. TypeOK' /\ TargetGiven'
    BY <1>1 DEF CoverInv, TypeOK, TargetGiven, Begin, Steps, StepsWithTarget
  <1>3. /\ pc[p] = "idle" /\ pc'[p] = s /\ target'[p] = m
        /\ \A q \in Procs \ {p} : pc'[q] = pc[q] /\ target'[q] = target[q] /\ read'[q] = read[q]
    BY <1>1 DEF TypeOK, Begin
  <1>4. \A q \in Procs : Settled(q)
    BY <1>3 DEF Settled
  <1>5. now' >= now /\ UNCHANGED <<states, sent, streak, last>>
    BY <1>1 DEF TypeOK, Begin
  <1>6. \A n \in Mobiles : StateOf(n)' = StateOf(n)
    BY DEF StateOf, Begin
  <1> QED
    BY <1>1, <1>2, <1>3, <1>4, <1>5, <1>6, QuietCover

LEMMA VerifyLoginOTPKeeps ==
    ASSUME IInv, NEW p \in Procs, VerifyLoginOTP(p)
    PROVE  IInv'
  <1>1. PICK m \in Mobiles : Begin(p, m, "verUser")
    BY DEF VerifyLoginOTP
  <1>2. UNCHANGED mixed /\ mixed' \subseteq Mobiles
    BY DEF VerifyLoginOTP, IInv, CoverInv, TypeOK
  <1>3. /\ \A q \in Procs, n \in Mobiles : Requesting(q, n)' => Requesting(q, n)
        /\ \A q \in Procs, n \in Mobiles : Saving(q, n) => Saving(q, n)'
    BY <1>1, <1>2, BeginCover DEF Requesting, Saving
  <1> QED
    BY <1>1, <1>2, <1>3, BeginCover, QuietStep

LEMMA RequestLoginOTPKeeps ==
    ASSUME IInv, NEW p \in Procs, RequestLoginOTP(p)
    PROVE  IInv'
  <1>1. PICK m \in Mobiles :
            /\ Begin(p, m, "reqUser")
            /\ mixed' = IF \E q \in Procs : Requesting(q, m) THEN mixed \cup {m}
                        ELSE IF StateOf(m) = None THEN mixed \ {m}
                        ELSE mixed
    BY DEF RequestLoginOTP
  <1>2. mixed' \subseteq Mobiles
    BY <1>1 DEF IInv, CoverInv, TypeOK
  <1>3. /\ CoverInv' /\ pc[p] = "idle" /\ pc'[p] = "reqUser" /\ target'[p] = m
        /\ \A q \in Procs : Settled(q)
        /\ \A q \in Procs \ {p} : pc'[q] = pc[q] /\ target'[q] = target[q] /\ read'[q] = read[q]
        /\ \A n \in Mobiles : StateOf(n)' = StateOf(n)
        /\ now' >= now /\ UNCHANGED <<states, sent, streak, last>>
    BY <1>1, <1>2, BeginCover
  <1>4. UNCHANGED now
    BY <1>1 DEF Begin
  <1>5. /\ \A q \in Procs, n \in Mobiles : Saving(q, n)' <=> Saving(q, n)
        /\ \A q \in Procs, n \in Mobiles :
              Requesting(q, n)' => Requesting(q, n) \/ (q = p /\ n = m)
    BY <1>3 DEF Saving, Requesting
  <1>6. Alone'
    BY <1>1, <1>5 DEF IInv, Alone
  <1>7. StoredExact'
    <2> SUFFICES ASSUME NEW n \in Mobiles, n \notin mixed', StateOf(n)' # None,
                        \A q \in Procs : ~Saving(q, n)'
                 PROVE  Exact(states[n], n)'
      BY DEF StoredExact
    <2>1. StateOf(n) # None /\ n \notin mixed
      BY <1>1, <1>3
    <2>2. Exact(states[n], n)
      BY <1>5, <2>1 DEF IInv, StoredExact
    <2> QED
      BY <1>3, <2>2 DEF Exact
  <1>8. \A q \in Procs : pc'[q] \in {"send", "save"} /\ target'[q] \notin mixed' =>
            pc'[q] = pc[q] /\ target'[q] = target[q] /\ read'[q] = read[q] /\ target[q] \notin mixed
    <2> SUFFICES ASSUME NEW q \in Procs, pc'[q] \in {"send", "save"}, target'[q] \notin mixed'
                 PROVE  pc'[q] = pc[q] /\ target'[q] = target[q] /\ read'[q] = read[q]
                        /\ target[q] \notin mixed
      OBVIOUS
    <2>1. pc'[q] = pc[q] /\ target'[q] = target[q] /\ read'[q] = read[q]
      BY <1>3 DEF Settled
    <2>2. target[q] = m => Requesting(q, m)
      BY <2>1 DEF Requesting
    <2> QED
      BY <1>1, <2>1, <2>2
  <1>9. ReadExact'
    BY <1>3, <1>4, <1>8 DEF IInv, ReadExact, Exact, ValidateResendWindow
  <1>10. SentExact' /\ LastPast'
    BY <1>3, <1>4, <1>8 DEF IInv, SentExact, LastPast
  <1> QED
    BY <1>3, <1>6, <1>7, <1>9, <1>10 DEF IInv

----------------------------------------------------------------------------
(***************************************************************************)
(* The other steps of a request for a code.                                *)
(***************************************************************************)
LEMMA ReadStateKeeps ==
    ASSUME IInv, NEW p \in Procs, ReadState(p)
    PROVE  IInv'
  <1> DEFINE m == target[p]
             found == StateOf(m)
  <1>1. CoverInv /\ TypeOK /\ m \in Mobiles /\ pc[p] = "reqState"
    BY DEF IInv, CoverInv, TargetGiven, ReadState, StepsWithTarget, Steps
  <1>2. found \in State \cup {None} /\ (found = None \/ found = states[m])
    BY <1>1 DEF TypeOK, StateOf
  <1>3. UNCHANGED <<backend, now, accounts, codes, sent, streak, last, mixed>>
    BY DEF ReadState, history
  <1>4. /\ states' \in [Mobiles -> State \cup {None}]
        /\ states'[m] = found
        /\ \A n \in Mobiles : states'[n] = states[n] \/ states'[n] = None
        /\ \A n \in Mobiles \ {m} : states'[n] = states[n]
    <2>1. states' = [states EXCEPT ![m] = found]
      BY DEF ReadState
    <2> HIDE DEF found
    <2> QED
      BY <1>1, <1>2, <2>1 DEF TypeOK
  <1>5. \A n \in Mobiles : StateOf(n)' # None => StateOf(n) # None /\ states'[n] = states[n]
    BY <1>1, <1>2, <1>3, <1>4 DEF StateOf
  <1>6. CASE Return(p)
    BY <1>1, <1>3, <1>4, <1>5, <1>6, ReturnKeeps DEF TypeOK
  <1>7. CASE /\ pc' = [pc EXCEPT ![p] = "send"]
             /\ read' = [read EXCEPT ![p] = found]
             /\ UNCHANGED target
             /\ found = None \/ ValidateResendWindow(found)
    <2>1. /\ pc'[p] = "send" /\ read'[p] = found
          /\ \A q \in Procs \ {p} : pc'[q] = pc[q] /\ read'[q] = read[q]
      BY <1>1, <1>7 DEF TypeOK
    <2>2. Covered(found, m)
      BY <1>1, <1>2 DEF CoverInv, StateNotInflated, Covered
    <2>3. \A q \in Procs : Requesting(q, m) /\ m \notin mixed => q = p
      BY <1>1 DEF IInv, Alone, Requesting
    <2>4. m \notin mixed => \A q \in Procs : ~Saving(q, m)
      BY <1>1, <2>3 DEF Saving, Requesting
    <2>5. m \notin mixed /\ found # None => Exact(found, m)
      BY <1>1, <1>2, <2>4 DEF IInv, StoredExact
    <2> HIDE DEF found
    <2>6. TypeOK' /\ TargetGiven'
      BY <1>1, <1>2, <1>3, <1>4, <1>7 DEF CoverInv, TypeOK, TargetGiven, Steps, StepsWithTarget
    <2>7. StateNotInflated'
      BY <1>1, <1>3, <1>4 DEF CoverInv, TypeOK, StateNotInflated
    <2>8. ReadCovered' /\ SentCovered'
      BY <1>1, <1>3, <1>7, <2>1, <2>2 DEF CoverInv, ReadCovered, SentCovered, Covered
    <2>9. \A q \in Procs, n \in Mobiles :
              (Requesting(q, n)' <=> Requesting(q, n)) /\ (Saving(q, n)' <=> Saving(q, n))
      BY <1>1, <1>7, <2>1 DEF Requesting, Saving
    <2>10. Alone'
      BY <1>3, <2>9 DEF IInv, Alone
    <2>11. StoredExact'
      <3> SUFFICES ASSUME NEW n \in Mobiles, n \notin mixed, StateOf(n)' # None,
                          \A q \in Procs : ~Saving(q, n)
                   PROVE  Exact(states[n], n)'
        BY <1>3, <2>9 DEF StoredExact
      <3>1. Exact(states[n], n)
        BY <1>5 DEF IInv, StoredExact
      <3> QED
        BY <1>3, <1>5, <3>1 DEF Exact
    <2>12. ReadExact'
      <3> SUFFICES ASSUME NEW q \in Procs, pc'[q] = "send", target[q] \notin mixed
                   PROVE  IF read'[q] = None THEN states'[target[q]] = None
                          ELSE /\ Exact(read[q], target[q])'
                               /\ ValidateResendWindow(read[q])'
        BY <1>3, <1>7 DEF ReadExact
      <3>1. CASE q = p
        BY <1>3, <1>4, <1>7, <2>1, <2>5, <3>1 DEF Exact, ValidateResendWindow
      <3>2. CASE q # p
        <4>1. pc[q] = "send" /\ read'[q] = read[q] /\ target[q] \in Mobiles
          BY <1>1, <2>1, <3>2 DEF CoverInv, TargetGiven, StepsWithTarget, Steps
        <4>2. read[q] = None => states[target[q]] = None
          BY <4>1 DEF IInv, ReadExact
        <4>3. states[target[q]] = None => states'[target[q]] = None
          BY <1>4, <4>1
        <4>4. read[q] # None => Exact(read[q], target[q]) /\ ValidateResendWindow(read[q])
          BY <4>1 DEF IInv, ReadExact
        <4> QED
          BY <1>3, <1>7, <4>1, <4>2, <4>3, <4>4 DEF Exact, ValidateResendWindow
      <3> QED
        BY <3>1, <3>2
    <2>13. SentExact' /\ LastPast'
      BY <1>1, <1>3, <1>7, <2>1 DEF IInv, SentExact, LastPast
    <2> QED
      BY <2>6, <2>7, <2>8, <2>10, <2>11, <2>12, <2>13 DEF IInv, CoverInv
  <1> QED
    BY <1>6, <1>7 DEF ReadState

LEMMA SendKeeps ==
    ASSUME IInv, NEW p \in Procs, Send(p)
    PROVE  IInv'
  <1> DEFINE m == target[p]
  <1>1. CoverInv /\ TypeOK /\ m \in Mobiles /\ pc[p] = "send" /\ pc[p] \in StepsWithTarget
    BY DEF IInv, CoverInv, TargetGiven, Send, StepsWithTarget, Steps
  <1>2. /\ pc' \in [Procs -> Steps] /\ target' \in [Procs -> Mobiles \cup {None}]
        /\ read' \in [Procs -> State \cup {None}] /\ TargetGiven'
        /\ pc'[p] = "save"
        /\ \A q \in Procs \ {p} : pc'[q] = pc[q]
    BY <1>1, GotoKeepsType DEF Send, Steps
  <1>3. UNCHANGED <<backend, now, states, accounts, mixed, target, read>>
    BY DEF Send, Goto
  <1>4. /\ sent'[m] = sent[m] + 1 /\ last'[m] = now
        /\ streak'[m] = IF read[p] = None THEN 1 ELSE streak[m] + 1
        /\ \A n \in Mobiles \ {m} :
              sent'[n] = sent[n] /\ last'[n] = last[n] /\ streak'[n] = streak[n]
        /\ \A n \in Mobiles : sent[n] \in Nat /\ sent'[n] \in Nat /\ sent'[n] >= sent[n]
    BY <1>1 DEF TypeOK, Send
  <1>5. TypeOK'
    BY <1>1, <1>2, <1>3 DEF TypeOK, Send
  <1>6. StateNotInflated'
    BY <1>1, <1>3, <1>4, StateFields DEF CoverInv, TypeOK, StateNotInflated
  <1>7. \A q \in Procs : pc[q] \in StepsWithTarget => target[q] \in Mobiles
    BY <1>1 DEF CoverInv, TargetGiven
  <1>8. \A q \in Procs : read[q] \in State \cup {None}
    BY <1>1 DEF TypeOK
  <1>9. ReadCovered'
    <2> SUFFICES ASSUME NEW q \in Procs, pc'[q] = "send", read[q] # None
                 PROVE  read[q].resends < sent'[target[q]] /\ read[q].lastSent <= now
      BY <1>3 DEF ReadCovered, Covered
    <2>1. pc[q] = "send" /\ target[q] \in Mobiles
      BY <1>2, <1>7 DEF StepsWithTarget, Steps
    <2> QED
      BY <1>1, <1>4, <1>8, <2>1, StateFields DEF CoverInv, ReadCovered, Covered
  <1>10. SentCovered'
    <2> SUFFICES ASSUME NEW q \in Procs, pc'[q] = "save"
                 PROVE  /\ sent'[target[q]] > 0
                        /\ read[q] # None => read[q].resends + 1 < sent'[target[q]]
      BY <1>3 DEF SentCovered
    <2>1. CASE q = p
      BY <1>1, <1>4, <1>8, <2>1, StateFields DEF CoverInv, ReadCovered, Covered
    <2>2. CASE q # p
      <3>1. pc[q] = "save" /\ target[q] \in Mobiles
        BY <1>2, <1>7, <2>2 DEF StepsWithTarget, Steps
      <3> QED
        BY <1>1, <1>4, <1>8, <3>1, StateFields DEF CoverInv, SentCovered
    <2> QED
      BY <2>1, <2>2
  <1>11. \A q \in Procs, n \in Mobiles : Requesting(q, n)' <=> Requesting(q, n)
    BY <1>1, <1>2, <1>3 DEF Requesting
  <1>12. Alone'
    BY <1>3, <1>11 DEF IInv, Alone
  <1>13. \A q \in Procs : Requesting(q, m) /\ m \notin mixed => q = p
    BY <1>1 DEF IInv, Alone, Requesting
  <1>14. StoredExact'
    <2> SUFFICES ASSUME NEW n \in Mobiles, n \notin mixed, StateOf(n)' # None,
                        \A q \in Procs : ~Saving(q, n)'
                 PROVE  Exact(states[n], n)'
      BY <1>3 DEF StoredExact
    <2>1. n # m
      BY <1>2, <1>3 DEF Saving
    <2>2. \A q \in Procs : ~Saving(q, n)
      BY <1>1, <1>2, <1>3 DEF Saving
    <2>3. StateOf(n) # None
      BY <1>3 DEF StateOf
    <2> QED
      BY <1>3, <1>4, <2>1, <2>2, <2>3 DEF IInv, StoredExact, Exact
  <1>15. ReadExact'
    <2> SUFFICES ASSUME NEW q \in Procs, pc'[q] = "send", target[q] \notin mixed
                 PROVE  IF read[q] = None THEN states[target[q]] = None
                        ELSE Exact(read[q], target[q])' /\ ValidateResendWindow(read[q])
      BY <1>3 DEF ReadExact, ValidateResendWindow
    <2>1. q # p /\ pc[q] = "send" /\ target[q] \in Mobiles
      BY <1>2, <1>7 DEF StepsWithTarget, Steps
    <2>2. target[q] # m
      BY <1>13, <2>1 DEF Requesting
    <2> QED
      BY <1>3, <1>4, <2>1, <2>2 DEF IInv, ReadExact, Exact
  <1>16. SentExact'
    <2> SUFFICES ASSUME NEW q \in Procs, pc'[q] = "save", target[q] \notin mixed
                 PROVE  /\ streak'[target[q]] = IF read[q] = None THEN 1 ELSE read[q].resends + 2
                        /\ MaxResends > 0 /\ read[q] # None => read[q].resends < MaxResends
      BY <1>3 DEF SentExact
    <2>1. CASE q = p
      <3>1. CASE read[p] = None
        BY <1>4, <2>1, <3>1
      <3>2. CASE read[p] # None
        <4>1. Exact(read[p], m) /\ ValidateResendWindow(read[p])
          BY <1>1, <2>1, <3>2 DEF IInv, ReadExact
        <4> QED
          BY <1>4, <1>8, <2>1, <3>2, <4>1, StateFields DEF Exact, ValidateResendWindow
      <3> QED
        BY <3>1, <3>2
    <2>2. CASE q # p
      <3>1. pc[q] = "save" /\ target[q] \in Mobiles
        BY <1>2, <1>7, <2>2 DEF StepsWithTarget, Steps
      <3>2. target[q] # m
        BY <1>13, <2>2, <3>1 DEF Requesting
      <3> QED
        BY <1>4, <3>1, <3>2 DEF IInv, SentExact
    <2> QED
      BY <2>1, <2>2
  <1>17. LastPast'
    BY <1>1, <1>3, <1>4 DEF IInv, LastPast, TypeOK
  <1> QED
    BY <1>2, <1>5, <1>6, <1>9, <1>10, <1>12, <1>14, <1>15, <1>16, <1>17 DEF IInv, CoverInv

LEMMA SaveStateKeeps ==
    ASSUME IInv, NEW p \in Procs, SaveState(p)
    PROVE  IInv'
  <1> DEFINE m == target[p]
             fresh == Renewed(read[p])
  <1>1. /\ CoverInv /\ TypeOK /\ m \in Mobiles /\ now \in Nat
        /\ read[p] \in State \cup {None} /\ pc[p] = "save"
    BY DEF IInv, CoverInv, TypeOK, TargetGiven, SaveState, StepsWithTarget, Steps
  <1>2. /\ fresh \in State /\ fresh.lastSent = now
        /\ fresh.resends = IF read[p] = None THEN 0 ELSE read[p].resends + 1
    BY <1>1, RenewedIsState
  <1>3. /\ states' = [states EXCEPT ![m] = fresh] /\ Return(p)
        /\ UNCHANGED <<backend, now, accounts, codes, sent, streak, last, mixed>>
    BY DEF SaveState, history
  <1>4. fresh.resends < sent[m]
    BY <1>1, <1>2 DEF CoverInv, SentCovered
  <1>5. m \notin mixed => Exact(fresh, m)
    <2> SUFFICES ASSUME m \notin mixed PROVE Exact(fresh, m)
      OBVIOUS
    <2>1. /\ streak[m] = IF read[p] = None THEN 1 ELSE read[p].resends + 2
          /\ MaxResends > 0 /\ read[p] # None => read[p].resends < MaxResends
      BY <1>1 DEF IInv, SentExact
    <2>2. last[m] <= now
      BY <1>1 DEF IInv, LastPast
    <2> QED
      BY <1>1, <1>2, <2>1, <2>2, StateFields, LoginAssumption DEF Exact
  <1> HIDE DEF fresh
  <1>6. /\ TypeOK' /\ TargetGiven' /\ pc'[p] = "idle"
        /\ \A q \in Procs \ {p} : pc'[q] = pc[q] /\ target'[q] = target[q] /\ read'[q] = read[q]
    BY <1>1, <1>2, <1>3, ReturnKeepsType DEF TypeOK
  <1>7. states'[m] = fresh /\ \A n \in Mobiles \ {m} : states'[n] = states[n]
    BY <1>1, <1>3 DEF TypeOK
  <1>8. StateNotInflated'
    BY <1>1, <1>2, <1>3, <1>4, <1>7 DEF CoverInv, TypeOK, StateNotInflated
  <1>9. \A q \in Procs : Settled(q)
    BY <1>6 DEF Settled
  <1>10. ReadCovered' /\ SentCovered'
    BY <1>1, <1>3, <1>9 DEF CoverInv, ReadCovered, SentCovered, Covered, Settled
  <1>11. \A q \in Procs : Requesting(q, m) /\ m \notin mixed => q = p
    BY <1>1 DEF IInv, Alone, Requesting
  <1>12. Alone'
    BY <1>3, <1>6 DEF IInv, Alone, Requesting
  <1>13. StoredExact'
    <2> SUFFICES ASSUME NEW n \in Mobiles, n \notin mixed, StateOf(n)' # None,
                        \A q \in Procs : ~Saving(q, n)'
                 PROVE  Exact(states[n], n)'
      BY <1>3 DEF StoredExact
    <2>1. CASE n = m
      BY <1>3, <1>5, <1>7, <2>1 DEF Exact
    <2>2. CASE n # m
      <3>1. StateOf(n) # None
        BY <1>3, <1>7, <2>2 DEF StateOf
      <3>2. \A q \in Procs : ~Saving(q, n)
        BY <1>6, <2>2 DEF Saving
      <3> QED
        BY <1>3, <1>7, <2>2, <3>1, <3>2 DEF IInv, StoredExact, Exact
    <2> QED
      BY <2>1, <2>2
  <1>14. \A q \in Procs : pc'[q] \in {"send", "save"} =>
             /\ q # p /\ pc'[q] = pc[q] /\ target'[q] = target[q] /\ read'[q] = read[q]
             /\ target[q] \in Mobiles
             /\ target[q] \notin mixed => target[q] # m
    BY <1>1, <1>6, <1>11 DEF CoverInv, TargetGiven, StepsWithTarget, Steps, Requesting
  <1>15. ReadExact'
    BY <1>3, <1>7, <1>14 DEF IInv, ReadExact, Exact, ValidateResendWindow
  <1>16. SentExact' /\ LastPast'
    BY <1>3, <1>14 DEF IInv, SentExact, LastPast
  <1> QED
    BY <1>6, <1>8, <1>10, <1>12, <1>13, <1>15, <1>16 DEF IInv, CoverInv

----------------------------------------------------------------------------
(***************************************************************************)
(* The steps of a verification and of the environment.                     *)
(***************************************************************************)
LEMMA CheckVerificationKeeps ==
    ASSUME IInv, NEW p \in Procs, CheckVerification(p)
    PROVE  IInv'
  <1>1. /\ UNCHANGED <<backend, now, states, accounts, history>>
        /\ UNCHANGED <<sent, streak, last, mixed>> /\ pc[p] = "check"
    BY DEF CheckVerification, history
  <1>2. CASE Return(p) /\ UNCHANGED codes
    BY <1>1, <1>2, ReturnKeeps DEF IInv, CoverInv, TypeOK, StateOf
  <1>3. CASE codes' = codes \ {target[p]} /\ Goto(p, "delete")
    BY <1>1, <1>3, GotoKeeps DEF Steps, StepsWithTarget
  <1> QED
    BY <1>2, <1>3 DEF CheckVerification

LEMMA DeleteStateKeeps ==
    ASSUME IInv, NEW p \in Procs, DeleteState(p)
    PROVE  IInv'
  <1>1. /\ UNCHANGED <<backend, now, accounts, codes, sent, streak, last, mixed>>
        /\ pc[p] = "delete" /\ Return(p) /\ mixed' \subseteq Mobiles
    BY DEF DeleteState, history, IInv, CoverInv, TypeOK
  <1>2. /\ states' \in [Mobiles -> State \cup {None}]
        /\ \A m \in Mobiles : states'[m] = states[m] \/ states'[m] = None
    BY DEF IInv, CoverInv, TypeOK, DeleteState
  <1>3. \A m \in Mobiles : StateOf(m)' # None => StateOf(m) # None
    BY <1>1, <1>2 DEF StateOf
  <1> QED
    BY <1>1, <1>2, <1>3, ReturnKeeps

LEMMA AbortKeeps ==
    ASSUME IInv, NEW p \in Procs, Abort(p)
    PROVE  IInv'
  <1>1. /\ UNCHANGED <<backend, now, states, accounts, codes, sent, streak, last>> /\ Return(p)
        /\ mixed' = IF pc[p] = "save" THEN mixed \cup {target[p]} ELSE mixed
    BY DEF Abort
  <1>2. /\ mixed \subseteq mixed' /\ mixed' \subseteq Mobiles
        /\ pc[p] = "save" => target[p] \in mixed'
    BY <1>1 DEF IInv, CoverInv, TypeOK, TargetGiven, StepsWithTarget, Steps
  <1> QED
    BY <1>1, <1>2, ReturnKeeps DEF IInv, CoverInv, TypeOK, StateOf

LEMMA EnvironmentKeeps ==
    ASSUME IInv, (\E m \in Mobiles : NewAccount(m) \/ SignupCode(m)) \/ Tick \/ Restart
    PROVE  IInv'
  <1>1. CoverInv /\ TypeOK
    BY DEF IInv, CoverInv
  <1>2. TypeOK' /\ TargetGiven'
    <2>1. CASE \E m \in Mobiles : NewAccount(m) \/ SignupCode(m)
      BY <1>1, <2>1 DEF CoverInv, TypeOK, TargetGiven, NewAccount, SignupCode, history
    <2>2. CASE Tick
      BY <1>1, <2>2 DEF CoverInv, TypeOK, TargetGiven, Tick, history
    <2>3. CASE Restart
      BY <1>1, <2>3
      DEF CoverInv, TypeOK, TargetGiven, Restart, Steps, StepsWithTarget, history
    <2> QED
      BY <2>1, <2>2, <2>3
  <1>3. now' >= now /\ UNCHANGED <<backend, sent, streak, last>>
    BY <1>1 DEF TypeOK, NewAccount, SignupCode, Tick, Restart, history
  <1>4. \A m \in Mobiles : states'[m] = states[m] \/ states'[m] = None
    BY <1>1 DEF TypeOK, NewAccount, SignupCode, Tick, Restart
  <1>5. \A m \in Mobiles : StateOf(m)' # None => StateOf(m) # None
    <2> TAKE m \in Mobiles
    <2>1. states[m] \in State \cup {None} /\ now \in Nat /\ now' \in Nat
      BY <1>1, <1>2 DEF TypeOK
    <2> QED
      BY <1>3, <1>4, <2>1, StateFields DEF StateOf
  <1>6. CASE (\E m \in Mobiles : NewAccount(m) \/ SignupCode(m)) \/ Tick
    <2>1. UNCHANGED <<pc, target, read, mixed>>
      BY <1>6 DEF NewAccount, SignupCode, Tick, history
    <2>2. \A p \in Procs : Settled(p)
      BY <2>1 DEF Settled
    <2>3. CoverInv'
      BY <1>1, <1>2, <1>3, <1>4, <2>2, QuietCover
    <2>4. \A p \in Procs, m \in Mobiles :
              (Requesting(p, m)' => Requesting(p, m)) /\ (Saving(p, m) => Saving(p, m)')
      BY <2>1 DEF Requesting, Saving
    <2> QED
      BY <1>3, <1>4, <1>5, <2>1, <2>2, <2>3, <2>4, QuietStep
  <1>7. CASE Restart
    <2>1. \A p \in Procs : pc'[p] = "idle"
      BY <1>7 DEF Restart
    <2>2. \A p \in Procs : Settled(p)
      BY <2>1 DEF Settled
    <2>3. CoverInv'
      BY <1>1, <1>2, <1>3, <1>4, <2>2, QuietCover
    <2>4. /\ \A p \in Procs, m \in Mobiles : ~Requesting(p, m)'
          /\ \A m \in Mobiles : StateOf(m)' = None
      BY <1>7, <2>1 DEF Requesting, Restart, StateOf
    <2>5. Alone' /\ StoredExact' /\ ReadExact' /\ SentExact'
      BY <2>1, <2>4 DEF Alone, StoredExact, ReadExact, SentExact
    <2>6. LastPast'
      BY <1>7 DEF IInv, LastPast, Restart, history
    <2> QED
      BY <2>3, <2>5, <2>6 DEF IInv
  <1> QED
    BY <1>6, <1>7

LEMMA InvNext ==
    ASSUME IInv, [Next]_vars
    PROVE  IInv'
  <1>1. ASSUME NEW p \in Procs, Request(p)
        PROVE  IInv'
    BY <1>1, RequestLoginOTPKeeps, LookUpKeeps, ReadStateKeeps, SendKeeps, SaveStateKeeps
    DEF Request, RequestUser
  <1>2. ASSUME NEW p \in Procs, Verify(p)
        PROVE  IInv'
    BY <1>2, VerifyLoginOTPKeeps, LookUpKeeps, CheckVerificationKeeps, DeleteStateKeeps
    DEF Verify, VerifyUser
  <1>3. CASE UNCHANGED vars
    BY <1>3
    DEF vars, IInv, CoverInv, TypeOK, TargetGiven, StateNotInflated, ReadCovered, SentCovered,
        Covered, Alone, Requesting, StoredExact, StateOf, Saving, Exact, ReadExact,
        ValidateResendWindow, SentExact, LastPast
  <1> QED
    BY <1>1, <1>2, <1>3, AbortKeeps, EnvironmentKeeps DEF Next

----------------------------------------------------------------------------
(***************************************************************************)
(* The theorems.                                                           *)
(***************************************************************************)

\* The invariant holds in every reachable state, whatever requests do between the calls of
\* RequestLoginOTP and VerifyLoginOTP.
THEOREM Invariant == Spec => []IInv
  <1>1. Init => IInv
    BY InvInit
  <1>2. IInv /\ [Next]_vars => IInv'
    BY InvNext
  <1> QED
    BY <1>1, <1>2, PTL DEF Spec

\* Type correctness: what RequestLoginOTP saves is always a whole OTPRequestState.
THEOREM TypeCorrect == Spec => []TypeOK
  <1>1. IInv => TypeOK
    BY DEF IInv, CoverInv
  <1> QED
    BY <1>1, Invariant, PTL

\* The states that RequestLoginOTP saves from what it read before its call to the provider
\* never count a message that was not sent.
THEOREM StatesNeverInflated == Spec => []StateNotInflated
  <1>1. IInv => StateNotInflated
    BY DEF IInv, CoverInv
  <1> QED
    BY <1>1, Invariant, PTL

\* The resend count that RequestLoginOTP carries from state to state keeps the messages
\* within MaxResends, as long as its requests come one after the other.
THEOREM LimitHolds == Spec => []LoginLimitRespected
  <1>1. ASSUME IInv, MaxResends > 0, NEW m \in Mobiles, m \notin mixed, StateOf(m) # None
        PROVE  streak[m] <= MaxResends + 1
    <2>1. MaxResends \in Nat /\ states[m] \in State
      BY <1>1, LoginAssumption DEF IInv, CoverInv, TypeOK, StateOf
    <2>2. CASE \E p \in Procs : Saving(p, m)
      <3> PICK p \in Procs : Saving(p, m)
        BY <2>2
      <3>1. read[p] \in State \cup {None}
        BY <1>1 DEF IInv, CoverInv, TypeOK
      <3> QED
        BY <1>1, <2>1, <3>1, StateFields DEF IInv, SentExact, Saving
    <2>3. CASE \A p \in Procs : ~Saving(p, m)
      BY <1>1, <2>1, <2>3, StateFields DEF IInv, StoredExact, Exact
    <2> QED
      BY <2>2, <2>3
  <1>2. IInv => LoginLimitRespected
    BY <1>1 DEF LoginLimitRespected
  <1> QED
    BY <1>2, Invariant, PTL

\* SendVerification is called only after the cooldown of the message before it: the state
\* that was read, and validated before the call, is the one that message left.
THEOREM CooldownHolds == Spec => LoginCooldownRespected
  <1>1. ASSUME IInv, [Next]_vars, NEW m \in Mobiles \ mixed, sent'[m] > sent[m],
               StateOf(m) # None
        PROVE  now - last[m] >= Cooldown
    <2>1. \A n \in Mobiles : sent[n] \in Nat
      BY <1>1 DEF IInv, CoverInv, TypeOK
    <2>2. sent' # sent
      BY <1>1, <2>1
    <2>3. PICK p \in Procs : Send(p)
      BY <1>1, <2>2
      DEF Next, Request, Verify, RequestLoginOTP, VerifyLoginOTP, RequestUser, VerifyUser, Begin,
          LookUp, ReadState, SaveState, CheckVerification, DeleteState, Abort, NewAccount, SignupCode, Tick,
          Restart, vars, history
    <2>4. target[p] = m /\ pc[p] = "send"
      <3>1. sent' = [sent EXCEPT ![target[p]] = @ + 1] /\ pc[p] = "send"
        BY <2>3 DEF Send
      <3> QED
        BY <1>1, <2>1, <3>1 DEF IInv, CoverInv, TypeOK
    <2>5. read[p] # None
      BY <1>1, <2>4 DEF IInv, ReadExact, StateOf
    <2>6. Exact(read[p], m) /\ ValidateResendWindow(read[p])
      BY <1>1, <2>4, <2>5 DEF IInv, ReadExact
    <2>7. read[p] \in State /\ now \in Nat /\ last[m] \in Nat /\ last[m] <= now
      BY <1>1, <2>5 DEF IInv, CoverInv, TypeOK, LastPast
    <2> QED
      BY <2>6, <2>7, StateFields, LoginAssumption DEF Exact, ValidateResendWindow
  <1>2. IInv /\ [Next]_vars =>
            [\A m \in Mobiles \ mixed :
                sent'[m] > sent[m] /\ StateOf(m) # None => now - last[m] >= Cooldown]_vars
    BY <1>1
  <1> QED
    BY <1>2, Invariant, PTL DEF Spec, LoginCooldownRespected
=============================================================================
