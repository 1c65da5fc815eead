--------------------------- MODULE SignupProofs ---------------------------
(***************************************************************************)
(* Theorems of Signup, for every number of requests, identities and        *)
(* configuration.  The argument goes in layers: the types together with    *)
(* what a request's locals hold at each step (TypeInv); the few ways in    *)
(* which a step changes the store (StoreChange); then each invariant by a  *)
(* case analysis over those few ways, not over all the actions.            *)
(***************************************************************************)
EXTENDS Signup, TLAPS

AtRequest == {"userName", "userEmail", "userMobile",
              "indexName", "indexEmail", "indexMobile", "conflict", "send"}

AtTarget == {"resendSend", "age", "check", "register", "delKeys"}

\* What the locals of a request hold at each of its steps.
LocalsOK ==
    \A p \in Procs :
        /\ pc[p] \in AtRequest => req[p] \in Identity
        /\ pc[p] # "idle" => target[p] \in Mobiles
        /\ pc[p] \in AtTarget \cup {"save"} => pend[p] \in PendingSignup
        /\ pc[p] \in AtTarget => pend[p].mobile = target[p]

\* A payload is stored under its own mobile.
KeysOK == \A m \in Mobiles : signups[m] # None => signups[m].mobile = m

TypeInv == TypeOK /\ LocalsOK /\ KeysOK

----------------------------------------------------------------------------
(***************************************************************************)
(* The store.                                                              *)
(***************************************************************************)
StoreInv == StoreTypeOK /\ KeysOK

\* Entry(s) is an index entry: what Save writes in the three indices.
LEMMA EntryType == \A s \in PendingSignup : Entry(s) \in IndexEntry
  BY DEF Entry, PendingSignup, IndexEntry

\* None is told apart from every value it stands beside.
LEMMA NoneFacts ==
    /\ None \notin PendingSignup
    /\ None \notin IndexEntry
    /\ None \notin Identity
    /\ None \notin Mobiles
  BY NoneAssumption, NoneIdentityAssumption

\* deleteLocked and DeleteByMobile keep the store well formed.
LEMMA DropStore ==
    ASSUME StoreInv, NEW m \in Mobiles, NEW s, Drop(m, s), UNCHANGED now
    PROVE  StoreInv'
  BY DEF StoreInv, StoreTypeOK, KeysOK, Drop

\* So does Save.
LEMMA SaveStore ==
    ASSUME StoreInv, NEW s \in PendingSignup, Save(s), UNCHANGED now
    PROVE  StoreInv'
<1>1. s.mobile \in Mobiles
  BY DEF PendingSignup
<1>2. Entry(s) \in IndexEntry
  BY EntryType
<1>3. signups' \in [Mobiles -> PendingSignup \cup {None}] /\ KeysOK'
  BY <1>1 DEF Save, StoreInv, StoreTypeOK, KeysOK
<1>4. byUsername' \in [Usernames -> IndexEntry \cup {None}]
  BY <1>2 DEF Save, StoreInv, StoreTypeOK
<1>5. byEmail' \in [Emails -> IndexEntry \cup {None}]
  BY <1>2 DEF Save, StoreInv, StoreTypeOK
<1>6. byMobile' \in [Mobiles -> IndexEntry \cup {None}]
  BY <1>2 DEF Save, StoreInv, StoreTypeOK
<1> QED
  BY <1>3, <1>4, <1>5, <1>6 DEF StoreInv, StoreTypeOK

\* A read leaves the store as it is or deletes the signup it met.
LEMMA TouchStore ==
    ASSUME StoreInv, NEW m \in Mobiles, Touch(m)
    PROVE  \/ UNCHANGED storeVars
           \/ signups[m] # None /\ Drop(m, signups[m])
  BY DEF Touch, PayloadOf

\* What a read of the payload returns is the payload, or nothing.
LEMMA PayloadFacts ==
    ASSUME StoreInv, NEW m \in Mobiles, PayloadOf(m) # None
    PROVE  /\ PayloadOf(m) = signups[m]
           /\ PayloadOf(m) \in PendingSignup
           /\ PayloadOf(m).mobile = m
  BY DEF PayloadOf, StoreInv, StoreTypeOK, KeysOK

\* What a read of an index returns is a mobile, or nothing.
LEMMA MobileOfFacts ==
    ASSUME NEW entry \in IndexEntry \cup {None}, MobileOf(entry) # None
    PROVE  entry # None /\ MobileOf(entry) \in Mobiles
  BY DEF MobileOf, IndexEntry

\* The clock takes keys away and changes none.
LEMMA TickStore ==
    ASSUME StoreInv, StoreTick
    PROVE  StoreInv'
<1>1. \A x : Alive(x) = x \/ Alive(x) = None
  BY DEF Alive
<1> QED
  BY <1>1 DEF StoreTick, StoreInv, StoreTypeOK, KeysOK

\* A restart takes all keys away, or none.
LEMMA RestartStore ==
    ASSUME StoreInv, StoreRestart, UNCHANGED now
    PROVE  StoreInv'
  BY DEF StoreRestart, StoreInv, StoreTypeOK, KeysOK, storeVars
----------------------------------------------------------------------------
(***************************************************************************)
(* Types.                                                                  *)
(***************************************************************************)

\* What a request keeps in its locals, whatever the store does.
ControlOK ==
    /\ pc \in [Procs -> Steps]
    /\ req \in [Procs -> Identity \cup {None}]
    /\ target \in [Procs -> Mobiles \cup {None}]
    /\ pend \in [Procs -> PendingSignup \cup {None}]
    /\ LocalsOK

DataOK ==
    /\ users \subseteq Identity
    /\ codes \subseteq Mobiles
    /\ offered \subseteq Identity
    /\ approved \subseteq Mobiles
    /\ sends \in [Mobiles -> Nat]

\* Going on to a step that asks for no more than the step before it.
LEMMA GotoControl ==
    ASSUME ControlOK, NEW p \in Procs, NEW s \in Steps, Goto(p, s), pc[p] # "idle",
           s \in AtRequest => req[p] \in Identity,
           s \in AtTarget \cup {"save"} => pend[p] \in PendingSignup,
           s \in AtTarget => pend[p].mobile = target[p]
    PROVE  ControlOK'
  BY DEF ControlOK, LocalsOK, Goto

\* An answered request keeps nothing.
LEMMA ReturnControl ==
    ASSUME ControlOK, NEW p \in Procs, Return(p)
    PROVE  ControlOK'
  BY DEF ControlOK, LocalsOK, Return, Steps, AtRequest, AtTarget

\* A request that begins knows its mobile.
LEMMA BeginControl ==
    ASSUME ControlOK, NEW p \in Procs, NEW m \in Mobiles,
           NEW s \in {"resend", "verify", "status"}, Begin(p, m, s)
    PROVE  ControlOK'
  BY DEF ControlOK, LocalsOK, Begin, Steps, AtRequest, AtTarget

LEMMA UserLookupControl ==
    ASSUME ControlOK, NEW p \in Procs, NEW here \in AtRequest, NEW next \in AtRequest,
           NEW taken, UserLookup(p, here, taken, next)
    PROVE  ControlOK'
<1>1. CASE taken
  BY <1>1, ReturnControl DEF UserLookup
<1>2. CASE ~taken
  <2>1. pc[p] \in AtRequest /\ Goto(p, next)
    BY <1>2 DEF UserLookup
  <2>2. req[p] \in Identity /\ pc[p] # "idle"
    BY <2>1 DEF ControlOK, LocalsOK, AtRequest
  <2> QED
    BY <2>1, <2>2, GotoControl DEF AtRequest, AtTarget, Steps
<1> QED
  BY <1>1, <1>2

\* GetByMobile hands over a payload of the mobile it was asked for.
LEMMA ReadPendingControl ==
    ASSUME ControlOK, StoreInv, NEW p \in Procs,
           NEW here \in {"resend", "verify"}, NEW next \in {"resendSend", "age"},
           ReadPending(p, here, next)
    PROVE  ControlOK'
<1>1. target[p] \in Mobiles
  BY DEF ReadPending, ControlOK, LocalsOK
<1>2. CASE PayloadOf(target[p]) = None
  BY <1>2, ReturnControl DEF ReadPending
<1>3. CASE PayloadOf(target[p]) # None
  <2>1. /\ PayloadOf(target[p]) \in PendingSignup
        /\ PayloadOf(target[p]).mobile = target[p]
    BY <1>1, <1>3, PayloadFacts
  <2>2. /\ pc' = [pc EXCEPT ![p] = next]
        /\ pend' = [pend EXCEPT ![p] = PayloadOf(target[p])]
        /\ UNCHANGED <<req, target>>
    BY <1>3 DEF ReadPending
  <2> QED
    BY <1>1, <2>1, <2>2 DEF ControlOK, LocalsOK, Steps, AtRequest, AtTarget
<1> QED
  BY <1>2, <1>3

\* An index lookup in which a miss leads to step next.
LEMMA IndexLookupControl ==
    ASSUME ControlOK, NEW p \in Procs, NEW here \in AtRequest, pc[p] = here,
           NEW next \in AtRequest, NEW entry \in IndexEntry \cup {None},
           IF MobileOf(entry) = None
           THEN Goto(p, next)
           ELSE /\ pc' = [pc EXCEPT ![p] = "conflict"]
                /\ target' = [target EXCEPT ![p] = MobileOf(entry)]
                /\ UNCHANGED <<req, pend>>
    PROVE  ControlOK'
<1>1. req[p] \in Identity /\ pc[p] # "idle"
  BY DEF ControlOK, LocalsOK, AtRequest
<1>2. CASE MobileOf(entry) = None
  BY <1>1, <1>2, GotoControl DEF AtRequest, AtTarget, Steps
<1>3. CASE MobileOf(entry) # None
  <2>1. MobileOf(entry) \in Mobiles
    BY <1>3, MobileOfFacts
  <2> QED
    BY <1>1, <1>3, <2>1 DEF ControlOK, LocalsOK, Steps, AtRequest, AtTarget
<1> QED
  BY <1>2, <1>3

\* Every step of a request keeps the control well formed.
LEMMA RequestControl ==
    ASSUME TypeInv, NEW p \in Procs, Request(p)
    PROVE  ControlOK'
<1> USE DEF AtRequest, AtTarget, Steps
<1>1. ControlOK /\ StoreInv
  BY DEF TypeInv, TypeOK, ControlOK, StoreInv
<1>2. pc[p] \in AtRequest => req[p] \in Identity /\ pc[p] # "idle"
  BY <1>1 DEF ControlOK, LocalsOK
<1>3. CASE RequestSignupOTP(p)
  BY <1>1, <1>3 DEF RequestSignupOTP, ControlOK, LocalsOK, Identity
<1>4. CASE CheckUsername(p) \/ CheckEmail(p) \/ CheckMobile(p)
  BY <1>1, <1>4, UserLookupControl DEF CheckUsername, CheckEmail, CheckMobile
<1>5. CASE CheckIndexName(p)
  <2>1. req[p].username \in Usernames
    BY <1>2, <1>5 DEF CheckIndexName, IndexLookup, Identity
  <2> QED
    BY <1>1, <1>5, <2>1, IndexLookupControl
    DEF CheckIndexName, IndexLookup, StoreInv, StoreTypeOK
<1>6. CASE CheckIndexEmail(p)
  <2>1. req[p].email \in Emails
    BY <1>2, <1>6 DEF CheckIndexEmail, IndexLookup, Identity
  <2> QED
    BY <1>1, <1>6, <2>1, IndexLookupControl
    DEF CheckIndexEmail, IndexLookup, StoreInv, StoreTypeOK
<1>7. CASE CheckIndexMobile(p)
  <2>1. req[p].mobile \in Mobiles
    BY <1>2, <1>7 DEF CheckIndexMobile, IndexLookup, Identity
  <2> QED
    BY <1>1, <1>7, <2>1, IndexLookupControl
    DEF CheckIndexMobile, IndexLookup, Available, StoreInv, StoreTypeOK
<1>8. CASE PendingConflict(p)
  BY <1>1, <1>2, <1>8, GotoControl, ReturnControl DEF PendingConflict, Available
<1>9. CASE Send(p)
  <2>1. req[p] \in Identity /\ target[p] \in Mobiles /\ pc[p] = "send"
    BY <1>1, <1>2, <1>9 DEF Send, ControlOK, LocalsOK
  <2>2. NewSignup(req[p]) \in PendingSignup
    BY <1>1, <2>1, ConfigAssumption
    DEF NewSignup, Identity, PendingSignup, StoreInv, StoreTypeOK
  <2> QED
    BY <1>1, <1>9, <2>1, <2>2 DEF Send, ControlOK, LocalsOK
<1>10. CASE SaveSignup(p)
  BY <1>1, <1>10, ReturnControl DEF SaveSignup
<1> QED
  BY <1>3, <1>4, <1>5, <1>6, <1>7, <1>8, <1>9, <1>10 DEF Request

\* ResendSignupOTP changes the count and the time of a pending signup, nothing else.
LEMMA ResentType ==
    ASSUME now \in Nat, NEW s \in PendingSignup
    PROVE  Resent(s) \in PendingSignup /\ IdentityOf(Resent(s)) = IdentityOf(s)
<1> DEFINE t == [s EXCEPT !.resends = s.resends + 1]
<1>1. t \in PendingSignup /\ IdentityOf(t) = IdentityOf(s)
  BY DEF PendingSignup, IdentityOf
<1>2. [t EXCEPT !.lastSent = now] \in PendingSignup
  BY <1>1 DEF PendingSignup
<1>3. IdentityOf([t EXCEPT !.lastSent = now]) = IdentityOf(t)
  BY <1>1 DEF PendingSignup, IdentityOf
<1>4. Resent(s) = [t EXCEPT !.lastSent = now]
  BY DEF Resent
<1> QED
  BY <1>1, <1>2, <1>3, <1>4

LEMMA ResendControl ==
    ASSUME TypeInv, NEW p \in Procs, Resend(p)
    PROVE  ControlOK'
<1> USE DEF AtRequest, AtTarget, Steps
<1>1. ControlOK /\ StoreInv
  BY DEF TypeInv, TypeOK, ControlOK, StoreInv
<1>2. CASE ResendSignupOTP(p)
  BY <1>1, <1>2, BeginControl DEF ResendSignupOTP
<1>3. CASE ResendRead(p)
  BY <1>1, <1>3, ReadPendingControl DEF ResendRead
<1>4. CASE ResendSend(p)
  <2>1. /\ pc[p] = "resendSend"
        /\ pend[p] \in PendingSignup
        /\ target[p] \in Mobiles
    BY <1>1, <1>4 DEF ResendSend, ControlOK, LocalsOK
  <2>2. CASE ValidateResendWindow(pend[p])
    <3>1. Resent(pend[p]) \in PendingSignup
      BY <1>1, <2>1, ResentType DEF StoreInv, StoreTypeOK
    <3>2. pend' = [pend EXCEPT ![p] = Resent(pend[p])]
      BY <1>1, <1>4, <2>1, <2>2 DEF ResendSend, ControlOK
    <3> QED
      BY <1>1, <1>4, <2>1, <2>2, <3>1, <3>2 DEF ResendSend, ControlOK, LocalsOK
  <2>3. CASE ~ValidateResendWindow(pend[p])
    BY <1>1, <1>4, <2>3, ReturnControl DEF ResendSend
  <2> QED
    BY <2>2, <2>3
<1> QED
  BY <1>2, <1>3, <1>4 DEF Resend

LEMMA VerifyControl ==
    ASSUME TypeInv, NEW p \in Procs, Verify(p)
    PROVE  ControlOK'
<1> USE DEF AtRequest, AtTarget, Steps
<1>1. ControlOK /\ StoreInv
  BY DEF TypeInv, TypeOK, ControlOK, StoreInv
<1>2. pc[p] \in AtTarget => /\ target[p] \in Mobiles
                           /\ pend[p] \in PendingSignup
                           /\ pend[p].mobile = target[p]
  BY <1>1 DEF ControlOK, LocalsOK
<1>3. CASE VerifySignupOTP(p)
  BY <1>1, <1>3, BeginControl DEF VerifySignupOTP
<1>4. CASE VerifyRead(p)
  BY <1>1, <1>4, ReadPendingControl DEF VerifyRead
<1>5. CASE CheckAge(p)
  BY <1>1, <1>2, <1>5, GotoControl DEF CheckAge
<1>6. CASE CheckVerification(p)
  BY <1>1, <1>2, <1>6, GotoControl, ReturnControl DEF CheckVerification
<1>7. CASE RegisterUser(p)
  BY <1>1, <1>2, <1>7, GotoControl, ReturnControl DEF RegisterUser
<1>8. CASE DeleteByMobile(p)
  <2>1. pc[p] = "delete" /\ target[p] \in Mobiles
    BY <1>1, <1>8 DEF DeleteByMobile, ControlOK, LocalsOK
  <2>2. CASE Return(p)
    BY <1>1, <2>2, ReturnControl
  <2>3. CASE ~Return(p)
    <3>1. /\ signups[target[p]] # None
          /\ pc' = [pc EXCEPT ![p] = "delKeys"]
          /\ pend' = [pend EXCEPT ![p] = signups[target[p]]]
          /\ UNCHANGED <<req, target>>
      BY <1>8, <2>3 DEF DeleteByMobile
    <3>2. /\ signups[target[p]] \in PendingSignup
          /\ signups[target[p]].mobile = target[p]
      BY <1>1, <2>1, <3>1 DEF StoreInv, StoreTypeOK, KeysOK
    <3> QED
      BY <1>1, <2>1, <3>1, <3>2 DEF ControlOK, LocalsOK
  <2> QED
    BY <2>2, <2>3
<1>9. CASE DeleteKeys(p)
  BY <1>1, <1>9, ReturnControl DEF DeleteKeys
<1> QED
  BY <1>3, <1>4, <1>5, <1>6, <1>7, <1>8, <1>9 DEF Verify

LEMMA StatusControl ==
    ASSUME TypeInv, NEW p \in Procs, Status(p)
    PROVE  ControlOK'
<1> USE DEF AtRequest, AtTarget, Steps
<1>1. ControlOK
  BY DEF TypeInv, TypeOK, ControlOK
<1>2. CASE SignupStatus(p)
  BY <1>1, <1>2, BeginControl DEF SignupStatus
<1>3. CASE StatusPending(p)
  BY <1>1, <1>3, GotoControl DEF StatusPending
<1>4. CASE StatusUser(p)
  BY <1>1, <1>4, GotoControl DEF StatusUser
<1>5. CASE StatusAnswered(p)
  BY <1>1, <1>5, ReturnControl DEF StatusAnswered
<1> QED
  BY <1>2, <1>3, <1>4, <1>5 DEF Status

\* The environment.
LEMMA EnvironmentControl ==
    ASSUME TypeInv, Tick \/ Restart \/ \E p \in Procs : Abort(p)
    PROVE  ControlOK'
<1>1. ControlOK
  BY DEF TypeInv, TypeOK, ControlOK
<1>2. CASE Tick
  BY <1>1, <1>2 DEF Tick, ControlOK, LocalsOK, localVars
<1>3. CASE Restart
  BY <1>3 DEF Restart, ControlOK, LocalsOK, Steps, AtRequest, AtTarget
<1>4. CASE \E p \in Procs : Abort(p)
  BY <1>1, <1>4, ReturnControl DEF Abort
<1> QED
  BY <1>2, <1>3, <1>4

LEMMA StepControl ==
    ASSUME TypeInv, Step
    PROVE  ControlOK'
  BY RequestControl, ResendControl, VerifyControl, StatusControl, EnvironmentControl
  DEF Step

----------------------------------------------------------------------------
(***************************************************************************)
(* What a step does to the store and to the data beside it.                *)
(***************************************************************************)

\* The ways in which a step changes the store.
StoreChange ==
    \/ UNCHANGED <<now, storeVars>>
    \/ \E m \in Mobiles : signups[m] # None /\ Drop(m, signups[m]) /\ UNCHANGED now
    \/ \E p \in Procs : pc[p] = "delKeys" /\ Drop(target[p], pend[p]) /\ UNCHANGED now
    \/ \E p \in Procs : pc[p] = "save" /\ CanSave(pend[p]) /\ Save(pend[p]) /\ UNCHANGED now
    \/ StoreTick
    \/ StoreRestart /\ UNCHANGED now

LEMMA TouchChange ==
    ASSUME StoreInv, NEW m \in Mobiles, Touch(m), UNCHANGED now
    PROVE  StoreChange
  BY TouchStore DEF StoreChange

LEMMA TouchIndexChange ==
    ASSUME StoreInv, NEW entry \in IndexEntry \cup {None}, TouchIndex(entry),
           UNCHANGED now
    PROVE  StoreChange
  BY TouchChange DEF TouchIndex, IndexEntry, StoreChange

LEMMA StepStore ==
    ASSUME TypeInv, Step
    PROVE  StoreChange
<1>1. ControlOK /\ StoreInv
  BY DEF TypeInv, TypeOK, ControlOK, StoreInv
<1>2. CASE Tick \/ Restart
  BY <1>2 DEF Tick, Restart, StoreChange
<1>3. ASSUME NEW p \in Procs, Request(p) PROVE StoreChange
  <2>1. pc[p] \in AtRequest => /\ req[p] \in Identity
                              /\ target[p] \in Mobiles
    BY <1>1 DEF ControlOK, LocalsOK, AtRequest
  <2>2. CASE CheckIndexName(p) \/ CheckIndexEmail(p) \/ CheckIndexMobile(p)
    <3>1. req[p] \in Identity
      BY <2>1, <2>2
      DEF CheckIndexName, CheckIndexEmail, CheckIndexMobile, IndexLookup, AtRequest
    <3>2. /\ byUsername[req[p].username] \in IndexEntry \cup {None}
          /\ byEmail[req[p].email] \in IndexEntry \cup {None}
          /\ byMobile[req[p].mobile] \in IndexEntry \cup {None}
      BY <1>1, <3>1 DEF Identity, StoreInv, StoreTypeOK
    <3> QED
      BY <1>1, <2>2, <3>2, TouchIndexChange
      DEF CheckIndexName, CheckIndexEmail, CheckIndexMobile, IndexLookup
  <2>3. CASE PendingConflict(p)
    BY <1>1, <2>1, <2>3, TouchChange DEF PendingConflict, AtRequest
  <2>4. CASE SaveSignup(p)
    BY <2>4 DEF SaveSignup, StoreChange
  <2>5. CASE \/ RequestSignupOTP(p) \/ CheckUsername(p) \/ CheckEmail(p)
             \/ CheckMobile(p) \/ Send(p)
    BY <2>5 DEF RequestSignupOTP, CheckUsername, CheckEmail, CheckMobile,
                UserLookup, Send, StoreChange
  <2> QED
    BY <1>3, <2>2, <2>3, <2>4, <2>5 DEF Request
<1>4. ASSUME NEW p \in Procs, Resend(p) PROVE StoreChange
  <2>1. CASE ResendRead(p)
    BY <1>1, <2>1, TouchChange DEF ResendRead, ReadPending, ControlOK, LocalsOK
  <2>2. CASE ResendSignupOTP(p) \/ ResendSend(p)
    BY <2>2 DEF ResendSignupOTP, Begin, ResendSend, StoreChange
  <2> QED
    BY <1>4, <2>1, <2>2 DEF Resend
<1>5. ASSUME NEW p \in Procs, Verify(p) PROVE StoreChange
  <2>1. CASE VerifyRead(p)
    BY <1>1, <2>1, TouchChange DEF VerifyRead, ReadPending, ControlOK, LocalsOK
  <2>2. CASE DeleteByMobile(p)
    BY <1>1, <2>2 DEF DeleteByMobile, StoreChange, ControlOK, LocalsOK
  <2>3. CASE DeleteKeys(p)
    BY <2>3 DEF DeleteKeys, StoreChange
  <2>4. CASE \/ VerifySignupOTP(p) \/ CheckAge(p)
             \/ CheckVerification(p) \/ RegisterUser(p)
    BY <2>4 DEF VerifySignupOTP, Begin, CheckAge, CheckVerification, RegisterUser,
                StoreChange
  <2> QED
    BY <1>5, <2>1, <2>2, <2>3, <2>4 DEF Verify
<1>6. ASSUME NEW p \in Procs, Status(p) PROVE StoreChange
  <2>1. CASE StatusPending(p)
    BY <1>1, <2>1, TouchChange DEF StatusPending, ControlOK, LocalsOK
  <2>2. CASE SignupStatus(p) \/ StatusUser(p) \/ StatusAnswered(p)
    BY <2>2 DEF SignupStatus, Begin, StatusUser, StatusAnswered, StoreChange
  <2> QED
    BY <1>6, <2>1, <2>2 DEF Status
<1>7. ASSUME NEW p \in Procs, Abort(p) PROVE StoreChange
  BY <1>7 DEF Abort, StoreChange
<1> QED
  BY <1>2, <1>3, <1>4, <1>5, <1>6, <1>7 DEF Step

\* Every change of the store keeps it well formed.
LEMMA StoreChangeType ==
    ASSUME TypeInv, StoreChange
    PROVE  StoreInv'
<1>1. ControlOK /\ StoreInv
  BY DEF TypeInv, TypeOK, ControlOK, StoreInv
<1>2. CASE UNCHANGED <<now, storeVars>>
  BY <1>1, <1>2 DEF StoreInv, StoreTypeOK, KeysOK, storeVars
<1>3. CASE \E m \in Mobiles : signups[m] # None /\ Drop(m, signups[m]) /\ UNCHANGED now
  BY <1>1, <1>3, DropStore
<1>4. CASE \E p \in Procs : /\ pc[p] = "delKeys"
                            /\ Drop(target[p], pend[p]) /\ UNCHANGED now
  BY <1>1, <1>4, DropStore DEF ControlOK, LocalsOK
<1>5. CASE \E p \in Procs : pc[p] = "save" /\ Save(pend[p]) /\ UNCHANGED now
  BY <1>1, <1>5, SaveStore DEF ControlOK, LocalsOK
<1>6. CASE StoreTick
  BY <1>1, <1>6, TickStore
<1>7. CASE StoreRestart /\ UNCHANGED now
  BY <1>1, <1>7, RestartStore
<1> QED
  BY <1>2, <1>3, <1>4, <1>5, <1>6, <1>7 DEF StoreChange

(***************************************************************************)
(* What a step does to the rows of the users table and to the history: it  *)
(* adds to them, and says when.                                            *)
(***************************************************************************)
DataChange ==
    /\ \/ UNCHANGED users
       \/ \E p \in Procs : /\ pc[p] = "register"
                           /\ users' = users \cup {IdentityOf(pend[p])}
    /\ \/ UNCHANGED offered
       \/ \E p \in Procs : /\ pc[p] = "send"
                           /\ offered' = offered \cup {req[p]}
    /\ approved \subseteq approved'
    /\ \A p \in Procs : pc'[p] = "register" =>
          /\ UNCHANGED <<target[p], pend[p]>>
          /\ pc[p] = "register" \/ target[p] \in approved'

LEMMA StepData ==
    ASSUME TypeInv, Step
    PROVE  DataChange /\ DataOK'
<1>1. ControlOK /\ StoreInv /\ DataOK
  BY DEF TypeInv, TypeOK, ControlOK, StoreInv, DataOK
<1>2. CASE Tick \/ Restart
  BY <1>1, <1>2 DEF Tick, Restart, localVars, history, DataChange, DataOK, ControlOK
<1>3. ASSUME NEW p \in Procs, Request(p) PROVE DataChange /\ DataOK'
  <2>1. CASE \/ CheckUsername(p) \/ CheckEmail(p) \/ CheckMobile(p)
    BY <1>1, <2>1 DEF CheckUsername, CheckEmail, CheckMobile, UserLookup,
                      Goto, Return, history, DataChange, DataOK, ControlOK
  <2>2. CASE \/ CheckIndexName(p) \/ CheckIndexEmail(p) \/ CheckIndexMobile(p)
    BY <1>1, <2>2 DEF CheckIndexName, CheckIndexEmail, CheckIndexMobile, IndexLookup,
                      Goto, Available, history, DataChange, DataOK, ControlOK
  <2>3. CASE RequestSignupOTP(p) \/ PendingConflict(p)
    BY <1>1, <2>3 DEF RequestSignupOTP, PendingConflict, Available, Goto, Return,
                      history, DataChange, DataOK, ControlOK
  <2>4. CASE Send(p)
    <3>1. req[p] \in Identity
      BY <1>1, <2>4 DEF Send, ControlOK, LocalsOK, AtRequest
    <3> QED
      BY <1>1, <2>4, <3>1
      DEF Send, SendVerification, Identity, DataChange, DataOK, ControlOK
  <2>5. CASE SaveSignup(p)
    BY <1>1, <2>5 DEF SaveSignup, Return, DataChange, DataOK, ControlOK
  <2> QED
    BY <1>3, <2>1, <2>2, <2>3, <2>4, <2>5 DEF Request
<1>4. ASSUME NEW p \in Procs, Resend(p) PROVE DataChange /\ DataOK'
  <2>1. CASE ResendSignupOTP(p) \/ ResendRead(p)
    BY <1>1, <2>1 DEF ResendSignupOTP, Begin, ResendRead, ReadPending, Return,
                      history, DataChange, DataOK, ControlOK
  <2>2. CASE ResendSend(p)
    <3>1. target[p] \in Mobiles
      BY <1>1, <2>2 DEF ResendSend, ControlOK, LocalsOK
    <3>2. Min2(sends[target[p]] + 1, SendCap) \in Nat
      BY <1>1, <3>1, ConfigAssumption DEF Min2, DataOK
    <3>3. DataOK'
      BY <1>1, <2>2, <3>1, <3>2 DEF ResendSend, SendVerification, DataOK
    <3>4. DataChange
      BY <1>1, <2>2 DEF ResendSend, Return, DataChange, ControlOK
    <3> QED
      BY <3>3, <3>4
  <2> QED
    BY <1>4, <2>1, <2>2 DEF Resend
<1>5. ASSUME NEW p \in Procs, Verify(p) PROVE DataChange /\ DataOK'
  <2>1. pc[p] \in AtTarget => target[p] \in Mobiles /\ pend[p] \in PendingSignup
    BY <1>1 DEF ControlOK, LocalsOK, AtTarget
  <2>2. CASE VerifySignupOTP(p) \/ VerifyRead(p) \/ CheckAge(p)
    BY <1>1, <2>2 DEF VerifySignupOTP, Begin, VerifyRead, ReadPending, CheckAge,
                      Goto, Return, history, DataChange, DataOK, ControlOK
  <2>3. CASE CheckVerification(p)
    BY <1>1, <2>1, <2>3 DEF CheckVerification, Goto, Return, AtTarget,
                            DataChange, DataOK, ControlOK
  <2>4. CASE RegisterUser(p)
    <3>1. IdentityOf(pend[p]) \in Identity /\ pc[p] = "register"
      BY <2>1, <2>4 DEF RegisterUser, AtTarget, IdentityOf, Identity, PendingSignup
    <3> QED
      BY <1>1, <2>4, <3>1 DEF RegisterUser, Goto, Return, history,
                              DataChange, DataOK, ControlOK
  <2>5. CASE DeleteByMobile(p) \/ DeleteKeys(p)
    BY <1>1, <2>5 DEF DeleteByMobile, DeleteKeys, Return, history,
                      DataChange, DataOK, ControlOK
  <2> QED
    BY <1>5, <2>2, <2>3, <2>4, <2>5 DEF Verify
<1>6. ASSUME NEW p \in Procs, Status(p) PROVE DataChange /\ DataOK'
  BY <1>1, <1>6 DEF Status, SignupStatus, Begin, StatusPending, StatusUser,
                    StatusAnswered, Goto, Return, history, DataChange, DataOK, ControlOK
<1>7. ASSUME NEW p \in Procs, Abort(p) PROVE DataChange /\ DataOK'
  BY <1>1, <1>7 DEF Abort, Return, history, DataChange, DataOK, ControlOK
<1> QED
  BY <1>2, <1>3, <1>4, <1>5, <1>6, <1>7 DEF Step

\* Where the pending signup that a request works on comes from: the request had it,
\* reads it from the store, or makes it up as the message goes out.
PendOrigin(p) ==
    \/ /\ pc[p] \in AtTarget \cup {"save"}
       /\ IdentityOf(pend'[p]) = IdentityOf(pend[p])
    \/ \E m \in Mobiles : signups[m] # None /\ pend'[p] = signups[m]
    \/ IdentityOf(pend'[p]) \in offered'

PendChange == \A p \in Procs : pc'[p] \in AtTarget \cup {"save"} => PendOrigin(p)

LEMMA StepPend ==
    ASSUME TypeInv, Step
    PROVE  PendChange
<1> USE DEF AtTarget
<1>1. ControlOK /\ StoreInv
  BY DEF TypeInv, TypeOK, ControlOK, StoreInv
<1>2. CASE Tick \/ Restart
  BY <1>1, <1>2 DEF Tick, Restart, localVars, PendChange, PendOrigin, ControlOK
<1>3. ASSUME NEW p \in Procs, Request(p) PROVE PendChange
  <2>1. CASE \/ CheckUsername(p) \/ CheckEmail(p) \/ CheckMobile(p)
    BY <1>1, <2>1 DEF CheckUsername, CheckEmail, CheckMobile, UserLookup,
                      Goto, Return, PendChange, PendOrigin, ControlOK
  <2>2. CASE \/ CheckIndexName(p) \/ CheckIndexEmail(p) \/ CheckIndexMobile(p)
             \/ PendingConflict(p) \/ RequestSignupOTP(p)
    BY <1>1, <2>2 DEF CheckIndexName, CheckIndexEmail, CheckIndexMobile, IndexLookup,
                      PendingConflict, RequestSignupOTP, Goto, Return, Available,
                      PendChange, PendOrigin, ControlOK
  <2>3. CASE Send(p)
    <3>1. req[p] \in Identity
      BY <1>1, <2>3 DEF Send, ControlOK, LocalsOK, AtRequest
    <3>2. IdentityOf(NewSignup(req[p])) = req[p]
      BY <3>1 DEF IdentityOf, NewSignup, Identity
    <3> QED
      BY <1>1, <2>3, <3>2 DEF Send, PendChange, PendOrigin, ControlOK
  <2>4. CASE SaveSignup(p)
    BY <1>1, <2>4 DEF SaveSignup, Return, PendChange, PendOrigin, ControlOK
  <2> QED
    BY <1>3, <2>1, <2>2, <2>3, <2>4 DEF Request
<1>4. ASSUME NEW p \in Procs, Resend(p) PROVE PendChange
  <2>1. CASE ResendSignupOTP(p)
    BY <1>1, <2>1 DEF ResendSignupOTP, Begin, PendChange, PendOrigin, ControlOK
  <2>2. CASE ResendRead(p)
    <3>1. target[p] \in Mobiles
      BY <1>1, <2>2 DEF ResendRead, ReadPending, ControlOK, LocalsOK
    <3> QED
      BY <1>1, <2>2, <3>1, PayloadFacts
      DEF ResendRead, ReadPending, Return, PendChange, PendOrigin, ControlOK
  <2>3. CASE ResendSend(p)
    <3>1. pend[p] \in PendingSignup
      BY <1>1, <2>3 DEF ResendSend, ControlOK, LocalsOK
    <3>2. IdentityOf(Resent(pend[p])) = IdentityOf(pend[p])
      BY <1>1, <3>1, ResentType DEF StoreInv, StoreTypeOK
    <3> QED
      BY <1>1, <2>3, <3>2 DEF ResendSend, Return, PendChange, PendOrigin, ControlOK
  <2> QED
    BY <1>4, <2>1, <2>2, <2>3 DEF Resend
<1>5. ASSUME NEW p \in Procs, Verify(p) PROVE PendChange
  <2>1. CASE VerifyRead(p)
    <3>1. target[p] \in Mobiles
      BY <1>1, <2>1 DEF VerifyRead, ReadPending, ControlOK, LocalsOK
    <3> QED
      BY <1>1, <2>1, <3>1, PayloadFacts
      DEF VerifyRead, ReadPending, Return, PendChange, PendOrigin, ControlOK
  <2>2. CASE DeleteByMobile(p)
    <3>1. target[p] \in Mobiles
      BY <1>1, <2>2 DEF DeleteByMobile, ControlOK, LocalsOK
    <3> QED
      BY <1>1, <2>2, <3>1
      DEF DeleteByMobile, Return, PendChange, PendOrigin, ControlOK
  <2>3. CASE VerifySignupOTP(p) \/ CheckAge(p) \/ DeleteKeys(p)
    BY <1>1, <2>3 DEF VerifySignupOTP, Begin, CheckAge, DeleteKeys, Goto, Return,
                      PendChange, PendOrigin, ControlOK
  <2>4. CASE CheckVerification(p) \/ RegisterUser(p)
    BY <1>1, <2>4 DEF CheckVerification, RegisterUser, Goto, Return,
                      PendChange, PendOrigin, ControlOK
  <2> QED
    BY <1>5, <2>1, <2>2, <2>3, <2>4 DEF Verify
<1>6. ASSUME NEW p \in Procs, Status(p) PROVE PendChange
  BY <1>1, <1>6 DEF Status, SignupStatus, Begin, StatusPending, StatusUser,
                    StatusAnswered, Goto, Return, PendChange, PendOrigin, ControlOK
<1>7. ASSUME NEW p \in Procs, Abort(p) PROVE PendChange
  BY <1>1, <1>7 DEF Abort, Return, PendChange, PendOrigin, ControlOK
<1> QED
  BY <1>2, <1>3, <1>4, <1>5, <1>6, <1>7 DEF Step

\* How a request comes to the steps that the next theorems are about.
FlowChange ==
    \A p \in Procs :
        /\ pc'[p] = "delKeys" => pc[p] = "delKeys" \/ Backend = "redis"
        /\ pc'[p] = "statusUser" =>
              /\ UNCHANGED target[p]
              /\ pc[p] = "statusUser" \/ (pc[p] = "status" /\ ~Waiting(target[p]))
        /\ pc'[p] = "expired" =>
              pc[p] = "expired" \/ (pc[p] = "statusUser" /\ ~Registered(target[p]))

LEMMA StepFlow ==
    ASSUME TypeInv, Step
    PROVE  FlowChange
<1>1. ControlOK
  BY DEF TypeInv, TypeOK, ControlOK
<1>2. CASE Tick \/ Restart
  BY <1>1, <1>2 DEF Tick, Restart, localVars, FlowChange, ControlOK
<1>3. ASSUME NEW p \in Procs, Request(p) PROVE FlowChange
  BY <1>1, <1>3
  DEF Request, RequestSignupOTP, CheckUsername, CheckEmail, CheckMobile, UserLookup,
      CheckIndexName, CheckIndexEmail, CheckIndexMobile, IndexLookup, PendingConflict,
      Available, Send, SaveSignup, Goto, Return, FlowChange, ControlOK
<1>4. ASSUME NEW p \in Procs, Resend(p) PROVE FlowChange
  BY <1>1, <1>4 DEF Resend, ResendSignupOTP, Begin, ResendRead, ReadPending, ResendSend,
                    Return, FlowChange, ControlOK
<1>5. ASSUME NEW p \in Procs, Verify(p) PROVE FlowChange
  BY <1>1, <1>5, BackendAssumption
  DEF Verify, VerifySignupOTP, Begin, VerifyRead, ReadPending, CheckAge,
      CheckVerification, RegisterUser, DeleteByMobile, DeleteKeys, Goto, Return,
      FlowChange, ControlOK
<1>6. ASSUME NEW p \in Procs, Status(p) PROVE FlowChange
  BY <1>1, <1>6 DEF Status, SignupStatus, Begin, StatusPending, StatusUser,
                    StatusAnswered, Goto, Return, FlowChange, ControlOK
<1>7. ASSUME NEW p \in Procs, Abort(p) PROVE FlowChange
  BY <1>1, <1>7 DEF Abort, Return, FlowChange, ControlOK
<1> QED
  BY <1>2, <1>3, <1>4, <1>5, <1>6, <1>7 DEF Step

----------------------------------------------------------------------------
(***************************************************************************)
(* Theorems.                                                               *)
(***************************************************************************)

LEMMA TypeInvStep ==
    ASSUME TypeInv, [Next]_vars
    PROVE  TypeInv'
<1>1. CASE Next
  <2>1. ControlOK' /\ DataOK' /\ StoreInv'
    BY <1>1, StepControl, StepData, StepStore, StoreChangeType DEF Next
  <2>2. (gaps \subseteq Procs)'
    BY <1>1 DEF Next, ObserveGaps
  <2> QED
    BY <2>1, <2>2 DEF ControlOK, DataOK, StoreInv, TypeInv, TypeOK
<1>2. CASE UNCHANGED vars
  BY <1>2 DEF vars, TypeInv, TypeOK, StoreTypeOK, LocalsOK, KeysOK
<1> QED
  BY <1>1, <1>2

LEMMA TypeInvInvariant == Spec => []TypeInv
<1>1. Init => TypeInv
  BY ConfigAssumption
  DEF Init, StoreInit, TypeInv, TypeOK, StoreTypeOK, LocalsOK, KeysOK,
      Steps, AtRequest, AtTarget
<1>2. TypeInv /\ [Next]_vars => TypeInv'
  BY TypeInvStep
<1> QED
  BY <1>1, <1>2, PTL DEF Spec

\* Every variable of Signup keeps its type: in particular no request ever works on a
\* pending signup, an identity or a mobile that it has not read or been given.
THEOREM TypeCorrect == Spec => []TypeOK
<1>1. TypeInv => TypeOK
  BY DEF TypeInv
<1> QED
  BY <1>1, TypeInvInvariant, PTL

(***************************************************************************)
(* Verified accounts.  The invariant has to follow an identity from the    *)
(* message through the store and through the locals of the request that    *)
(* verifies it.                                                            *)
(***************************************************************************)
OfferedOK ==
    /\ \A m \in Mobiles : signups[m] # None => IdentityOf(signups[m]) \in offered
    /\ \A p \in Procs :
          pc[p] \in AtTarget \cup {"save"} => IdentityOf(pend[p]) \in offered

ApprovedOK == \A p \in Procs : pc[p] = "register" => target[p] \in approved

VerifiedInv == OfferedOK /\ ApprovedOK /\ VerifiedAccounts

\* A payload in the store was there before or is one that a request saves before its end.
LEMMA StoreOrigin ==
    ASSUME TypeInv, StoreChange, NEW m \in Mobiles, signups'[m] # None
    PROVE  \/ signups'[m] = signups[m]
           \/ \E p \in Procs : pc[p] = "save" /\ CanSave(pend[p]) /\ signups'[m] = pend[p]
<1>1. ControlOK /\ StoreInv
  BY DEF TypeInv, TypeOK, ControlOK, StoreInv
<1>2. CASE \E p \in Procs : pc[p] = "save" /\ CanSave(pend[p]) /\ Save(pend[p]) /\ UNCHANGED now
  BY <1>1, <1>2 DEF Save, StoreInv, StoreTypeOK
<1>3. CASE StoreTick
  BY <1>3 DEF StoreTick, Alive
<1>4. CASE /\ ~StoreTick
           /\ ~\E p \in Procs :
                 pc[p] = "save" /\ CanSave(pend[p]) /\ Save(pend[p]) /\ UNCHANGED now
  BY <1>1, <1>4 DEF StoreChange, Drop, StoreRestart, storeVars, StoreInv, StoreTypeOK
<1> QED
  BY <1>2, <1>3, <1>4

\* Every account belongs to a signup whose message was sent and whose code the provider
\* approved, for any number of concurrent requests, crashes and expiries: RegisterUser
\* in VerifySignupOTP creates what was requested, after the check.
THEOREM AccountsAreVerified == Spec => []VerifiedAccounts
<1>1. Init => VerifiedInv
  BY DEF Init, StoreInit, VerifiedInv, OfferedOK, ApprovedOK, VerifiedAccounts, AtTarget
<1>2. TypeInv /\ VerifiedInv /\ [Next]_vars => VerifiedInv'
  <2> SUFFICES ASSUME TypeInv, VerifiedInv, [Next]_vars PROVE VerifiedInv'
    OBVIOUS
  <2>1. CASE UNCHANGED vars
    BY <2>1 DEF vars, VerifiedInv, OfferedOK, ApprovedOK, VerifiedAccounts
  <2>2. CASE Next
    <3>1. StoreChange /\ DataChange /\ PendChange
      BY <2>2, StepStore, StepData, StepPend DEF Next
    <3>2. offered \subseteq offered' /\ approved \subseteq approved'
      BY <3>1 DEF DataChange
    <3>3. ASSUME NEW m \in Mobiles, signups'[m] # None
          PROVE  IdentityOf(signups'[m]) \in offered'
      BY <3>1, <3>2, <3>3, StoreOrigin DEF VerifiedInv, OfferedOK
    <3>4. ASSUME NEW p \in Procs, pc'[p] \in AtTarget \cup {"save"}
          PROVE  IdentityOf(pend'[p]) \in offered'
      BY <3>1, <3>2, <3>4 DEF PendChange, PendOrigin, VerifiedInv, OfferedOK
    <3>5. ApprovedOK'
      BY <3>1, <3>2 DEF DataChange, VerifiedInv, ApprovedOK
    <3>6. ASSUME NEW p \in Procs, pc[p] = "register"
          PROVE  /\ IdentityOf(pend[p]) \in offered
                 /\ IdentityOf(pend[p]).mobile \in approved
      BY <3>6 DEF TypeInv, LocalsOK, AtTarget, VerifiedInv, OfferedOK, ApprovedOK,
                  IdentityOf
    <3>7. VerifiedAccounts'
      BY <3>1, <3>2, <3>6 DEF DataChange, VerifiedInv, VerifiedAccounts
    <3>8. OfferedOK'
      BY <3>3, <3>4 DEF OfferedOK
    <3> QED
      BY <3>5, <3>7, <3>8 DEF VerifiedInv
  <2> QED
    BY <2>1, <2>2
<1>3. VerifiedInv => VerifiedAccounts
  BY DEF VerifiedInv
<1> QED
  BY <1>1, <1>2, <1>3, TypeInvInvariant, PTL DEF Spec

\* In both stores the mobile index and the payload mirror each other, although Redis
\* keeps them under keys of their own: whatever writes, deletes or expires one of the
\* two does so to the other, and a stale DeleteByMobile still deletes the pair.
THEOREM MobileIndexMirrors == Spec => []MobileIndexMirrorsPayload
<1>1. Init => MobileIndexMirrorsPayload
  BY DEF Init, StoreInit, MobileIndexMirrorsPayload
<1>2. TypeInv /\ MobileIndexMirrorsPayload /\ [Next]_vars
        => MobileIndexMirrorsPayload'
  <2> SUFFICES ASSUME TypeInv, MobileIndexMirrorsPayload, [Next]_vars
               PROVE  MobileIndexMirrorsPayload'
    OBVIOUS
  <2> USE DEF MobileIndexMirrorsPayload
  <2>1. ControlOK /\ StoreInv
    BY DEF TypeInv, TypeOK, ControlOK, StoreInv
  <2>2. UNCHANGED vars \/ StoreChange
    BY StepStore DEF Next
  <2>3. CASE UNCHANGED <<now, storeVars>>
    BY <2>3 DEF storeVars
  <2>4. CASE \E m \in Mobiles : signups[m] # None /\ Drop(m, signups[m])
    BY <2>1, <2>4 DEF Drop, StoreInv, StoreTypeOK, KeysOK
  <2>5. CASE \E p \in Procs : pc[p] = "delKeys" /\ Drop(target[p], pend[p])
    BY <2>1, <2>5 DEF Drop, StoreInv, StoreTypeOK, ControlOK, LocalsOK, AtTarget
  <2>6. CASE \E p \in Procs : pc[p] = "save" /\ Save(pend[p])
    <3>1. PICK p \in Procs : pc[p] = "save" /\ Save(pend[p])
      BY <2>6
    <3>2. pend[p] \in PendingSignup /\ pend[p].mobile \in Mobiles
      BY <2>1, <3>1 DEF ControlOK, LocalsOK, PendingSignup
    <3>3. pend[p] # None
      BY <3>2, NoneFacts
    <3> QED
      BY <2>1, <3>1, <3>2, <3>3 DEF Save, StoreInv, StoreTypeOK
  <2>7. CASE StoreTick
    <3>1. \A m \in Mobiles : Entry(signups[m]) # None \/ signups[m] = None
      BY <2>1, EntryType, NoneFacts DEF StoreInv, StoreTypeOK
    <3>2. \A m \in Mobiles : Entry(signups[m]).expires = signups[m].expires
      BY DEF Entry
    <3> QED
      BY <2>7, <3>1, <3>2 DEF StoreTick, Alive
  <2>8. CASE StoreRestart
    BY <2>8 DEF StoreRestart, storeVars
  <2> QED
    BY <2>2, <2>3, <2>4, <2>5, <2>6, <2>7, <2>8 DEF StoreChange, vars, storeVars
<1> QED
  BY <1>1, <1>2, TypeInvInvariant, PTL DEF Spec

(***************************************************************************)
(* The in-memory store: its Save deletes what it replaces, and no request  *)
(* is between the two halves of DeleteByMobile.                            *)
(***************************************************************************)
NoHalfDelete == \A p \in Procs : pc[p] # "delKeys"

\* No change of the in-memory store leaves an entry that leads astray.
LEMMA MemoryIndexStep ==
    ASSUME Backend = "memory", TypeInv, NoHalfDelete, IndexLeadsToOwner, StoreChange
    PROVE  IndexLeadsToOwner'
<1>1. ControlOK /\ StoreInv
  BY DEF TypeInv, TypeOK, ControlOK, StoreInv
<1>2. CASE UNCHANGED <<now, storeVars>>
  BY <1>2 DEF storeVars, IndexLeadsToOwner
<1>3. CASE \E m \in Mobiles : signups[m] # None /\ Drop(m, signups[m])
  BY <1>1, <1>3 DEF Drop, StoreInv, StoreTypeOK, IndexEntry, IndexLeadsToOwner
<1>4. CASE \E p \in Procs : pc[p] = "save" /\ Save(pend[p])
  <2>1. PICK p \in Procs : pc[p] = "save" /\ Save(pend[p])
    BY <1>4
  <2> DEFINE s == pend[p]
             old == signups[s.mobile]
  <2>2. /\ s # None
        /\ s.mobile \in Mobiles /\ s.username \in Usernames /\ s.email \in Emails
        /\ Entry(s) # None /\ Entry(s).mobile = s.mobile
    BY <1>1, <2>1, NoneFacts, EntryType DEF ControlOK, LocalsOK, PendingSignup, Entry
  <2>3. signups' = [signups EXCEPT ![s.mobile] = s]
    BY <2>1 DEF Save
  <2>4. \A u \in Usernames : byUsername'[u] =
           IF u = s.username THEN Entry(s)
           ELSE IF old # None /\ u = old.username THEN None ELSE byUsername[u]
    BY <1>1, <2>1, <2>2 DEF Save, Replaced, StoreInv, StoreTypeOK
  <2>5. \A e \in Emails : byEmail'[e] =
           IF e = s.email THEN Entry(s)
           ELSE IF old # None /\ e = old.email THEN None ELSE byEmail[e]
    BY <1>1, <2>1, <2>2 DEF Save, Replaced, StoreInv, StoreTypeOK
  <2> HIDE DEF s, old
  <2>6. ASSUME NEW u \in Usernames, byUsername'[u] # None
        PROVE  LET t == signups'[byUsername'[u].mobile]
               IN  t # None /\ t.username = u
    BY <1>1, <2>2, <2>3, <2>4, <2>6
    DEF old, StoreInv, StoreTypeOK, IndexEntry, IndexLeadsToOwner
  <2>7. ASSUME NEW e \in Emails, byEmail'[e] # None
        PROVE  LET t == signups'[byEmail'[e].mobile]
               IN  t # None /\ t.email = e
    BY <1>1, <2>2, <2>3, <2>5, <2>7
    DEF old, StoreInv, StoreTypeOK, IndexEntry, IndexLeadsToOwner
  <2> QED
    BY <2>6, <2>7 DEF IndexLeadsToOwner
<1>5. CASE StoreTick
  <2>1. \A x : Alive(x) = x
    BY DEF Alive
  <2> QED
    BY <1>1, <1>5, <2>1 DEF StoreTick, StoreInv, StoreTypeOK, IndexEntry,
                            IndexLeadsToOwner
<1>6. CASE StoreRestart
  BY <1>6 DEF StoreRestart, IndexLeadsToOwner
<1> QED
  BY <1>2, <1>3, <1>4, <1>5, <1>6 DEF StoreChange, NoHalfDelete

\* The username and e-mail indices of the in-memory store lead to the pending signup of
\* that username or e-mail and to no other, at every moment.
THEOREM MemoryIndexLeadsToOwner ==
    ASSUME Backend = "memory"
    PROVE  Spec => []IndexLeadsToOwner
<1>1. Init => NoHalfDelete /\ IndexLeadsToOwner
  BY DEF Init, StoreInit, NoHalfDelete, IndexLeadsToOwner
<1>2. TypeInv /\ NoHalfDelete /\ IndexLeadsToOwner /\ [Next]_vars
        => NoHalfDelete' /\ IndexLeadsToOwner'
  <2> SUFFICES ASSUME TypeInv, NoHalfDelete, IndexLeadsToOwner, [Next]_vars
               PROVE  NoHalfDelete' /\ IndexLeadsToOwner'
    OBVIOUS
  <2>1. CASE Next
    <3>1. NoHalfDelete'
      BY <2>1, StepFlow DEF Next, FlowChange, NoHalfDelete
    <3>2. IndexLeadsToOwner'
      BY <2>1, StepStore, MemoryIndexStep DEF Next
    <3> QED
      BY <3>1, <3>2
  <2>2. CASE UNCHANGED vars
    BY <2>2 DEF vars, NoHalfDelete, IndexLeadsToOwner
  <2> QED
    BY <2>1, <2>2
<1> QED
  BY <1>1, <1>2, TypeInvInvariant, PTL DEF Spec

(***************************************************************************)
(* SignupStatus.  GapsOK says what gaps records; LookupOK is what the      *)
(* order of the two reads is for.                                          *)
(***************************************************************************)
GapsOK ==
    \A p \in Procs : pc[p] \in StatusSteps /\ ~Known(target[p]) => p \in gaps

LookupOK ==
    \A p \in Procs : pc[p] = "statusUser" => Registered(target[p]) \/ p \in gaps

\* SignupStatus answers "expired" only if there was a moment of the call at which the
\* mobile was neither pending nor registered, however many signups, verifications and
\* expiries interleave with it.
THEOREM StatusIsTruthful == Spec => []StatusMissesNothing
<1> DEFINE StatusInv == GapsOK /\ LookupOK /\ StatusMissesNothing
<1>1. Init => StatusInv
  BY DEF Init, GapsOK, LookupOK, StatusMissesNothing, StatusSteps
<1>2. TypeInv /\ StatusInv /\ [Next]_vars => StatusInv'
  <2> SUFFICES ASSUME TypeInv, StatusInv, [Next]_vars PROVE StatusInv'
    OBVIOUS
  <2>1. CASE UNCHANGED vars
    BY <2>1 DEF vars, GapsOK, LookupOK, StatusMissesNothing, Known, Waiting, Registered,
                PayloadOf, After
  <2>2. CASE Next
    <3>1. DataChange /\ FlowChange /\ ObserveGaps
      BY <2>2, StepData, StepFlow DEF Next
    <3>2. \A p \in Procs : p \in gaps /\ pc'[p] \in StatusSteps => p \in gaps'
      BY <3>1 DEF ObserveGaps
    <3>3. \A m : Registered(m) => Registered(m)'
      BY <3>1 DEF DataChange, Registered
    <3>4. GapsOK'
      BY <3>1 DEF ObserveGaps, GapsOK
    <3>5. ASSUME NEW p \in Procs, pc'[p] = "statusUser"
          PROVE  Registered(target[p])' \/ p \in gaps'
      <4>1. UNCHANGED target[p]
        BY <3>1, <3>5 DEF FlowChange
      <4>2. Registered(target[p]) \/ p \in gaps
        BY <3>1, <3>5 DEF FlowChange, GapsOK, LookupOK, Known, StatusSteps
      <4>3. CASE Registered(target[p])
        BY <3>3, <4>1, <4>3 DEF Registered
      <4>4. CASE p \in gaps
        BY <3>2, <3>5, <4>4 DEF StatusSteps
      <4> QED
        BY <4>2, <4>3, <4>4
    <3>6. ASSUME NEW p \in Procs, pc'[p] = "expired"
          PROVE  p \in gaps'
      BY <3>1, <3>2, <3>6 DEF FlowChange, LookupOK, StatusMissesNothing, StatusSteps
    <3> QED
      BY <3>4, <3>5, <3>6 DEF LookupOK, StatusMissesNothing
  <2> QED
    BY <2>1, <2>2
<1>3. StatusInv => StatusMissesNothing
  OBVIOUS
<1> QED
  BY <1>1, <1>2, <1>3, TypeInvInvariant, PTL DEF Spec
----------------------------------------------------------------------------
(***************************************************************************)
(* One request at a time.  What a request has read is then what the stores *)
(* hold until it has acted on it or ends early; only the clock moves       *)
(* meanwhile, so what was read may expire and nothing else.                *)
(***************************************************************************)
OneRequest == \A p, q \in Procs : p = q

Deleting(p) == pc[p] \in {"delete", "delKeys"}

\* A resend about to save: a signup of its own request is told by req.
Resaving(p) == pc[p] = "save" /\ req[p] = None

\* The pending signup that the request has read has that end still, or has reached it.
AsRead(p) ==
    IF PayloadOf(target[p]) = None
    THEN pend[p].expires <= now
    ELSE PayloadOf(target[p]).expires = pend[p].expires

SequentialLocal(p) ==
    /\ pc[p] \in {"idle", "resend", "resendSend"} => req[p] = None
    /\ pc[p] \in {"indexName", "indexEmail", "indexMobile", "conflict", "send"} =>
          ~Registered(req[p].mobile)
    /\ pc[p] = "save" /\ req[p] # None => ~Registered(pend[p].mobile)
    /\ Resaving(p) => pend[p].mobile = target[p]
    /\ Resaving(p) \/ pc[p] \in {"resendSend", "age"} => AsRead(p)
    /\ Deleting(p) /\ PayloadOf(target[p]) # None =>
          Registered(target[p]) \/ PayloadOf(target[p]).expires <= now

SequentialInv == \A p \in Procs : SequentialLocal(p)

\* The payloads of all mobiles can be read as before.
SamePayloads == \A m \in Mobiles : PayloadOf(m)' = PayloadOf(m)

\* A read hides nothing that could be read.
LEMMA TouchPayloads ==
    ASSUME StoreInv, NEW m \in Mobiles, Touch(m), UNCHANGED now
    PROVE  SamePayloads
  BY DEF Touch, Drop, PayloadOf, After, StoreInv, StoreTypeOK, storeVars, SamePayloads

LEMMA TouchIndexPayloads ==
    ASSUME StoreInv, NEW entry \in IndexEntry \cup {None}, TouchIndex(entry), UNCHANGED now
    PROVE  SamePayloads
  <1>1. CASE UNCHANGED storeVars
    BY <1>1 DEF storeVars, PayloadOf, After, SamePayloads
  <1>2. CASE entry # None /\ Touch(entry.mobile)
    BY <1>2, TouchPayloads DEF IndexEntry
  <1> QED BY <1>1, <1>2 DEF TouchIndex

\* The steps that change neither payloads nor users.
Quiet == SamePayloads /\ UNCHANGED <<now, users>>

LEMMA PayloadsUnchanged ==
    ASSUME UNCHANGED <<now, storeVars>>
    PROVE  SamePayloads
  BY DEF storeVars, PayloadOf, After, SamePayloads

\* The one request is all there is to look at.
LEMMA OneIsAll ==
    ASSUME OneRequest, NEW p \in Procs, SequentialLocal(p)'
    PROVE  SequentialInv'
  BY DEF OneRequest, SequentialInv

\* Every step of a request but SaveSignup and the two of DeleteByMobile.
LEMMA ReadsHideNothing ==
    ASSUME TypeInv, NEW p \in Procs, Request(p) \/ Resend(p) \/ Verify(p) \/ Status(p),
           ~(SaveSignup(p) \/ DeleteByMobile(p) \/ DeleteKeys(p))
    PROVE  SamePayloads
  <1> USE DEF AtRequest
  <1>1. ControlOK /\ StoreInv
    BY DEF TypeInv, TypeOK, ControlOK, StoreInv
  <1>2. CASE CheckIndexName(p) \/ CheckIndexEmail(p) \/ CheckIndexMobile(p)
    <2>1. pc[p] \in {"indexName", "indexEmail", "indexMobile"}
      BY <1>2 DEF CheckIndexName, CheckIndexEmail, CheckIndexMobile, IndexLookup
    <2>2. /\ byUsername[req[p].username] \in IndexEntry \cup {None}
          /\ byEmail[req[p].email] \in IndexEntry \cup {None}
          /\ byMobile[req[p].mobile] \in IndexEntry \cup {None}
      BY <1>1, <2>1 DEF ControlOK, LocalsOK, Identity, StoreInv, StoreTypeOK
    <2> QED BY <1>1, <1>2, <2>2, TouchIndexPayloads
        DEF CheckIndexName, CheckIndexEmail, CheckIndexMobile, IndexLookup
  <1>3. CASE PendingConflict(p) \/ ResendRead(p) \/ VerifyRead(p) \/ StatusPending(p)
    BY <1>1, <1>3, TouchPayloads
    DEF PendingConflict, ResendRead, VerifyRead, ReadPending, StatusPending, ControlOK, LocalsOK
  <1>4. CASE \/ RequestSignupOTP(p) \/ CheckUsername(p) \/ CheckEmail(p) \/ CheckMobile(p)
             \/ Send(p) \/ ResendSignupOTP(p) \/ ResendSend(p)
    BY <1>4, PayloadsUnchanged
    DEF RequestSignupOTP, CheckUsername, CheckEmail, CheckMobile, UserLookup, Send,
        ResendSignupOTP, Begin, ResendSend
  <1>5. CASE \/ VerifySignupOTP(p) \/ CheckAge(p) \/ CheckVerification(p) \/ RegisterUser(p)
             \/ SignupStatus(p) \/ StatusUser(p) \/ StatusAnswered(p)
    BY <1>5, PayloadsUnchanged
    DEF VerifySignupOTP, Begin, CheckAge, CheckVerification, RegisterUser,
        SignupStatus, StatusUser, StatusAnswered
  <1> QED BY <1>2, <1>3, <1>4, <1>5 DEF Request, Resend, Verify, Status

LEMMA RequestSequential ==
    ASSUME OneRequest, TypeInv, SequentialInv, NEW p \in Procs, Request(p)
    PROVE  SequentialInv'
  <1> USE DEF AtRequest
  <1>1. ControlOK /\ StoreInv /\ SequentialLocal(p)
    BY DEF TypeInv, TypeOK, ControlOK, StoreInv, SequentialInv
  <1>2. pc[p] \in AtRequest => /\ req[p] \in Identity /\ req[p] # None
                               /\ target[p] \in Mobiles
    BY <1>1, NoneFacts DEF ControlOK, LocalsOK
  <1>3. CASE RequestSignupOTP(p)
    <2>1. Quiet
      BY <1>3, PayloadsUnchanged DEF RequestSignupOTP, Quiet
    <2>2. pc'[p] = "userName"
      BY <1>1, <1>3 DEF RequestSignupOTP, ControlOK
    <2> QED BY <2>1, <2>2, OneIsAll DEF SequentialLocal, Resaving, Deleting
  <1>4. CASE CheckUsername(p) \/ CheckEmail(p)
    <2>1. Quiet
      BY <1>4, PayloadsUnchanged
      DEF CheckUsername, CheckEmail, UserLookup, Quiet
    <2>2. pc'[p] \in {"userEmail", "userMobile"} \/ (pc'[p] = "idle" /\ req'[p] = None)
      BY <1>1, <1>4
      DEF CheckUsername, CheckEmail, UserLookup, Goto, Return, ControlOK
    <2> QED BY <2>1, <2>2, OneIsAll DEF SequentialLocal, Resaving, Deleting
  <1>5. CASE CheckMobile(p)
    <2>1. Quiet
      BY <1>5, PayloadsUnchanged DEF CheckMobile, UserLookup, Quiet
    <2>2. \/ pc'[p] = "idle" /\ req'[p] = None
          \/ pc'[p] = "indexName" /\ req'[p] = req[p] /\ ~Registered(req[p].mobile)
      BY <1>1, <1>5 DEF CheckMobile, UserLookup, Goto, Return, ControlOK, Registered
    <2>3. Registered(req[p].mobile)' = Registered(req'[p].mobile)
      BY <2>1 DEF Quiet, Registered
    <2> QED BY <2>1, <2>2, <2>3, OneIsAll DEF SequentialLocal, Resaving, Deleting
  <1>6. CASE CheckIndexName(p) \/ CheckIndexEmail(p) \/ CheckIndexMobile(p) \/ PendingConflict(p)
    <2>1. pc[p] \in {"indexName", "indexEmail", "indexMobile", "conflict"}
      BY <1>6 DEF CheckIndexName, CheckIndexEmail, CheckIndexMobile, IndexLookup, PendingConflict
    <2>2. /\ byUsername[req[p].username] \in IndexEntry \cup {None}
          /\ byEmail[req[p].email] \in IndexEntry \cup {None}
          /\ byMobile[req[p].mobile] \in IndexEntry \cup {None}
      BY <1>1, <1>2, <2>1 DEF Identity, StoreInv, StoreTypeOK
    <2>3. SamePayloads
      BY <1>1, <1>2, <1>6, <2>1, <2>2, TouchIndexPayloads, TouchPayloads
      DEF CheckIndexName, CheckIndexEmail, CheckIndexMobile, IndexLookup, PendingConflict
    <2>4. Quiet
      BY <1>6, <2>1, <2>3
      DEF Quiet, CheckIndexName, CheckIndexEmail, CheckIndexMobile, IndexLookup,
          PendingConflict
    <2>5. \/ pc'[p] = "idle" /\ req'[p] = None
          \/ /\ pc'[p] \in {"indexEmail", "indexMobile", "conflict", "send"}
             /\ req'[p] = req[p]
      BY <1>1, <1>6
      DEF CheckIndexName, CheckIndexEmail, CheckIndexMobile, IndexLookup, PendingConflict,
          Available, Goto, Return, ControlOK
    <2>6. ~Registered(req[p].mobile) /\ Registered(req[p].mobile)' = Registered(req'[p].mobile)
      BY <1>1, <2>1, <2>4 DEF SequentialLocal, Quiet, Registered
    <2> QED BY <2>4, <2>5, <2>6, OneIsAll DEF SequentialLocal, Resaving, Deleting, Registered, Quiet
  <1>7. CASE Send(p)
    <2>1. Quiet
      BY <1>7, PayloadsUnchanged DEF Send, Quiet
    <2>2. /\ pc'[p] = "save" /\ req'[p] # None
          /\ pend'[p].mobile = req[p].mobile
      BY <1>1, <1>2, <1>7 DEF Send, NewSignup, ControlOK
    <2>3. ~Registered(pend[p].mobile)'
      BY <1>1, <1>7, <2>1, <2>2 DEF Send, SequentialLocal, Quiet, Registered
    <2> QED BY <2>1, <2>2, <2>3, OneIsAll DEF SequentialLocal, Resaving, Deleting
  <1>8. CASE SaveSignup(p)
    <2>1. pc'[p] = "idle" /\ req'[p] = None
      BY <1>1, <1>8 DEF SaveSignup, Return, ControlOK
    <2> QED BY <2>1, OneIsAll DEF SequentialLocal, Resaving, Deleting
  <1> QED BY <1>3, <1>4, <1>5, <1>6, <1>7, <1>8 DEF Request

LEMMA ResendSequential ==
    ASSUME OneRequest, TypeInv, SequentialInv, NEW p \in Procs, Resend(p)
    PROVE  SequentialInv'
  <1>1. ControlOK /\ StoreInv /\ SequentialLocal(p)
    BY DEF TypeInv, TypeOK, ControlOK, StoreInv, SequentialInv
  <1>2. CASE ResendSignupOTP(p)
    <2>1. Quiet
      BY <1>2, PayloadsUnchanged DEF ResendSignupOTP, Begin, Quiet
    <2>2. pc'[p] = "resend" /\ req'[p] = None
      BY <1>1, <1>2 DEF ResendSignupOTP, Begin, ControlOK, SequentialLocal
    <2> QED BY <2>1, <2>2, OneIsAll DEF SequentialLocal, Resaving, Deleting
  <1>3. CASE ResendRead(p)
    <2>1. pc[p] = "resend" /\ target[p] \in Mobiles /\ Touch(target[p]) /\ UNCHANGED <<now, users>>
      BY <1>1, <1>3 DEF ResendRead, ReadPending, ControlOK, LocalsOK
    <2>2. Quiet
      BY <1>1, <2>1, TouchPayloads DEF Quiet
    <2>3. CASE PayloadOf(target[p]) = None
      <3>1. pc'[p] = "idle" /\ req'[p] = None
        BY <1>1, <1>3, <2>3 DEF ResendRead, ReadPending, Return, ControlOK
      <3> QED BY <2>2, <3>1, OneIsAll DEF SequentialLocal, Resaving, Deleting
    <2>4. CASE PayloadOf(target[p]) # None
      <3>1. /\ pc'[p] = "resendSend" /\ req'[p] = None
            /\ target'[p] = target[p] /\ pend'[p] = PayloadOf(target[p])
        BY <1>1, <1>3, <2>1, <2>4 DEF ResendRead, ReadPending, ControlOK, SequentialLocal
      <3>2. AsRead(p)'
        BY <2>1, <2>2, <2>4, <3>1 DEF AsRead, Quiet, SamePayloads, PayloadOf, After
      <3> QED BY <3>1, <3>2, OneIsAll DEF SequentialLocal, Resaving, Deleting
    <2> QED BY <2>3, <2>4
  <1>4. CASE ResendSend(p)
    <2>1. Quiet
      BY <1>4, PayloadsUnchanged DEF ResendSend, Quiet
    <2>2. pc[p] = "resendSend" /\ pend[p] \in PendingSignup /\ pend[p].mobile = target[p]
          /\ target[p] \in Mobiles
      BY <1>1, <1>4 DEF ResendSend, ControlOK, LocalsOK, AtTarget
    <2>3. CASE ValidateResendWindow(pend[p])
      <3>1. /\ pc'[p] = "save" /\ UNCHANGED <<req[p], target[p]>>
            /\ pend'[p] = Resent(pend[p])
        BY <1>1, <1>4, <2>2, <2>3 DEF ResendSend, ControlOK
      <3>2. Resent(pend[p]).mobile = pend[p].mobile /\ Resent(pend[p]).expires = pend[p].expires
        BY <2>2 DEF Resent, PendingSignup
      <3>3. UNCHANGED <<now, signups>> /\ AsRead(p)
        BY <1>1, <1>4, <2>2 DEF ResendSend, SequentialLocal, storeVars
      <3>4. AsRead(p)'
        BY <3>1, <3>2, <3>3 DEF AsRead, PayloadOf, After
      <3> QED BY <1>1, <2>2, <3>1, <3>2, <3>4, OneIsAll DEF SequentialLocal, Resaving, Deleting
    <2>4. CASE ~ValidateResendWindow(pend[p])
      <3>1. pc'[p] = "idle" /\ req'[p] = None
        BY <1>1, <1>4, <2>4 DEF ResendSend, Return, ControlOK
      <3> QED BY <2>1, <3>1, OneIsAll DEF SequentialLocal, Resaving, Deleting
    <2> QED BY <2>3, <2>4
  <1> QED BY <1>2, <1>3, <1>4 DEF Resend

LEMMA VerifySequential ==
    ASSUME OneRequest, TypeInv, SequentialInv, NEW p \in Procs, Verify(p)
    PROVE  SequentialInv'
  <1>1. ControlOK /\ StoreInv /\ SequentialLocal(p)
    BY DEF TypeInv, TypeOK, ControlOK, StoreInv, SequentialInv
  <1>2. CASE VerifySignupOTP(p)
    <2>1. Quiet
      BY <1>2, PayloadsUnchanged DEF VerifySignupOTP, Begin, Quiet
    <2>2. pc'[p] = "verify"
      BY <1>1, <1>2 DEF VerifySignupOTP, Begin, ControlOK
    <2> QED BY <2>1, <2>2, OneIsAll DEF SequentialLocal, Resaving, Deleting
  <1>3. CASE VerifyRead(p)
    <2>1. pc[p] = "verify" /\ target[p] \in Mobiles /\ Touch(target[p]) /\ UNCHANGED <<now, users>>
      BY <1>1, <1>3 DEF VerifyRead, ReadPending, ControlOK, LocalsOK
    <2>2. Quiet
      BY <1>1, <2>1, TouchPayloads DEF Quiet
    <2>3. CASE PayloadOf(target[p]) = None
      <3>1. pc'[p] = "idle" /\ req'[p] = None
        BY <1>1, <1>3, <2>3 DEF VerifyRead, ReadPending, Return, ControlOK
      <3> QED BY <2>2, <3>1, OneIsAll DEF SequentialLocal, Resaving, Deleting
    <2>4. CASE PayloadOf(target[p]) # None
      <3>1. /\ pc'[p] = "age" /\ target'[p] = target[p]
            /\ pend'[p] = PayloadOf(target[p])
        BY <1>1, <1>3, <2>1, <2>4 DEF VerifyRead, ReadPending, ControlOK
      <3>2. AsRead(p)'
        BY <2>1, <2>2, <2>4, <3>1 DEF AsRead, Quiet, SamePayloads, PayloadOf, After
      <3> QED BY <2>2, <3>1, <3>2, OneIsAll DEF SequentialLocal, Resaving, Deleting
    <2> QED BY <2>3, <2>4
  <1>4. CASE CheckAge(p)
    <2>1. /\ pc[p] = "age" /\ target[p] \in Mobiles
          /\ target'[p] = target[p] /\ req'[p] = req[p]
          /\ pc'[p] = IF now > pend[p].expires THEN "delete" ELSE "check"
          /\ UNCHANGED <<now, users, signups>>
      BY <1>1, <1>4 DEF CheckAge, Goto, After, storeVars, ControlOK, LocalsOK
    <2>2. SamePayloads
      BY <1>4, PayloadsUnchanged DEF CheckAge
    <2>3. pend[p].expires \in Nat /\ now \in Nat
      BY <1>1, <2>1 DEF ControlOK, LocalsOK, AtTarget, PendingSignup, StoreInv, StoreTypeOK
    <2>4. now > pend[p].expires /\ PayloadOf(target[p]) # None =>
              PayloadOf(target[p]).expires <= now
      BY <1>1, <2>1, <2>3 DEF SequentialLocal, AsRead
    <2>5. now > pend[p].expires =>
              (PayloadOf(target[p]) # None => PayloadOf(target[p]).expires <= now)'
      BY <2>1, <2>4 DEF PayloadOf, After
    <2>6. SequentialLocal(p)'
      BY <2>1, <2>5 DEF SequentialLocal, Resaving, Deleting
    <2> QED BY <2>6, OneIsAll
  <1>5. CASE CheckVerification(p)
    <2>1. Quiet
      BY <1>5, PayloadsUnchanged DEF CheckVerification, Quiet
    <2>2. pc'[p] = "register" \/ (pc'[p] = "idle" /\ req'[p] = None)
      BY <1>1, <1>5 DEF CheckVerification, Goto, Return, ControlOK
    <2> QED BY <2>1, <2>2, OneIsAll DEF SequentialLocal, Resaving, Deleting
  <1>6. CASE RegisterUser(p)
    <2>1. /\ pc[p] = "register" /\ target[p] \in Mobiles
          /\ pend[p] \in PendingSignup /\ pend[p].mobile = target[p]
          /\ UNCHANGED <<now, signups>>
      BY <1>1, <1>6 DEF RegisterUser, storeVars, ControlOK, LocalsOK, AtTarget
    <2>2. CASE Collides(IdentityOf(pend[p]))
      <3>1. Quiet
        BY <1>6, <2>1, <2>2, PayloadsUnchanged DEF RegisterUser, Quiet
      <3>2. pc'[p] = "idle" /\ req'[p] = None
        BY <1>1, <1>6, <2>2 DEF RegisterUser, Return, ControlOK
      <3> QED BY <3>1, <3>2, OneIsAll DEF SequentialLocal, Resaving, Deleting
    <2>3. CASE ~Collides(IdentityOf(pend[p]))
      <3>1. /\ pc'[p] = "delete" /\ target'[p] = target[p]
            /\ users' = users \cup {IdentityOf(pend[p])}
        BY <1>1, <1>6, <2>3 DEF RegisterUser, Goto, ControlOK
      <3>2. IdentityOf(pend[p]).mobile = target[p]
        BY <2>1 DEF IdentityOf
      <3>3. Registered(target[p])'
        BY <3>1, <3>2 DEF Registered
      <3>4. SequentialLocal(p)'
        BY <3>1, <3>3 DEF SequentialLocal, Resaving
      <3> QED BY <3>4, OneIsAll
    <2> QED BY <2>2, <2>3
  <1>7. CASE DeleteByMobile(p) \/ DeleteKeys(p)
    <2>1. /\ pc[p] \in {"delete", "delKeys"} /\ target[p] \in Mobiles
          /\ UNCHANGED <<now, users>>
      BY <1>1, <1>7 DEF DeleteByMobile, DeleteKeys, ControlOK, LocalsOK
    <2>2. CASE pc'[p] = "delKeys"
      <3>1. UNCHANGED <<now, storeVars>> /\ target'[p] = target[p]
        BY <1>1, <1>7, <2>1, <2>2 DEF DeleteByMobile, DeleteKeys, Return, ControlOK
      <3> QED BY <1>1, <2>1, <2>2, <3>1, OneIsAll
              DEF SequentialLocal, Resaving, Deleting, Registered, PayloadOf, After, storeVars
    <2>3. CASE pc'[p] # "delKeys"
      <3>1. pc'[p] = "idle" /\ req'[p] = None
        BY <1>1, <1>7, <2>3 DEF DeleteByMobile, DeleteKeys, Return, ControlOK
      <3> QED BY <3>1, OneIsAll DEF SequentialLocal, Resaving, Deleting
    <2> QED BY <2>2, <2>3
  <1> QED BY <1>2, <1>3, <1>4, <1>5, <1>6, <1>7 DEF Verify

LEMMA StatusSequential ==
    ASSUME OneRequest, TypeInv, SequentialInv, NEW p \in Procs, Status(p)
    PROVE  SequentialInv'
  <1>1. ControlOK /\ SequentialLocal(p)
    BY DEF TypeInv, TypeOK, ControlOK, SequentialInv
  <1>2. \/ pc'[p] \in {"status", "statusUser", "pending", "completed", "expired"}
        \/ pc'[p] = "idle" /\ req'[p] = None
    BY <1>1 DEF Status, SignupStatus, Begin, StatusPending, StatusUser, StatusAnswered,
                Goto, Return, ControlOK
  <1> QED BY <1>2, OneIsAll DEF SequentialLocal, Resaving, Deleting

LEMMA TickSequential ==
    ASSUME TypeInv, SequentialInv, Tick
    PROVE  SequentialInv'
  <1>1. ControlOK /\ StoreInv
    BY DEF TypeInv, TypeOK, ControlOK, StoreInv
  <1>2. /\ UNCHANGED <<users, pc, req, target, pend>> /\ now' = now + 1
        /\ \A m \in Mobiles : signups'[m] = signups[m] \/ signups'[m] = None
    BY DEF Tick, localVars, StoreTick, Alive
  <1>3. \A m \in Mobiles : signups[m] # None => signups[m].expires \in Nat
    BY <1>1 DEF StoreInv, StoreTypeOK, PendingSignup
  <1>4. \A m \in Mobiles : PayloadOf(m)' # None => PayloadOf(m)' = PayloadOf(m)
    BY <1>1, <1>2, <1>3 DEF PayloadOf, After, StoreInv, StoreTypeOK
  <1>5. \A m \in Mobiles : PayloadOf(m) # None /\ PayloadOf(m)' = None =>
            PayloadOf(m).expires <= now'
    BY <1>1, <1>3, <1>4 DEF Tick, StoreTick, Alive, PayloadOf, After, StoreInv, StoreTypeOK
  <1>6. ASSUME NEW p \in Procs PROVE SequentialLocal(p)'
    <2>1. SequentialLocal(p) /\ (pc[p] # "idle" => target[p] \in Mobiles)
      BY <1>1 DEF SequentialInv, ControlOK, LocalsOK
    <2>2. pc[p] # "idle" /\ PayloadOf(target[p])' # None =>
              PayloadOf(target[p])' = PayloadOf(target[p])
      BY <1>1, <1>2, <1>3, <2>1 DEF PayloadOf, After, StoreInv, StoreTypeOK
    <2>3. Resaving(p)' \/ pc'[p] \in {"resendSend", "age"} => AsRead(p)'
      <3> SUFFICES ASSUME Resaving(p) \/ pc[p] \in {"resendSend", "age"}
                   PROVE  AsRead(p)'
        BY <1>2 DEF Resaving
      <3>1. AsRead(p) /\ target[p] \in Mobiles /\ pc[p] # "idle"
        BY <2>1 DEF SequentialLocal, Resaving
      <3>2. pend[p].expires \in Nat /\ now \in Nat
        BY <1>1, NoneFacts
        DEF ControlOK, LocalsOK, AtTarget, Resaving, PendingSignup, StoreInv, StoreTypeOK
      <3>3. CASE PayloadOf(target[p])' # None
        BY <1>2, <2>2, <3>1, <3>3 DEF AsRead
      <3>4. CASE PayloadOf(target[p])' = None
        BY <1>2, <1>5, <3>1, <3>2, <3>4 DEF AsRead
      <3> QED BY <3>3, <3>4
    <2>4. ASSUME pc[p] \in {"delete", "delKeys"}, PayloadOf(target[p])' # None
          PROVE  Registered(target[p])' \/ (PayloadOf(target[p]).expires <= now)'
      <3>1. PayloadOf(target[p])' = PayloadOf(target[p]) /\ PayloadOf(target[p]) # None
        BY <2>2, <2>4
      <3>2. PayloadOf(target[p]).expires \in Nat /\ now \in Nat
        BY <1>1, <1>3, <2>1, <2>4, <3>1 DEF PayloadOf, StoreInv, StoreTypeOK
      <3>3. Registered(target[p]) \/ PayloadOf(target[p]).expires <= now
        BY <2>1, <2>4, <3>1 DEF SequentialLocal, Deleting
      <3> QED BY <1>2, <3>1, <3>2, <3>3 DEF Registered
    <2> QED BY <1>2, <2>1, <2>3, <2>4 DEF SequentialLocal, Resaving, Deleting, Registered
  <1> QED BY <1>6 DEF SequentialInv

LEMMA SequentialNext ==
    ASSUME OneRequest, TypeInv, SequentialInv, [Next]_vars
    PROVE  SequentialInv'
  <1>1. ControlOK
    BY DEF TypeInv, TypeOK, ControlOK
  <1>2. CASE \E p \in Procs : Request(p) \/ Resend(p) \/ Verify(p) \/ Status(p)
    BY <1>2, RequestSequential, ResendSequential, VerifySequential, StatusSequential
  <1>3. CASE Tick
    BY <1>3, TickSequential
  <1>4. CASE Restart \/ \E p \in Procs : Abort(p)
    <2>1. \A p \in Procs : pc'[p] = "idle" /\ req'[p] = None
      BY <1>1, <1>4 DEF OneRequest, Restart, Abort, Return, ControlOK
    <2> QED BY <2>1 DEF SequentialInv, SequentialLocal, Resaving, Deleting
  <1>5. CASE UNCHANGED vars
    BY <1>5 DEF vars, SequentialInv, SequentialLocal, Deleting, Resaving, AsRead, Registered,
                PayloadOf, After
  <1> QED BY <1>2, <1>3, <1>4, <1>5 DEF Next, Step

LEMMA SequentialInit == Init => SequentialInv
  BY DEF Init, SequentialInv, SequentialLocal, Deleting, Resaving

\* A completed signup stays completed, whatever fails and restarts: with one request at a
\* time nothing that is still to be saved was checked before the account came to be, and a
\* resend finds the signup it has read where it was or past its end.
THEOREM CompletedSignupsStay ==
    ASSUME OneRequest
    PROVE  Spec => CompletedStaysCompleted
  <1>1. TypeInv /\ SequentialInv /\ [Next]_vars =>
            [\A m \in Mobiles : Completed(m) => Completed(m)']_vars
    <2> SUFFICES ASSUME TypeInv, SequentialInv, Next,
                        NEW m \in Mobiles, Registered(m), PayloadOf(m) = None
                 PROVE  Registered(m)' /\ PayloadOf(m)' = None
      BY DEF Completed
    <2>1. StoreChange /\ DataChange /\ StoreInv
      BY StepStore, StepData DEF Next, TypeInv, TypeOK, StoreInv
    <2>2. Registered(m)'
      BY <2>1 DEF DataChange, Registered
    <2>3. CASE signups'[m] # None /\ signups'[m] # signups[m]
      <3>1. PICK p \in Procs : pc[p] = "save" /\ CanSave(pend[p]) /\ signups'[m] = pend[p]
        BY <2>1, <2>3, StoreOrigin
      <3>2. pend[p].mobile = m
        BY <2>1, <2>3, <3>1, StoreChangeType DEF StoreInv, KeysOK
      <3>3. SequentialLocal(p) /\ now \in Nat /\ pend[p].expires \in Nat
        BY <2>1, <2>3, <3>1, StoreChangeType
        DEF SequentialInv, StoreInv, StoreTypeOK, PendingSignup
      <3>4. CASE req[p] # None
        BY <3>1, <3>2, <3>3, <3>4 DEF SequentialLocal
      <3>5. CASE req[p] = None
        <4>1. pend[p].expires <= now
          BY <3>1, <3>2, <3>3, <3>5 DEF SequentialLocal, Resaving, AsRead
        <4> QED BY <3>1, <3>3, <4>1 DEF CanSave
      <3> QED BY <3>4, <3>5
    <2>4. CASE signups'[m] = signups[m] \/ signups'[m] = None
      <3>1. now' = now \/ now' = now + 1
        BY <2>1 DEF StoreChange, StoreTick
      <3>2. signups[m] # None => signups[m].expires \in Nat
        BY <2>1 DEF StoreInv, StoreTypeOK, PendingSignup
      <3> QED BY <2>1, <2>2, <2>4, <3>1, <3>2 DEF PayloadOf, After, StoreInv, StoreTypeOK
    <2> QED BY <2>3, <2>4
  <1>2. TypeInv /\ SequentialInv /\ [Next]_vars => SequentialInv'
    BY SequentialNext
  <1> QED BY <1>1, <1>2, SequentialInit, TypeInvInvariant, PTL DEF Spec, CompletedStaysCompleted

\* A pending signup goes away when its account exists or its time is over: with one request
\* at a time DeleteByMobile meets the very signup that was verified or had expired.  Calls may
\* fail; only the in-memory store loses its signups in a restart.
THEOREM PendingSignupsKept ==
    ASSUME OneRequest, Faults => Backend = "redis"
    PROVE  Spec => PendingKeptUntilVerified
  <1>1. TypeInv /\ SequentialInv /\ [Next]_vars =>
            [\A m \in Mobiles :
                PayloadOf(m) # None /\ PayloadOf(m)' = None =>
                    Registered(m) \/ signups[m].expires <= now']_vars
    <2> SUFFICES ASSUME TypeInv, SequentialInv, Next,
                        NEW m \in Mobiles, PayloadOf(m) # None, PayloadOf(m)' = None
                 PROVE  Registered(m) \/ signups[m].expires <= now'
      OBVIOUS
    <2>1. StoreInv /\ ControlOK
      BY DEF TypeInv, TypeOK, StoreInv, ControlOK
    <2>2. /\ PayloadOf(m) = signups[m] /\ signups[m] # None
          /\ signups[m].expires \in Nat /\ now \in Nat
      BY <2>1, PayloadFacts DEF PendingSignup, StoreInv, StoreTypeOK
    <2>3. CASE Tick
      BY <2>2, <2>3 DEF Tick, StoreTick, Alive, PayloadOf, After
    <2>4. ASSUME NEW p \in Procs, Request(p) \/ Resend(p) \/ Verify(p) \/ Status(p)
          PROVE  Registered(m) \/ signups[m].expires <= now'
      <3>1. CASE SaveSignup(p)
        <4>1. pend[p] \in PendingSignup /\ pend[p] # None /\ now' = now
          BY <2>1, <3>1, NoneFacts DEF SaveSignup, ControlOK, LocalsOK
        <4>2. pend[p].expires \in Nat /\ pend[p].mobile \in Mobiles
          BY <4>1 DEF PendingSignup
        <4>3. signups'[m] = signups[m] \/ (signups'[m] = pend[p] /\ now < pend[p].expires)
          BY <2>1, <3>1, <4>2
          DEF SaveSignup, Save, CanSave, storeVars, StoreInv, StoreTypeOK
        <4> QED BY <2>2, <4>1, <4>2, <4>3 DEF PayloadOf, After
      <3>2. CASE DeleteByMobile(p) \/ DeleteKeys(p)
        <4>1. pc[p] \in {"delete", "delKeys"} /\ target[p] \in Mobiles /\ now' = now
          BY <2>1, <3>2 DEF DeleteByMobile, DeleteKeys, ControlOK, LocalsOK
        <4>2. m # target[p] => signups'[m] = signups[m]
          BY <2>1, <3>2 DEF DeleteByMobile, DeleteKeys, Drop, storeVars, StoreInv, StoreTypeOK
        <4>3. m = target[p]
          BY <4>1, <4>2 DEF PayloadOf, After
        <4> QED BY <2>2, <4>1, <4>3 DEF SequentialInv, SequentialLocal, Deleting
      <3>3. CASE SamePayloads
        BY <3>3 DEF SamePayloads
      <3>4. ~(SaveSignup(p) \/ DeleteByMobile(p) \/ DeleteKeys(p)) => SamePayloads
        BY <2>1, <2>4, ReadsHideNothing
      <3> QED BY <3>1, <3>2, <3>3, <3>4
    <2>5. CASE Restart \/ \E p \in Procs : Abort(p)
      <3>1. UNCHANGED <<now, storeVars>>
        BY <2>5 DEF Restart, StoreRestart, Abort
      <3> QED BY <3>1, PayloadsUnchanged DEF SamePayloads
    <2> QED BY <2>3, <2>4, <2>5 DEF Next, Step
  <1>2. TypeInv /\ SequentialInv /\ [Next]_vars => SequentialInv'
    BY SequentialNext
  <1> QED BY <1>1, <1>2, SequentialInit, TypeInvInvariant, PTL DEF Spec, PendingKeptUntilVerified
(***************************************************************************)
(* The resend limit, in Redis: the count that is stored never falls behind *)
(* the messages that were sent, but between a message and its save.        *)
(***************************************************************************)
Counted(p) == pend[p].resends <= MaxResends /\ sends[target[p]] <= pend[p].resends + 1

CountLocal(p) ==
    /\ Resaving(p) \/ pc[p] = "resendSend" => Counted(p)
    /\ pc[p] = "save" /\ req[p] # None => pend[p].resends = 0

CountStored(m) ==
    /\ sends[m] <= MaxResends + 1
    /\ signups[m] # None =>
          /\ now < signups[m].expires
          /\ signups[m].resends <= MaxResends
          /\ \/ sends[m] <= signups[m].resends + 1
             \/ \E p \in Procs : Resaving(p) /\ target[p] = m

CountInv == (\A p \in Procs : CountLocal(p)) /\ (\A m \in Mobiles : CountStored(m))

\* A Redis read leaves everything as it is.
LEMMA RedisTouch ==
    ASSUME Backend = "redis"
    PROVE  /\ \A m : PayloadOf(m) = signups[m]
           /\ \A m : Touch(m) => UNCHANGED storeVars
           /\ \A entry : TouchIndex(entry) => UNCHANGED storeVars
  BY DEF PayloadOf, Touch, TouchIndex

\* The steps of p that neither count nor store.
Calm(p) ==
    /\ UNCHANGED <<now, signups, sends>>
    /\ pc[p] # "save"
    /\ pc'[p] \notin {"resendSend", "save"}

LEMMA CalmSteps ==
    ASSUME Backend = "redis", TypeInv, NEW p \in Procs,
           Request(p) \/ Resend(p) \/ Verify(p) \/ Status(p)
    PROVE  \/ Calm(p)
           \/ Send(p) \/ SaveSignup(p) \/ ResendSend(p) \/ DeleteKeys(p)
           \/ ResendRead(p) /\ PayloadOf(target[p]) # None
  <1>1. ControlOK
    BY DEF TypeInv, TypeOK, ControlOK
  <1>2. CASE \/ RequestSignupOTP(p) \/ CheckUsername(p) \/ CheckEmail(p) \/ CheckMobile(p)
             \/ ResendSignupOTP(p) \/ VerifySignupOTP(p) \/ SignupStatus(p)
    BY <1>1, <1>2
    DEF RequestSignupOTP, CheckUsername, CheckEmail, CheckMobile, UserLookup, Goto, Return,
        ResendSignupOTP, VerifySignupOTP, SignupStatus, Begin, history, storeVars, ControlOK, Calm
  <1>3. CASE \/ CheckIndexName(p) \/ CheckIndexEmail(p) \/ CheckIndexMobile(p)
             \/ PendingConflict(p)
    BY <1>1, <1>3, RedisTouch
    DEF CheckIndexName, CheckIndexEmail, CheckIndexMobile, IndexLookup, PendingConflict,
        Available, Goto, Return, history, storeVars, ControlOK, Calm
  <1>4. CASE (ResendRead(p) /\ PayloadOf(target[p]) = None) \/ VerifyRead(p)
    BY <1>1, <1>4, RedisTouch
    DEF ResendRead, VerifyRead, ReadPending, Return, history, storeVars, ControlOK, Calm
  <1>5. CASE CheckAge(p) \/ CheckVerification(p) \/ RegisterUser(p)
    BY <1>1, <1>5
    DEF CheckAge, CheckVerification, RegisterUser, Goto, Return, history, storeVars, ControlOK,
        Calm
  <1>6. CASE DeleteByMobile(p) \/ StatusPending(p) \/ StatusUser(p) \/ StatusAnswered(p)
    BY <1>1, <1>6, RedisTouch
    DEF DeleteByMobile, StatusPending, StatusUser, StatusAnswered, Goto, Return, history,
        storeVars, ControlOK, Calm
  <1> QED BY <1>2, <1>3, <1>4, <1>5, <1>6 DEF Request, Resend, Verify, Status

LEMMA CountNext ==
    ASSUME OneRequest, ~Faults, Backend = "redis", MaxResends > 0,
           TypeInv, SequentialInv, CountInv, [Next]_vars
    PROVE  CountInv'
  <1>1. ControlOK /\ StoreInv /\ sends \in [Mobiles -> Nat] /\ MaxResends \in Nat
    BY ConfigAssumption DEF TypeInv, TypeOK, ControlOK, StoreInv
  <1>2. CASE UNCHANGED vars
    BY <1>2 DEF vars, CountInv, CountLocal, CountStored, Counted, Resaving
  <1>3. CASE Tick
    <2>1. /\ UNCHANGED <<pc, req, target, pend, sends>> /\ now' = now + 1
          /\ \A m \in Mobiles : \/ signups'[m] = None
                                \/ signups'[m] = signups[m] /\ ~(signups[m].expires <= now + 1)
      BY <1>3 DEF Tick, localVars, history, StoreTick, Alive
    <2>2. \A m \in Mobiles : signups[m] # None => signups[m].expires \in Nat
      BY <1>1 DEF StoreInv, StoreTypeOK, PendingSignup
    <2>3. now \in Nat
      BY <1>1 DEF StoreInv, StoreTypeOK
    <2>4. \A m \in Mobiles : CountStored(m)'
      BY <2>1, <2>2, <2>3 DEF CountInv, CountStored, Resaving
    <2> QED BY <2>1, <2>4 DEF CountInv, CountLocal, Counted, Resaving
  <1>4. ASSUME NEW p \in Procs, Request(p) \/ Resend(p) \/ Verify(p) \/ Status(p)
        PROVE  CountInv'
    <2>1. \A q \in Procs : q = p
      BY DEF OneRequest
    <2>2. CountLocal(p) /\ SequentialLocal(p)
      BY DEF CountInv, SequentialInv
    <2>3. CASE Calm(p)
      <3>1. CountLocal(p)'
        BY <2>3 DEF Calm, CountLocal, Resaving
      <3>2. \A m \in Mobiles : CountStored(m)'
        BY <2>1, <2>3 DEF Calm, CountInv, CountStored, Resaving
      <3> QED BY <2>1, <3>1, <3>2 DEF CountInv
    <2>4. CASE Send(p)
      <3>1. /\ UNCHANGED <<now, signups, sends, req>> /\ pc[p] = "send" /\ pc'[p] = "save"
            /\ pend'[p].resends = 0 /\ req[p] # None
        BY <1>1, <2>4, NoneFacts
        DEF Send, NewSignup, storeVars, ControlOK, LocalsOK, AtRequest
      <3>2. CountLocal(p)'
        BY <3>1 DEF CountLocal, Resaving
      <3>3. \A m \in Mobiles : CountStored(m)'
        BY <2>1, <3>1 DEF CountInv, CountStored, Resaving
      <3> QED BY <2>1, <3>2, <3>3 DEF CountInv
    <2>5. CASE ResendRead(p) /\ PayloadOf(target[p]) # None
      <3>1. /\ UNCHANGED <<now, signups, sends>> /\ pc[p] = "resend" /\ pc'[p] = "resendSend"
            /\ pend'[p] = signups[target[p]] /\ target'[p] = target[p]
            /\ signups[target[p]] # None /\ target[p] \in Mobiles
        BY <1>1, <2>5, RedisTouch
        DEF ResendRead, ReadPending, storeVars, history, ControlOK, LocalsOK
      <3>2. \A m \in Mobiles : signups[m] # None => sends[m] <= signups[m].resends + 1
        BY <2>1, <3>1 DEF CountInv, CountStored, Resaving
      <3>3. CountLocal(p)'
        BY <3>1, <3>2 DEF CountInv, CountStored, CountLocal, Counted, Resaving
      <3>4. \A m \in Mobiles : CountStored(m)'
        BY <3>1, <3>2 DEF CountInv, CountStored
      <3> QED BY <2>1, <3>3, <3>4 DEF CountInv
    <2>6. CASE ResendSend(p)
      <3>1. /\ pc[p] = "resendSend" /\ target[p] \in Mobiles /\ pend[p] \in PendingSignup
            /\ UNCHANGED <<now, signups>> /\ Counted(p) /\ req[p] = None
        BY <1>1, <2>2, <2>6
        DEF ResendSend, storeVars, ControlOK, LocalsOK, AtTarget, CountLocal, SequentialLocal
      <3>2. pend[p].resends \in Nat /\ sends[target[p]] \in Nat
        BY <1>1, <3>1 DEF PendingSignup
      <3>3. CASE ValidateResendWindow(pend[p])
        <4>1. /\ pc'[p] = "save" /\ req'[p] = None /\ target'[p] = target[p]
              /\ pend'[p] = Resent(pend[p])
              /\ sends' = [sends EXCEPT ![target[p]] = Min2(sends[target[p]] + 1, SendCap)]
          BY <1>1, <2>6, <3>1, <3>3 DEF ResendSend, ControlOK
        <4>2. Resent(pend[p]).resends = pend[p].resends + 1
          BY <3>1 DEF Resent, PendingSignup
        <4>3. Min2(sends[target[p]] + 1, SendCap) <= sends[target[p]] + 1
          BY <3>2, ConfigAssumption DEF Min2
        <4>4. Min2(sends[target[p]] + 1, SendCap) \in Nat
          BY <3>2, ConfigAssumption DEF Min2
        <4>5. /\ sends'[target[p]] <= pend[p].resends + 2
              /\ pend[p].resends + 1 <= MaxResends
          BY <1>1, <3>1, <3>2, <3>3, <4>1, <4>3, <4>4 DEF Counted, ValidateResendWindow
        <4>6. Counted(p)'
          BY <3>2, <4>1, <4>2, <4>5 DEF Counted
        <4>7. CountLocal(p)'
          BY <4>1, <4>6 DEF CountLocal, Resaving
        <4>8. sends'[target[p]] <= MaxResends + 1
          BY <1>1, <3>1, <3>2, <4>1, <4>4, <4>5
        <4>9. ASSUME NEW m \in Mobiles PROVE CountStored(m)'
          <5>1. CASE m = target[p]
            BY <3>1, <4>1, <4>8, <5>1 DEF CountInv, CountStored, Resaving
          <5>2. CASE m # target[p]
            BY <2>1, <3>1, <4>1, <5>2 DEF CountInv, CountStored, Resaving
          <5> QED BY <5>1, <5>2
        <4> QED BY <2>1, <4>7, <4>9 DEF CountInv
      <3>4. CASE ~ValidateResendWindow(pend[p])
        <4>1. Calm(p)
          BY <1>1, <2>6, <3>1, <3>4 DEF ResendSend, Return, ControlOK, Calm
        <4> QED BY <2>3, <4>1
      <3> QED BY <3>3, <3>4
    <2>7. CASE SaveSignup(p)
      <3>1. /\ pc[p] = "save" /\ target[p] \in Mobiles /\ pend[p] \in PendingSignup
            /\ pend[p].mobile \in Mobiles /\ pend[p].resends \in Nat /\ pend[p].expires \in Nat
            /\ pend[p] # None /\ pc'[p] = "idle" /\ now' = now /\ now \in Nat
        BY <1>1, <2>7, NoneFacts
        DEF SaveSignup, Return, ControlOK, LocalsOK, PendingSignup, StoreInv, StoreTypeOK
      <3>2. CountLocal(p)'
        BY <3>1 DEF CountLocal, Resaving
      <3>3. CASE CanSave(pend[p])
        <4>1. /\ signups' = [signups EXCEPT ![pend[p].mobile] = pend[p]]
              /\ now < pend[p].expires
          BY <2>7, <3>3 DEF SaveSignup, Save, CanSave
        <4>2. pend[p].resends <= MaxResends /\ sends'[pend[p].mobile] <= pend[p].resends + 1
          <5>1. CASE req[p] = None
            BY <2>2, <2>7, <3>1, <5>1
            DEF SaveSignup, CountLocal, SequentialLocal, Counted, Resaving
          <5>2. CASE req[p] # None
            <6>1. sends' = [sends EXCEPT ![pend[p].mobile] = 1] /\ pend[p].resends = 0
              BY <2>2, <2>7, <3>1, <3>3, <5>2 DEF SaveSignup, CountLocal
            <6> QED BY <1>1, <3>1, <6>1
          <5> QED BY <5>1, <5>2
        <4>3. sends'[pend[p].mobile] \in Nat
          BY <1>1, <2>7, <3>1 DEF SaveSignup
        <4>4. ASSUME NEW m \in Mobiles PROVE CountStored(m)'
          <5>1. CASE m = pend[p].mobile
            <6>1. signups'[m] = pend[p]
              BY <1>1, <3>1, <4>1, <5>1 DEF StoreInv, StoreTypeOK
            <6> QED BY <1>1, <3>1, <4>1, <4>2, <4>3, <5>1, <6>1 DEF CountStored
          <5>2. CASE m # pend[p].mobile
            <6>1. signups'[m] = signups[m] /\ sends'[m] = sends[m]
              BY <1>1, <2>7, <3>1, <4>1, <5>2 DEF SaveSignup, StoreInv, StoreTypeOK
            <6>2. ~(Resaving(p) /\ target[p] = m)
              BY <2>2, <5>2 DEF SequentialLocal
            <6> QED BY <2>1, <3>1, <6>1, <6>2 DEF CountInv, CountStored
          <5> QED BY <5>1, <5>2
        <4> QED BY <2>1, <3>2, <4>4 DEF CountInv
      <3>4. CASE ~CanSave(pend[p])
        <4>1. UNCHANGED <<signups, sends>> /\ ~(now < pend[p].expires)
          BY <2>7, <3>4 DEF SaveSignup, CanSave, storeVars
        <4>2. Resaving(p) => signups[target[p]] = None
          BY <2>2, <3>1, <4>1, RedisTouch
          DEF SequentialLocal, AsRead, CountInv, CountStored
        <4>3. \A m \in Mobiles : CountStored(m)'
          BY <2>1, <3>1, <4>1, <4>2 DEF CountInv, CountStored
        <4> QED BY <2>1, <3>2, <4>3 DEF CountInv
      <3> QED BY <3>3, <3>4
    <2>8. CASE DeleteKeys(p)
      <3>1. /\ pc[p] = "delKeys" /\ pc'[p] = "idle" /\ UNCHANGED <<now, sends>>
            /\ \A m \in Mobiles : signups'[m] = None \/ signups'[m] = signups[m]
        BY <1>1, <2>8
        DEF DeleteKeys, Drop, Return, history, ControlOK, StoreInv, StoreTypeOK
      <3>2. CountLocal(p)'
        BY <3>1 DEF CountLocal, Resaving
      <3>3. \A m \in Mobiles : CountStored(m)'
        BY <2>1, <3>1 DEF CountInv, CountStored, Resaving
      <3> QED BY <2>1, <3>2, <3>3 DEF CountInv
    <2> QED BY <1>4, <2>3, <2>4, <2>5, <2>6, <2>7, <2>8, CalmSteps
  <1> QED BY <1>2, <1>3, <1>4 DEF Next, Step, Restart, Abort

\* With one request at a time, and as long as no call fails between the message and the
\* save, no pending signup gets more than MaxResends messages after the first.
THEOREM ResendsAreLimited ==
    ASSUME OneRequest, ~Faults, Backend = "redis"
    PROVE  Spec => []ResendLimitRespected
  <1>1. CASE MaxResends > 0
    <2>1. Init => SequentialInv /\ CountInv
      BY SequentialInit, ConfigAssumption
      DEF Init, StoreInit, CountInv, CountLocal, CountStored, Resaving
    <2>2. TypeInv /\ SequentialInv /\ CountInv /\ [Next]_vars => SequentialInv' /\ CountInv'
      BY <1>1, SequentialNext, CountNext
    <2>3. CountInv => ResendLimitRespected
      BY DEF CountInv, CountStored, ResendLimitRespected
    <2> QED BY <2>1, <2>2, <2>3, TypeInvInvariant, PTL DEF Spec
  <1>2. CASE ~(MaxResends > 0)
    <2>1. ResendLimitRespected
      BY <1>2 DEF ResendLimitRespected
    <2> QED BY <2>1, PTL
  <1> QED BY <1>1, <1>2
=============================================================================
