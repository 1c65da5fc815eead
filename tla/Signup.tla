------------------------------ MODULE Signup ------------------------------
(***************************************************************************)
(* The OTP signup flow of auth/service/service.go: RequestSignupOTP,       *)
(* ResendSignupOTP, VerifySignupOTP and SignupStatus, run by concurrent    *)
(* HTTP requests over the pending-signup store, the OTP provider and the   *)
(* users table.  A request is a process of Procs; every call it makes to a *)
(* store, to the provider or to the database is one step, and steps of     *)
(* different requests interleave.                                          *)
(***************************************************************************)
EXTENDS PendingSignupStore, FiniteSets

CONSTANTS
    Procs,       \* request slots: how many requests run at once
    TTL,         \* OTPConfig.PendingSignupTTL
    Cooldown,    \* OTPConfig.ResendCooldown
    MaxResends,  \* OTPConfig.MaxResends, 0 for no limit
    MaxTime,     \* bound on the clock
    SendCap,     \* the history counter of messages saturates here
    Faults       \* do calls fail, are requests cancelled, does the process restart

ASSUME ConfigAssumption ==
    /\ TTL \in Nat \ {0}
    /\ Cooldown \in Nat
    /\ MaxResends \in Nat
    /\ MaxTime \in Nat
    /\ SendCap \in Nat
    /\ Faults \in BOOLEAN

\* What a signup reserves and an account holds.
Identity == [username : Usernames, email : Emails, mobile : Mobiles]

IdentityOf(s) == [username |-> s.username, email |-> s.email, mobile |-> s.mobile]

ASSUME NoneIdentityAssumption == None \notin Identity \cup Mobiles

VARIABLES
    users,      \* rows of the users table created by signup
    codes,      \* mobiles with a code the provider would approve
    pc,         \* next step of each request
    req,        \* the identity a signup request asks for
    target,     \* the mobile a request works on, or the one an index led to
    pend,       \* the pending signup a request has read or is about to save
    offered,    \* history: identities whose signup had an OTP sent
    approved,   \* history: mobiles the provider approved a code for
    sends,      \* history: messages sent for the pending signup of a mobile
    gaps        \* history: status requests that have met a moment without the signup

localVars == <<pc, req, target, pend>>
history == <<offered, approved, sends>>
vars == <<now, signups, byUsername, byEmail, byMobile, users, codes,
          pc, req, target, pend, offered, approved, sends, gaps>>

Steps == {"idle", "userName", "userEmail", "userMobile",
          "indexName", "indexEmail", "indexMobile", "conflict", "send", "save",
          "resend", "resendSend",
          "verify", "age", "check", "register", "delete", "delKeys",
          "status", "statusUser", "pending", "completed", "expired"}

TypeOK ==
    /\ StoreTypeOK
    /\ users \subseteq Identity
    /\ codes \subseteq Mobiles
    /\ pc \in [Procs -> Steps]
    /\ req \in [Procs -> Identity \cup {None}]
    /\ target \in [Procs -> Mobiles \cup {None}]
    /\ pend \in [Procs -> PendingSignup \cup {None}]
    /\ offered \subseteq Identity
    /\ approved \subseteq Mobiles
    /\ sends \in [Mobiles -> Nat]
    /\ gaps \subseteq Procs

Init ==
    /\ now = 0
    /\ StoreInit
    /\ users = {}
    /\ codes = {}
    /\ pc = [p \in Procs |-> "idle"]
    /\ req = [p \in Procs |-> None]
    /\ target = [p \in Procs |-> None]
    /\ pend = [p \in Procs |-> None]
    /\ offered = {}
    /\ approved = {}
    /\ sends = [m \in Mobiles |-> 0]
    /\ gaps = {}

----------------------------------------------------------------------------
(***************************************************************************)
(* Control of a request.                                                   *)
(***************************************************************************)

\* The request goes on to step s and keeps its locals.
Goto(p, s) ==
    /\ pc' = [pc EXCEPT ![p] = s]
    /\ UNCHANGED <<req, target, pend>>

\* The request is answered: its locals are gone.
Return(p) ==
    /\ pc' = [pc EXCEPT ![p] = "idle"]
    /\ req' = [req EXCEPT ![p] = None]
    /\ target' = [target EXCEPT ![p] = None]
    /\ pend' = [pend EXCEPT ![p] = None]

\* A request for mobile m arrives and starts at step s.
Begin(p, m, s) ==
    /\ pc[p] = "idle"
    /\ pc' = [pc EXCEPT ![p] = s]
    /\ target' = [target EXCEPT ![p] = m]
    /\ UNCHANGED <<req, pend>>
    /\ UNCHANGED <<now, storeVars, users, codes, history>>

----------------------------------------------------------------------------
(***************************************************************************)
(* RequestSignupOTP.  The request has passed normalizeSignupRequest; what  *)
(* it rejects changes nothing.                                             *)
(***************************************************************************)
RequestSignupOTP(p) ==
    \E r \in Identity :
        /\ pc[p] = "idle"
        /\ pc' = [pc EXCEPT ![p] = "userName"]
        /\ req' = [req EXCEPT ![p] = r]
        /\ target' = [target EXCEPT ![p] = r.mobile]
        /\ UNCHANGED pend
        /\ UNCHANGED <<now, storeVars, users, codes, history>>

\* ensureSignupAvailability: one of its three lookups in the users table.
UserLookup(p, here, taken, next) ==
    /\ pc[p] = here
    /\ IF taken THEN Return(p) ELSE Goto(p, next)
    /\ UNCHANGED <<now, storeVars, users, codes, history>>

CheckUsername(p) ==
    UserLookup(p, "userName", \E u \in users : u.username = req[p].username, "userEmail")

CheckEmail(p) ==
    UserLookup(p, "userEmail", \E u \in users : u.email = req[p].email, "userMobile")

\* Mutant of CheckMobile: the lookup by mobile is left out.
CheckMobileSkipped(p) == UserLookup(p, "userMobile", FALSE, "indexName")

CheckMobile(p) ==
    UserLookup(p, "userMobile", \E u \in users : u.mobile = req[p].mobile, "indexName")

\* ensureSignupAvailability has found the identity free.
Available(p) == Goto(p, "send")

\* One of the three lookups among the pending signups; a hit goes to pendingConflict.
IndexLookup(p, here, entry, miss) ==
    /\ pc[p] = here
    /\ TouchIndex(entry)
    /\ IF MobileOf(entry) = None
       THEN miss
       ELSE /\ pc' = [pc EXCEPT ![p] = "conflict"]
            /\ target' = [target EXCEPT ![p] = MobileOf(entry)]
            /\ UNCHANGED <<req, pend>>
    /\ UNCHANGED <<now, users, codes, history>>

CheckIndexName(p) ==
    IndexLookup(p, "indexName", byUsername[req[p].username], Goto(p, "indexEmail"))

CheckIndexEmail(p) ==
    IndexLookup(p, "indexEmail", byEmail[req[p].email], Goto(p, "indexMobile"))

CheckIndexMobile(p) ==
    IndexLookup(p, "indexMobile", byMobile[req[p].mobile], Available(p))

\* pendingConflict: with the payload gone the identity counts as available.
PendingConflict(p) ==
    /\ pc[p] = "conflict"
    /\ Touch(target[p])
    /\ IF PayloadOf(target[p]) = None THEN Available(p) ELSE Return(p)
    /\ UNCHANGED <<now, users, codes, history>>

Min2(a, b) == IF a < b THEN a ELSE b

\* SendVerification: from now on the provider approves the code it sent to m.
SendVerification(m) == codes' = codes \cup {m}

\* The pending signup is made up with the time just before the message goes out.
NewSignup(r) ==
    [username |-> r.username, email |-> r.email, mobile |-> r.mobile,
     resends |-> 0, lastSent |-> now, expires |-> now + TTL]

Send(p) ==
    /\ pc[p] = "send"
    /\ SendVerification(req[p].mobile)
    /\ pend' = [pend EXCEPT ![p] = NewSignup(req[p])]
    /\ pc' = [pc EXCEPT ![p] = "save"]
    /\ UNCHANGED <<req, target>>
    /\ offered' = offered \cup {req[p]}
    /\ UNCHANGED <<now, storeVars, users, approved, sends>>

\* The last step of RequestSignupOTP and of ResendSignupOTP.
SaveSignup(p) ==
    /\ pc[p] = "save"
    /\ IF CanSave(pend[p]) THEN Save(pend[p]) ELSE UNCHANGED storeVars
    /\ Return(p)
    /\ sends' = IF req[p] # None /\ CanSave(pend[p])
                THEN [sends EXCEPT ![pend[p].mobile] = 1]
                ELSE sends
    /\ UNCHANGED <<now, users, codes, offered, approved>>

----------------------------------------------------------------------------
(***************************************************************************)
(* ResendSignupOTP                                                         *)
(***************************************************************************)
ResendSignupOTP(p) == \E m \in Mobiles : Begin(p, m, "resend")

\* GetByMobile, for the step that goes on to next when there is a payload.
ReadPending(p, here, next) ==
    /\ pc[p] = here
    /\ Touch(target[p])
    /\ IF PayloadOf(target[p]) = None
       THEN Return(p)
       ELSE /\ pc' = [pc EXCEPT ![p] = next]
            /\ pend' = [pend EXCEPT ![p] = PayloadOf(target[p])]
            /\ UNCHANGED <<req, target>>
    /\ UNCHANGED <<now, users, codes, history>>

ResendRead(p) == ReadPending(p, "resend", "resendSend")

\* Mutant of ValidateResendWindow: the limit is off by one.
ValidateResendWindowOffByOne(s) ==
    /\ MaxResends > 0 => s.resends <= MaxResends
    /\ Cooldown > 0 => now - s.lastSent >= Cooldown

ValidateResendWindow(s) ==
    /\ MaxResends > 0 => s.resends < MaxResends
    /\ Cooldown > 0 => now - s.lastSent >= Cooldown

Resent(s) == [s EXCEPT !.resends = @ + 1, !.lastSent = now]

\* The window is checked on what was read; the message goes out; the count is raised.
ResendSend(p) ==
    /\ pc[p] = "resendSend"
    /\ IF ValidateResendWindow(pend[p])
       THEN /\ SendVerification(target[p])
            /\ sends' = [sends EXCEPT ![target[p]] = Min2(@ + 1, SendCap)]
            /\ pend' = [pend EXCEPT ![p] = Resent(@)]
            /\ pc' = [pc EXCEPT ![p] = "save"]
            /\ UNCHANGED <<req, target>>
       ELSE /\ Return(p)
            /\ UNCHANGED <<codes, sends>>
    /\ UNCHANGED <<now, storeVars, users, offered, approved>>

----------------------------------------------------------------------------
(***************************************************************************)
(* VerifySignupOTP                                                         *)
(***************************************************************************)
VerifySignupOTP(p) == \E m \in Mobiles : Begin(p, m, "verify")

VerifyRead(p) == ReadPending(p, "verify", "age")

CheckAge(p) ==
    /\ pc[p] = "age"
    /\ Goto(p, IF After(pend[p].expires) THEN "delete" ELSE "check")
    /\ UNCHANGED <<now, storeVars, users, codes, history>>

\* Mutant of CheckVerification: the error is tested and the verdict is not.
CheckVerificationVerdictIgnored(p) ==
    /\ pc[p] = "check"
    /\ \/ /\ target[p] \in codes
          /\ codes' = codes \ {target[p]}
          /\ approved' = approved \cup {target[p]}
       \/ UNCHANGED <<codes, approved>>
    /\ Goto(p, "register")
    /\ UNCHANGED <<now, storeVars, users, offered, sends>>

\* CheckVerification approves a code once; a wrong or used code is refused.
CheckVerification(p) ==
    /\ pc[p] = "check"
    /\ \/ /\ target[p] \in codes
          /\ codes' = codes \ {target[p]}
          /\ approved' = approved \cup {target[p]}
          /\ Goto(p, "register")
       \/ /\ Return(p)
          /\ UNCHANGED <<codes, approved>>
    /\ UNCHANGED <<now, storeVars, users, offered, sends>>

\* The unique indices of the users table.
Collides(i) ==
    \E u \in users : \/ u.username = i.username
                     \/ u.email = i.email
                     \/ u.mobile = i.mobile

Registered(m) == \E u \in users : u.mobile = m

\* Mutant of RegisterUser: the whole pending signup is stored.
RegisterUserWholePayload(p) ==
    /\ pc[p] = "register"
    /\ IF Collides(IdentityOf(pend[p]))
       THEN Return(p) /\ UNCHANGED users
       ELSE users' = users \cup {pend[p]} /\ Goto(p, "delete")
    /\ UNCHANGED <<now, storeVars, codes, history>>

\* Mutant of RegisterUser: the pending signup is deleted when the insertion fails too.
RegisterUserErrorIgnored(p) ==
    /\ pc[p] = "register"
    /\ users' = IF Collides(IdentityOf(pend[p]))
                THEN users ELSE users \cup {IdentityOf(pend[p])}
    /\ Goto(p, "delete")
    /\ UNCHANGED <<now, storeVars, codes, history>>

RegisterUser(p) ==
    /\ pc[p] = "register"
    /\ IF Collides(IdentityOf(pend[p]))
       THEN Return(p) /\ UNCHANGED users
       ELSE users' = users \cup {IdentityOf(pend[p])} /\ Goto(p, "delete")
    /\ UNCHANGED <<now, storeVars, codes, history>>

(***************************************************************************)
(* DeleteByMobile: one critical section in memory; in Redis a read of the  *)
(* payload and then the four deletions.  Its error is ignored.             *)
(***************************************************************************)
DeleteByMobile(p) ==
    /\ pc[p] = "delete"
    /\ IF Backend = "memory"
       THEN /\ IF signups[target[p]] = None
               THEN UNCHANGED storeVars
               ELSE Drop(target[p], signups[target[p]])
            /\ Return(p)
       ELSE /\ UNCHANGED storeVars
            /\ IF signups[target[p]] = None
               THEN Return(p)
               ELSE /\ pc' = [pc EXCEPT ![p] = "delKeys"]
                    /\ pend' = [pend EXCEPT ![p] = signups[target[p]]]
                    /\ UNCHANGED <<req, target>>
    /\ UNCHANGED <<now, users, codes, history>>

DeleteKeys(p) ==
    /\ pc[p] = "delKeys"
    /\ Drop(target[p], pend[p])
    /\ Return(p)
    /\ UNCHANGED <<now, users, codes, history>>

----------------------------------------------------------------------------
(***************************************************************************)
(* SignupStatus: the pending store is read before the users table.  The    *)
(* answer stays visible for one step.                                      *)
(***************************************************************************)
SignupStatus(p) == \E m \in Mobiles : Begin(p, m, "status")

Waiting(m) == PayloadOf(m) # None /\ now < PayloadOf(m).expires

StatusPending(p) ==
    /\ pc[p] = "status"
    /\ Touch(target[p])
    /\ Goto(p, IF Waiting(target[p]) THEN "pending" ELSE "statusUser")
    /\ UNCHANGED <<now, users, codes, history>>

StatusUser(p) ==
    /\ pc[p] = "statusUser"
    /\ Goto(p, IF Registered(target[p]) THEN "completed" ELSE "expired")
    /\ UNCHANGED <<now, storeVars, users, codes, history>>

StatusAnswered(p) ==
    /\ pc[p] \in {"pending", "completed", "expired"}
    /\ Return(p)
    /\ UNCHANGED <<now, storeVars, users, codes, history>>

----------------------------------------------------------------------------
(***************************************************************************)
(* The environment: the clock; a request that ends early because a call    *)
(* fails, its context is cancelled or its connection is lost (a call that  *)
(* took effect and still returned an error is the step followed by this    *)
(* one); a restart of the process.                                         *)
(***************************************************************************)
Tick ==
    /\ now < MaxTime
    /\ StoreTick
    /\ UNCHANGED <<users, codes, localVars, history>>

Abort(p) ==
    /\ Faults
    /\ pc[p] \notin {"idle", "pending", "completed", "expired"}
    /\ Return(p)
    /\ UNCHANGED <<now, storeVars, users, codes, history>>

Restart ==
    /\ Faults
    /\ StoreRestart
    /\ pc' = [p \in Procs |-> "idle"]
    /\ req' = [p \in Procs |-> None]
    /\ target' = [p \in Procs |-> None]
    /\ pend' = [p \in Procs |-> None]
    /\ UNCHANGED <<now, users, codes, history>>

Request(p) ==
    \/ RequestSignupOTP(p) \/ CheckUsername(p) \/ CheckEmail(p) \/ CheckMobile(p)
    \/ CheckIndexName(p) \/ CheckIndexEmail(p) \/ CheckIndexMobile(p)
    \/ PendingConflict(p) \/ Send(p) \/ SaveSignup(p)

Resend(p) == ResendSignupOTP(p) \/ ResendRead(p) \/ ResendSend(p)

Verify(p) ==
    \/ VerifySignupOTP(p) \/ VerifyRead(p) \/ CheckAge(p) \/ CheckVerification(p)
    \/ RegisterUser(p) \/ DeleteByMobile(p) \/ DeleteKeys(p)

\* Mutant of Status: the users table is read before the pending store.
StatusUsersFirst(p) ==
    \/ SignupStatus(p)
    \/ /\ pc[p] = "status"
       /\ Goto(p, IF Registered(target[p]) THEN "completed" ELSE "statusUser")
       /\ UNCHANGED <<now, storeVars, users, codes, history>>
    \/ /\ pc[p] = "statusUser"
       /\ Touch(target[p])
       /\ Goto(p, IF Waiting(target[p]) THEN "pending" ELSE "expired")
       /\ UNCHANGED <<now, users, codes, history>>
    \/ StatusAnswered(p)

Status(p) ==
    SignupStatus(p) \/ StatusPending(p) \/ StatusUser(p) \/ StatusAnswered(p)

Step ==
    \/ Tick
    \/ Restart
    \/ \E p \in Procs : Request(p) \/ Resend(p) \/ Verify(p) \/ Status(p) \/ Abort(p)

(***************************************************************************)
(* gaps records the status requests during which their mobile was, at some *)
(* moment, neither pending nor registered.                                 *)
(***************************************************************************)
Known(m) == Registered(m) \/ Waiting(m)

StatusSteps == {"status", "statusUser", "pending", "completed", "expired"}

ObserveGaps ==
    gaps' = {p \in Procs : /\ pc'[p] \in StatusSteps
                           /\ p \in gaps \/ ~Known(target[p])'}

Next == Step /\ ObserveGaps

Spec == Init /\ [][Next]_vars

----------------------------------------------------------------------------
(***************************************************************************)
(* Properties.                                                             *)
(***************************************************************************)

\* A user row exists only for an identity whose signup had an OTP sent to its
\* mobile and whose mobile the provider has approved: VerifySignupOTP creates the
\* account from the very signup that was requested, after the check.
VerifiedAccounts ==
    \A u \in users : u \in offered /\ u.mobile \in approved

\* In both stores the mobile index and the payload come and go together, however
\* saves, deletions and expiry interleave: Save, DeleteByMobile and deleteLocked
\* always treat the two keys alike.
MobileIndexMirrorsPayload ==
    \A m \in Mobiles :
        byMobile[m] = IF signups[m] = None THEN None ELSE Entry(signups[m])

\* An entry of the username or e-mail index leads to a pending signup of that
\* username or e-mail.  deleteLocked and the clean-up in the in-memory Save keep it;
\* the Redis store has no such clean-up.
IndexLeadsToOwner ==
    /\ \A u \in Usernames : byUsername[u] # None =>
          LET s == signups[byUsername[u].mobile] IN s # None /\ s.username = u
    /\ \A e \in Emails : byEmail[e] # None =>
          LET s == signups[byEmail[e].mobile] IN s # None /\ s.email = e

\* SignupStatus says "expired" only if at some moment of the call the mobile was
\* neither pending nor registered: it reads the pending store before the users table,
\* and VerifySignupOTP creates the account before it deletes the pending signup, so a
\* signup that completes during the call is not missed.
StatusMissesNothing ==
    \A p \in Procs : pc[p] = "expired" => p \in gaps

\* Two pending signups never hold the same username or the same e-mail: what
\* ensureSignupAvailability is for.
DuplicatesBlocked ==
    \A m, n \in Mobiles :
        m # n /\ PayloadOf(m) # None /\ PayloadOf(n) # None =>
            /\ PayloadOf(m).username # PayloadOf(n).username
            /\ PayloadOf(m).email # PayloadOf(n).email

\* For one pending signup at most MaxResends messages follow the first one: what
\* validateResendWindow and the stored ResendCount are for.
ResendLimitRespected ==
    MaxResends > 0 => \A m \in Mobiles : sends[m] <= MaxResends + 1

Completed(m) == Registered(m) /\ PayloadOf(m) = None

\* A mobile whose signup is completed does not become pending again: nothing saves
\* a pending signup for an account that VerifySignupOTP has created and cleaned up.
CompletedStaysCompleted ==
    [][\A m \in Mobiles : Completed(m) => Completed(m)']_vars

\* A pending signup disappears only when its account exists or its time is over:
\* DeleteByMobile removes nothing that still waits for its code.
PendingKeptUntilVerified ==
    [][\A m \in Mobiles :
          PayloadOf(m) # None /\ PayloadOf(m)' = None =>
              Registered(m) \/ signups[m].expires <= now']_vars

=============================================================================
