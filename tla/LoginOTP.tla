----------------------------- MODULE LoginOTP -----------------------------
(***************************************************************************)
(* The OTP login flow of auth/service/service.go: RequestLoginOTP, which   *)
(* is ResendLoginOTP as well, and VerifyLoginOTP, over the login OTP state *)
(* store (cache/memory/stores.go, cache/redis/otp_state_store.go).  The    *)
(* state of a mobile says how many messages were resent, when the last one *)
(* went out and when the state is forgotten; every message renews that.    *)
(***************************************************************************)
EXTENDS Naturals, FiniteSets

CONSTANTS
    Procs,       \* request slots
    Mobiles,
    TTL,         \* OTPConfig.PendingSignupTTL
    Cooldown,    \* OTPConfig.ResendCooldown
    MaxResends,  \* OTPConfig.MaxResends, 0 for no limit
    MaxTime,     \* bound on the clock
    MaxSends,    \* bound on the messages for a mobile
    Faults,      \* do calls fail and requests end early
    None

ASSUME LoginAssumption ==
    /\ TTL \in Nat \ {0}
    /\ Cooldown \in Nat /\ MaxResends \in Nat
    /\ MaxTime \in Nat /\ MaxSends \in Nat
    /\ Faults \in BOOLEAN
    /\ IsFiniteSet(Procs)

\* auth.OTPRequestState
State == [resends : Nat, lastSent : Nat, expires : Nat]

ASSUME NoneAssumption == None \notin State \cup Mobiles

VARIABLES
    backend,   \* the store that main built at start, "memory" or "redis"
    now,       \* the clock
    states,    \* the login OTP state of each mobile
    accounts,  \* the account of each mobile: "none", "verified" or "unverified"
    codes,     \* mobiles with a code the provider would approve
    pc,        \* next step of each request
    target,    \* the mobile a request works on
    read,      \* the state a request has read
    sent,      \* history: login messages sent to each mobile
    streak,    \* history: messages sent since a request last found no state
    last,      \* history: when the last message went to each mobile
    mixed      \* history: mobiles with a state that requests at once, or one that was cut
               \* off between its message and its Save, had a part in

history == <<sent, streak, last, mixed>>
vars == <<backend, now, states, accounts, codes, pc, target, read, sent, streak, last, mixed>>

Steps == {"idle", "reqUser", "reqState", "send", "save", "verUser", "check", "delete"}

TypeOK ==
    /\ backend \in {"memory", "redis"}
    /\ now \in Nat
    /\ states \in [Mobiles -> State \cup {None}]
    /\ accounts \in [Mobiles -> {"none", "verified", "unverified"}]
    /\ codes \subseteq Mobiles
    /\ pc \in [Procs -> Steps]
    /\ target \in [Procs -> Mobiles \cup {None}]
    /\ read \in [Procs -> State \cup {None}]
    /\ sent \in [Mobiles -> Nat]
    /\ streak \in [Mobiles -> Nat]
    /\ last \in [Mobiles -> Nat]
    /\ mixed \subseteq Mobiles

Init ==
    /\ backend \in {"memory", "redis"}
    /\ now = 0
    /\ states = [m \in Mobiles |-> None]
    /\ accounts = [m \in Mobiles |-> "none"]
    /\ codes = {}
    /\ pc = [p \in Procs |-> "idle"]
    /\ target = [p \in Procs |-> None]
    /\ read = [p \in Procs |-> None]
    /\ sent = [m \in Mobiles |-> 0]
    /\ streak = [m \in Mobiles |-> 0]
    /\ last = [m \in Mobiles |-> 0]
    /\ mixed = {}

Goto(p, s) == pc' = [pc EXCEPT ![p] = s] /\ UNCHANGED <<target, read>>

Return(p) ==
    /\ pc' = [pc EXCEPT ![p] = "idle"]
    /\ target' = [target EXCEPT ![p] = None]
    /\ read' = [read EXCEPT ![p] = None]

Begin(p, m, s) ==
    /\ pc[p] = "idle"
    /\ target' = [target EXCEPT ![p] = m]
    /\ pc' = [pc EXCEPT ![p] = s]
    /\ UNCHANGED <<backend, now, states, accounts, codes, read, sent, streak, last>>

\* GetUserByMobile, and the test that the mobile is verified.
LookUp(p, here, next) ==
    /\ pc[p] = here
    /\ IF accounts[target[p]] = "verified" THEN Goto(p, next) ELSE Return(p)
    /\ UNCHANGED <<backend, now, states, accounts, codes, history>>

----------------------------------------------------------------------------
(***************************************************************************)
(* RequestLoginOTP                                                         *)
(***************************************************************************)

\* The state that Get returns: in memory one whose end is exactly now is still alive.
StateOf(m) ==
    IF states[m] # None /\ backend = "memory" /\ now > states[m].expires
    THEN None ELSE states[m]

Requesting(p, m) ==
    pc[p] \in {"reqUser", "reqState", "send", "save"} /\ target[p] = m

\* Bound: a request starts only while a message is left for it.
RequestLoginOTP(p) ==
    \E m \in Mobiles :
        /\ sent[m] + Cardinality({q \in Procs : Requesting(q, m)}) < MaxSends
        /\ Begin(p, m, "reqUser")
        /\ mixed' = IF \E q \in Procs : Requesting(q, m) THEN mixed \cup {m}
                    ELSE IF StateOf(m) = None THEN mixed \ {m}
                    ELSE mixed

RequestUser(p) == LookUp(p, "reqUser", "reqState")

\* Mutants of ValidateResendWindow: the limit or the cooldown is not looked at.
ValidateCooldownOnly(s) == Cooldown > 0 => now - s.lastSent >= Cooldown
ValidateLimitOnly(s) == MaxResends > 0 => s.resends < MaxResends

ValidateResendWindow(s) ==
    /\ MaxResends > 0 => s.resends < MaxResends
    /\ Cooldown > 0 => now - s.lastSent >= Cooldown

\* Get deletes a state it finds expired; a state outside the window ends the request,
\* and the client is told nothing.
ReadState(p) ==
    LET m == target[p]
        found == StateOf(m)
    IN  /\ pc[p] = "reqState"
        /\ states' = [states EXCEPT ![m] = found]
        /\ IF found # None /\ ~ValidateResendWindow(found)
           THEN Return(p)
           ELSE /\ pc' = [pc EXCEPT ![p] = "send"]
                /\ read' = [read EXCEPT ![p] = found]
                /\ UNCHANGED target
        /\ UNCHANGED <<backend, now, accounts, codes, history>>

\* SendVerification
Send(p) ==
    LET m == target[p]
    IN  /\ pc[p] = "send"
        /\ codes' = codes \cup {m}
        /\ sent' = [sent EXCEPT ![m] = @ + 1]
        /\ streak' = [streak EXCEPT ![m] = IF read[p] = None THEN 1 ELSE @ + 1]
        /\ last' = [last EXCEPT ![m] = now]
        /\ Goto(p, "save")
        /\ UNCHANGED <<backend, now, states, accounts, mixed>>

\* Mutants of Renewed: the message that is sent first counts as resent; the state gets no
\* end.
RenewedFromOne(s) ==
    [resends |-> IF s = None THEN 1 ELSE s.resends + 1, lastSent |-> now, expires |-> now + TTL]
RenewedWithoutEnd(s) ==
    [resends |-> IF s = None THEN 0 ELSE s.resends + 1, lastSent |-> now, expires |-> None]

\* The state after a message, made from the one that was read before it.
Renewed(s) ==
    [resends |-> IF s = None THEN 0 ELSE s.resends + 1, lastSent |-> now, expires |-> now + TTL]

SaveState(p) ==
    /\ pc[p] = "save"
    /\ states' = [states EXCEPT ![target[p]] = Renewed(read[p])]
    /\ Return(p)
    /\ UNCHANGED <<backend, now, accounts, codes, history>>

----------------------------------------------------------------------------
(***************************************************************************)
(* VerifyLoginOTP                                                          *)
(***************************************************************************)
VerifyLoginOTP(p) == (\E m \in Mobiles : Begin(p, m, "verUser")) /\ UNCHANGED mixed

VerifyUser(p) == LookUp(p, "verUser", "check")

\* CheckVerification approves a code once; a wrong or used code is refused.
CheckVerification(p) ==
    /\ pc[p] = "check"
    /\ \/ /\ target[p] \in codes
          /\ codes' = codes \ {target[p]}
          /\ Goto(p, "delete")
       \/ Return(p) /\ UNCHANGED codes
    /\ UNCHANGED <<backend, now, states, accounts, history>>

\* The error of Delete is ignored; the tokens are issued by Sessions.
DeleteState(p) ==
    /\ pc[p] = "delete"
    /\ \/ states' = [states EXCEPT ![target[p]] = None]
       \/ Faults /\ UNCHANGED states
    /\ Return(p)
    /\ UNCHANGED <<backend, now, accounts, codes, history>>

----------------------------------------------------------------------------
(***************************************************************************)
(* The environment.                                                        *)
(***************************************************************************)

\* A signup creates a verified account; a profile completion an unverified one.
NewAccount(m) ==
    /\ accounts[m] = "none"
    /\ \E a \in {"verified", "unverified"} : accounts' = [accounts EXCEPT ![m] = a]
    /\ UNCHANGED <<backend, now, states, codes, pc, target, read, history>>

\* A signup sends the mobile a message of its own, or has a code of it approved.
SignupCode(m) ==
    /\ codes' \in {codes \cup {m}, codes \ {m}}
    /\ UNCHANGED <<backend, now, states, accounts, pc, target, read, history>>

\* The clock; Redis drops a state whose time is over.
Tick ==
    /\ now < MaxTime
    /\ now' = now + 1
    /\ states' = [m \in Mobiles |->
                    IF /\ backend = "redis" /\ states[m] # None
                       /\ states[m].expires <= now + 1
                    THEN None ELSE states[m]]
    /\ UNCHANGED <<backend, accounts, codes, pc, target, read, history>>

\* A call fails or the request is cut off.
Abort(p) ==
    /\ Faults
    /\ pc[p] # "idle"
    /\ mixed' = IF pc[p] = "save" THEN mixed \cup {target[p]} ELSE mixed
    /\ Return(p)
    /\ UNCHANGED <<backend, now, states, accounts, codes, sent, streak, last>>

\* The process ends and starts again: the in-memory states are gone, accounts and the
\* provider's codes are kept.
Restart ==
    /\ Faults /\ backend = "memory"
    /\ states' = [m \in Mobiles |-> None]
    /\ pc' = [p \in Procs |-> "idle"]
    /\ target' = [p \in Procs |-> None]
    /\ read' = [p \in Procs |-> None]
    /\ UNCHANGED <<backend, now, accounts, codes, history>>

Request(p) ==
    RequestLoginOTP(p) \/ RequestUser(p) \/ ReadState(p) \/ Send(p) \/ SaveState(p)

Verify(p) ==
    VerifyLoginOTP(p) \/ VerifyUser(p) \/ CheckVerification(p) \/ DeleteState(p)

Next ==
    \/ \E p \in Procs : Request(p) \/ Verify(p) \/ Abort(p)
    \/ \E m \in Mobiles : NewAccount(m) \/ SignupCode(m)
    \/ Tick \/ Restart

Spec == Init /\ [][Next]_vars

----------------------------------------------------------------------------
(***************************************************************************)
(* Properties.                                                             *)
(***************************************************************************)

\* A state never counts more messages, or a later one, than were sent: whatever requests
\* overwrite each other's states, nobody is refused for messages that did not go out.
StateNotInflated ==
    \A m \in Mobiles : states[m] # None =>
        /\ states[m].resends < sent[m]
        /\ states[m].lastSent <= now

\* While a state lasts, its messages are no more than the first and MaxResends others,
\* whatever verifications, expiry and restarts do meanwhile, if its requests came one after
\* the other and each saved what it sent.
LoginLimitRespected ==
    MaxResends > 0 =>
        \A m \in Mobiles \ mixed : StateOf(m) # None => streak[m] <= MaxResends + 1

\* While such a state lasts, a message follows the one before it after the cooldown.
LoginCooldownRespected ==
    [][\A m \in Mobiles \ mixed :
          sent'[m] > sent[m] /\ StateOf(m) # None => now - last[m] >= Cooldown]_vars
=============================================================================
