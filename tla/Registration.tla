---------------------------- MODULE Registration ----------------------------
(***************************************************************************)
(* Signups, Google logins and profile completions over one users table.    *)
(* RequestSignupOTP of auth/service/service.go looks a username, an e-mail *)
(* and a mobile up in the users table and among the pending signups before *)
(* it keeps them pending; GoogleLogin and CompleteProfile look at the      *)
(* table only, so they can take what a pending signup is waiting for.      *)
(*                                                                         *)
(* The table and its writers are module Accounts'.  Here each index of the *)
(* pending-signup store leads to what is pending; how it can lag behind,   *)
(* and the codes and resends, are in PendingSignupStore and Signup.        *)
(***************************************************************************)
EXTENDS Accounts, Mobile

CONSTANTS
    Signups,   \* request slots of signups
    Spellings  \* mobiles as requests spell them

\* auth.RegisterRequest once it is normalised.
Form == [name : Names, email : Emails, mobile : Mobiles]

\* The mobiles that requests get past NormalizeIndianMobile.
Normalized == {NormalizeIndianMobile(s) : s \in Spellings} \ {Invalid}

Parts == {"name", "email", "mobile"}

\* Every mobile that is stored has been through NormalizeIndianMobile, which leaves alone
\* what it has returned.
IsNormalized(m) ==
    /\ m \in Seq(Numeric \cup {"+"})
    /\ m # Invalid
    /\ NormalizeIndianMobile(m) = m

ASSUME RegistrationAssumption ==
    /\ Length \in Nat
    /\ Normalized \subseteq Mobiles
    /\ \A m \in Mobiles : IsNormalized(m)
    /\ None \notin Form
    /\ Signups \cap Mobiles = {}

VARIABLES
    pending,  \* the pending-signup store, by mobile
    step,     \* next step of each signup request
    form,     \* the signup it is about
    overtaken \* history: what of a signup was written to a row since it was requested

signups == <<pending, step, form, overtaken>>
registration == <<vars, signups>>

SignupSteps == {"idle", "name", "email", "mobile", "pending", "save", "register", "forget"}

RegistrationTypeOK ==
    /\ TypeOK
    /\ pending \in [Mobiles -> Form \cup {None}]
    /\ step \in [Signups -> SignupSteps]
    /\ form \in [Signups -> Form \cup {None}]
    /\ overtaken \in [Signups \cup Mobiles -> SUBSET Parts]

RegistrationInit ==
    /\ Init
    /\ pending = [m \in Mobiles |-> None]
    /\ step = [q \in Signups |-> "idle"]
    /\ form = [q \in Signups |-> None]
    /\ overtaken = [x \in Signups \cup Mobiles |-> {}]

Finish(q) ==
    /\ step' = [step EXCEPT ![q] = "idle"]
    /\ form' = [form EXCEPT ![q] = None]
    /\ overtaken' = [overtaken EXCEPT ![q] = {}]

Continue(q, s) ==
    /\ step' = [step EXCEPT ![q] = s]
    /\ UNCHANGED <<form, overtaken>>

----------------------------------------------------------------------------
(***************************************************************************)
(* RequestSignupOTP: three lookups in the table, then among the pending    *)
(* signups; a message; the signup is saved over what the mobile had.       *)
(* A failing lookup ends the request.                                      *)
(***************************************************************************)
RequestSignupOTP(q) ==
    /\ step[q] = "idle"
    /\ \E n \in Names, e \in Emails, m \in Normalized :
          form' = [form EXCEPT ![q] = [name |-> n, email |-> e, mobile |-> m]]
    /\ step' = [step EXCEPT ![q] = "name"]
    /\ UNCHANGED <<vars, pending, overtaken>>

Lookup(q, here, taken, next) ==
    /\ step[q] = here
    /\ IF taken THEN Finish(q) ELSE Continue(q, next)
    /\ UNCHANGED <<vars, pending>>

LookupName(q) == Lookup(q, "name", WithName(form[q].name) # {}, "email")

\* Mutant of LookupEmail: the answer is not looked at.
LookupEmailIgnored(q) == Lookup(q, "email", FALSE, "mobile")

LookupEmail(q) == Lookup(q, "email", WithEmail(form[q].email) # {}, "mobile")
LookupMobile(q) == Lookup(q, "mobile", WithMobile(form[q].mobile) # {}, "pending")

Pending == {m \in Mobiles : pending[m] # None}

\* By username, by e-mail and by mobile: in one step here, and apart in module Signup.  A
\* rival may be missed, when it expires, or when the first index that answers leads to
\* nothing pending and the others are not asked.
LookupPending(q) ==
    LET rival(m) == pending[m].name = form[q].name \/ pending[m].email = form[q].email
        conflict == form[q].mobile \in Pending \/ \E m \in Pending : rival(m)
    IN  /\ step[q] = "pending"
        /\ \E seen \in {conflict, FALSE} : Lookup(q, "pending", seen, "save")

SavePending(q) ==
    LET m == form[q].mobile
    IN  /\ step[q] = "save"
        /\ pending' = [pending EXCEPT ![m] = form[q]]
        /\ step' = [step EXCEPT ![q] = "idle"]
        /\ form' = [form EXCEPT ![q] = None]
        /\ overtaken' = [overtaken EXCEPT ![m] = overtaken[q], ![q] = {}]
        /\ UNCHANGED vars

----------------------------------------------------------------------------
(***************************************************************************)
(* VerifySignupOTP, from the code that was approved for the mobile: the    *)
(* user is registered if the unique indices let it, and only then is the   *)
(* signup forgotten.                                                       *)
(***************************************************************************)
VerifySignupOTP(q) ==
    /\ step[q] = "idle"
    /\ \E m \in Normalized \cap Pending :
          /\ form' = [form EXCEPT ![q] = pending[m]]
          /\ overtaken' = [overtaken EXCEPT ![q] = overtaken[m]]
    /\ step' = [step EXCEPT ![q] = "register"]
    /\ UNCHANGED <<vars, pending>>

\* The signup that is under way in a slot or pending under a mobile.
Signup(x) == IF x \in Signups THEN form[x] ELSE pending[x]

\* A row is overtaken: the parts of other signups that it takes.
Write ==
    LET wrote(u, part) ==
            /\ rows'[u] # None
            /\ rows[u] = None \/ rows'[u][part] # rows[u][part]
        takes(f) ==
            {part \in Parts : \E u \in Users : wrote(u, part) /\ rows'[u][part] = f[part]}
    IN  IF rows' = rows
        THEN UNCHANGED overtaken
        ELSE overtaken' = [x \in Signups \cup Mobiles |->
                 IF Signup(x) = None THEN {} ELSE overtaken[x] \cup takes(Signup(x))]

Register(q) ==
    /\ step[q] = "register"
    /\ RegisterUser(form[q].name, form[q].email, form[q].mobile)
    /\ step' = [step EXCEPT ![q] = "forget"]
    /\ Write
    /\ UNCHANGED <<pending, form>>

\* Bound: without an id left it fails as well.
RegisterFails(q) ==
    /\ step[q] = "register"
    /\ \/ Registered = Users
       \/ \E u \in Registered : \E part \in Parts : rows[u][part] = form[q][part]
    /\ Finish(q)
    /\ UNCHANGED <<vars, pending>>

\* DeleteByMobile: whatever is pending under the mobile by now.
Forget(q) ==
    /\ step[q] = "forget"
    /\ pending' = [pending EXCEPT ![form[q].mobile] = None]
    /\ step' = [step EXCEPT ![q] = "idle"]
    /\ form' = [form EXCEPT ![q] = None]
    /\ overtaken' = [overtaken EXCEPT ![form[q].mobile] = {}, ![q] = {}]
    /\ UNCHANGED vars

----------------------------------------------------------------------------
AbortSignup(q) ==
    /\ Faults
    /\ step[q] # "idle"
    /\ Finish(q)
    /\ UNCHANGED <<vars, pending>>

\* A pending signup's time to live runs out.
PendingExpires(m) ==
    /\ m \in Pending
    /\ pending' = [pending EXCEPT ![m] = None]
    /\ overtaken' = [overtaken EXCEPT ![m] = {}]
    /\ UNCHANGED <<vars, step, form>>

\* The other writers of the table look at no pending signup.
Other(p) ==
    /\ GoogleStep(p) \/ ProfileStep(p) \/ Abort(p)
    /\ Write
    /\ UNCHANGED <<pending, step, form>>

SignupStep(q) ==
    \/ RequestSignupOTP(q) \/ LookupName(q) \/ LookupEmail(q) \/ LookupMobile(q)
    \/ LookupPending(q) \/ SavePending(q)
    \/ VerifySignupOTP(q) \/ Register(q) \/ RegisterFails(q) \/ Forget(q)

RegistrationNext ==
    \/ \E q \in Signups : SignupStep(q) \/ AbortSignup(q)
    \/ \E p \in Procs : Other(p)
    \/ \E m \in Mobiles : PendingExpires(m)

RegistrationSpec == RegistrationInit /\ [][RegistrationNext]_registration

----------------------------------------------------------------------------
(***************************************************************************)
(* Properties.                                                             *)
(***************************************************************************)

\* A signup whose code was approved is turned down by the unique indices only for a
\* username, e-mail or mobile that was written after the signup had been requested: by a
\* Google login or a completion, which heed no pending signup, or by a rival signup.
TurnedDownOnlyWhenOvertaken ==
    \A q \in Signups : step[q] = "register" =>
        \A u \in Registered, part \in Parts :
            rows[u][part] = form[q][part] => part \in overtaken[q]

\* However requests spell it, a mobile belongs to one account.
OneAccountPerSubscriber ==
    \A u, v \in Registered :
        u # v /\ rows[u].mobile # None /\ rows[v].mobile # None =>
            Dialled(rows[u].mobile) # Dialled(rows[v].mobile)
=============================================================================
