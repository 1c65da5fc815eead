------------------------- MODULE RegistrationProofs -------------------------
(***************************************************************************)
(* Theorems about Registration for any number of requests, users, pending  *)
(* signups and spellings, and for mobiles of any length.                   *)
(*                                                                         *)
(* Registration implements Accounts: its steps write the tables as         *)
(* Accounts allows or leave them alone, so what is proved of Accounts      *)
(* holds of it.  That an approved signup is turned down only when it was   *)
(* overtaken follows from an invariant of every signup under way or        *)
(* pending: a part that has been looked up is on no row unless a row has   *)
(* taken it since.                                                         *)
(*                                                                         *)
(* That a subscriber has one account joins two results: no two rows have   *)
(* the same mobile, and two mobiles that are stored dial two subscribers,  *)
(* since normalisation brings every spelling of a number to one form.      *)
(***************************************************************************)
EXTENDS Registration, AccountsProofs, FiniteSetTheorems

\* A signup with the parts that have been looked up and those that were overtaken.
Clear(f, looked, taken) ==
    \A u \in Registered, part \in looked : rows[u][part] = f[part] => part \in taken

Looked(s) ==
    CASE s = "name" -> {}
      [] s = "email" -> {"name"}
      [] s = "mobile" -> {"name", "email"}
      [] OTHER -> Parts

Working == SignupSteps \ {"idle"}

SignupInv ==
    /\ \A q \in Signups : step[q] \in Working => form[q] \in Form
    /\ \A q \in Signups : step[q] \in Working \ {"forget"} =>
           Clear(form[q], Looked(step[q]), overtaken[q])
    /\ \A m \in Mobiles : pending[m] # None => Clear(pending[m], Parts, overtaken[m])

SignupType ==
    /\ pending \in [Mobiles -> Form \cup {None}]
    /\ step \in [Signups -> SignupSteps]
    /\ form \in [Signups -> Form \cup {None}]
    /\ overtaken \in [Signups \cup Mobiles -> SUBSET Parts]

RInv == IInv /\ SignupType /\ SignupInv

----------------------------------------------------------------------------
(***************************************************************************)
(* Registration implements Accounts.                                       *)
(***************************************************************************)
LEMMA NextImplements ==
    ASSUME SignupType, SignupInv, [RegistrationNext]_registration
    PROVE  [Next]_vars
  <1>1. CASE UNCHANGED registration
    BY <1>1 DEF registration
  <1>2. ASSUME NEW q \in Signups, Register(q) PROVE Next
    <2>1. form[q] \in Form
      BY <1>2 DEF Register, SignupInv, Working, SignupSteps
    <2>2. form[q].name \in Names /\ form[q].email \in Emails /\ form[q].mobile \in Mobiles
      BY <2>1 DEF Form
    <2> QED BY <1>2, <2>2 DEF Register, Next
  <1>3. ASSUME NEW q \in Signups, SignupStep(q) \/ AbortSignup(q), ~Register(q)
        PROVE  UNCHANGED vars
    BY <1>3 DEF SignupStep, AbortSignup, RequestSignupOTP, LookupName, LookupEmail, LookupMobile,
                LookupPending, Lookup, SavePending, VerifySignupOTP, RegisterFails, Forget
  <1>4. ASSUME NEW p \in Procs, Other(p) PROVE Next
    BY <1>4 DEF Other, Next
  <1>5. ASSUME NEW m \in Mobiles, PendingExpires(m) PROVE UNCHANGED vars
    BY <1>5 DEF PendingExpires
  <1> QED BY <1>1, <1>2, <1>3, <1>4, <1>5 DEF RegistrationNext

----------------------------------------------------------------------------
(***************************************************************************)
(* The steps of a signup.                                                  *)
(***************************************************************************)
LEMMA ClearStays ==
    ASSUME UNCHANGED rows, NEW f, NEW looked, NEW taken, Clear(f, looked, taken)
    PROVE  Clear(f, looked, taken)'
  BY DEF Clear, Registered

\* What a signup may rely on when a row is written by another request.
LEMMA WriteKeeps ==
    ASSUME SignupType, Write, NEW x \in Signups \cup Mobiles, NEW looked \in SUBSET Parts,
           Signup(x) # None, Clear(Signup(x), looked, overtaken[x])
    PROVE  /\ \A u \in Registered', part \in looked :
                  rows'[u][part] = Signup(x)[part] => part \in overtaken'[x]
           /\ overtaken' \in [Signups \cup Mobiles -> SUBSET Parts]
  <1>1. CASE rows' = rows
    BY <1>1 DEF Write, Clear, Registered, SignupType
  <1>2. CASE rows' # rows
    <2> DEFINE wrote(u, part) ==
                   /\ rows'[u] # None
                   /\ rows[u] = None \/ rows'[u][part] # rows[u][part]
               takes(f) ==
                   {part \in Parts : \E u \in Users : wrote(u, part) /\ rows'[u][part] = f[part]}
    <2>1. overtaken' = [y \in Signups \cup Mobiles |->
                           IF Signup(y) = None THEN {} ELSE overtaken[y] \cup takes(Signup(y))]
      BY <1>2 DEF Write
    <2>2. \A f : takes(f) \subseteq Parts
      OBVIOUS
    <2>3. overtaken' \in [Signups \cup Mobiles -> SUBSET Parts]
      BY <2>1, <2>2 DEF SignupType
    <2>4. overtaken'[x] = overtaken[x] \cup takes(Signup(x))
      BY <2>1
    <2>5. ASSUME NEW u \in Registered', NEW part \in looked, rows'[u][part] = Signup(x)[part]
          PROVE  part \in overtaken'[x]
      <3>1. u \in Users /\ rows'[u] # None /\ part \in Parts
        BY DEF Registered
      <3>2. CASE wrote(u, part)
        BY <2>4, <2>5, <3>1, <3>2
      <3>3. CASE ~wrote(u, part)
        <4>1. u \in Registered /\ rows[u][part] = Signup(x)[part]
          BY <2>5, <3>1, <3>3 DEF Registered
        <4> QED BY <4>1, <2>4 DEF Clear
      <3> QED BY <3>2, <3>3
    <2> QED BY <2>3, <2>5
  <1> QED BY <1>1, <1>2

\* Everything but the signup in slot q stays.
OthersStay(q) ==
    /\ \A r \in Signups \ {q} :
           step'[r] = step[r] /\ form'[r] = form[r] /\ overtaken'[r] = overtaken[r]
    /\ \A m \in Mobiles : pending'[m] = pending[m] /\ overtaken'[m] = overtaken[m]

\* A step that ends a request, or brings it to where it may rely on what it knows.
LEMMA RequestMoves ==
    ASSUME SignupType, SignupType', SignupInv, UNCHANGED rows,
           NEW q \in Signups, OthersStay(q),
           step'[q] \in Working => form'[q] \in Form,
           step'[q] \in Working \ {"forget"} =>
               Clear(form'[q], Looked(step'[q]), overtaken'[q])
    PROVE  SignupInv'
  <1>1. \A r \in Signups : step'[r] \in Working => form'[r] \in Form
    BY DEF SignupInv, OthersStay
  <1>2. ASSUME NEW r \in Signups, step'[r] \in Working \ {"forget"}
        PROVE  Clear(form[r], Looked(step[r]), overtaken[r])'
    <2>1. CASE r = q
      BY <1>2, <2>1 DEF Clear, Registered, Looked
    <2>2. CASE r # q
      BY <1>2, <2>2 DEF SignupInv, OthersStay, Clear, Registered, Looked
    <2> QED BY <2>1, <2>2
  <1>3. ASSUME NEW m \in Mobiles, pending'[m] # None
        PROVE  Clear(pending[m], Parts, overtaken[m])'
    BY <1>3 DEF SignupInv, OthersStay, Clear, Registered
  <1> QED BY <1>1, <1>2, <1>3 DEF SignupInv, Working

LEMMA FinishMoves ==
    ASSUME SignupType, NEW q \in Signups, Finish(q), UNCHANGED pending
    PROVE  SignupType' /\ OthersStay(q) /\ step'[q] = "idle"
  <1>1. q \notin Mobiles
    BY RegistrationAssumption
  <1> QED BY <1>1 DEF Finish, SignupType, OthersStay, SignupSteps

LEMMA FinishKeeps ==
    ASSUME SignupType, SignupInv, NEW q \in Signups, Finish(q), UNCHANGED <<vars, pending>>
    PROVE  SignupType' /\ SignupInv'
  <1>1. SignupType' /\ OthersStay(q) /\ step'[q] = "idle"
    BY FinishMoves
  <1>2. UNCHANGED rows
    BY DEF vars, tables
  <1> QED BY <1>1, <1>2, RequestMoves DEF Working

\* A lookup that finds nothing lets the signup rely on one more part.
LEMMA LookupKeeps ==
    ASSUME IInv, SignupType, SignupInv, NEW q \in Signups,
           LookupName(q) \/ LookupEmail(q) \/ LookupMobile(q) \/ LookupPending(q)
    PROVE  SignupType' /\ SignupInv'
  <1>1. UNCHANGED <<vars, pending>> /\ UNCHANGED rows
    BY DEF LookupName, LookupEmail, LookupMobile, LookupPending, Lookup, vars, tables
  <1>2. CASE Finish(q)
    BY <1>1, <1>2, FinishKeeps
  <1>3. ASSUME NEW next \in Working \ {"forget"}, Continue(q, next),
               step[q] \in Working \ {"forget"},
               Clear(form[q], Looked(next), overtaken[q])
        PROVE  SignupType' /\ SignupInv'
    <2>1. SignupType' /\ OthersStay(q) /\ step'[q] = next
          /\ form'[q] = form[q] /\ overtaken'[q] = overtaken[q]
      BY <1>1, <1>3 DEF Continue, SignupType, OthersStay, Working
    <2> QED BY <2>1, <1>1, <1>3, RequestMoves DEF SignupInv
  <1>4. step[q] \in Working \ {"forget"} => Clear(form[q], Looked(step[q]), overtaken[q])
    BY DEF SignupInv
  <1>5. CASE LookupName(q) /\ ~Finish(q)
    <2>1. step[q] = "name" /\ WithName(form[q].name) = {} /\ Continue(q, "email")
      BY <1>5 DEF LookupName, Lookup
    <2>2. Clear(form[q], {"name"}, overtaken[q])
      BY <2>1 DEF WithName, Clear
    <2> QED BY <2>1, <2>2, <1>3 DEF Working, SignupSteps, Looked
  <1>6. CASE LookupEmail(q) /\ ~Finish(q)
    <2>1. step[q] = "email" /\ WithEmail(form[q].email) = {} /\ Continue(q, "mobile")
      BY <1>6 DEF LookupEmail, Lookup
    <2>2. Clear(form[q], {"name"}, overtaken[q])
      BY <2>1, <1>4 DEF Looked, Working, SignupSteps
    <2>3. Clear(form[q], {"name", "email"}, overtaken[q])
      BY <2>1, <2>2 DEF WithEmail, Clear
    <2> QED BY <2>1, <2>3, <1>3 DEF Working, SignupSteps, Looked
  <1>7. CASE LookupMobile(q) /\ ~Finish(q)
    <2>1. step[q] = "mobile" /\ WithMobile(form[q].mobile) = {} /\ Continue(q, "pending")
      BY <1>7 DEF LookupMobile, Lookup
    <2>2. Clear(form[q], {"name", "email"}, overtaken[q])
      BY <2>1, <1>4 DEF Looked, Working, SignupSteps
    <2>3. Clear(form[q], Parts, overtaken[q])
      BY <2>1, <2>2 DEF WithMobile, Clear, Parts
    <2> QED BY <2>1, <2>3, <1>3 DEF Working, SignupSteps, Looked
  <1>8. CASE LookupPending(q) /\ ~Finish(q)
    <2>1. step[q] = "pending" /\ Continue(q, "save")
      BY <1>8 DEF LookupPending, Lookup
    <2>2. Clear(form[q], Parts, overtaken[q])
      BY <2>1, <1>4 DEF Looked, Working, SignupSteps
    <2> QED BY <2>1, <2>2, <1>3 DEF Working, SignupSteps, Looked
  <1> QED BY <1>2, <1>5, <1>6, <1>7, <1>8

LEMMA RequestKeeps ==
    ASSUME SignupType, SignupInv, NEW q \in Signups, RequestSignupOTP(q)
    PROVE  SignupType' /\ SignupInv'
  <1>1. PICK n \in Names, e \in Emails, m \in Normalized :
            form' = [form EXCEPT ![q] = [name |-> n, email |-> e, mobile |-> m]]
    BY DEF RequestSignupOTP
  <1>2. [name |-> n, email |-> e, mobile |-> m] \in Form
    BY RegistrationAssumption DEF Form
  <1>3. step' = [step EXCEPT ![q] = "name"] /\ UNCHANGED <<vars, pending, overtaken>>
    BY DEF RequestSignupOTP
  <1>4. SignupType' /\ OthersStay(q) /\ step'[q] = "name" /\ form'[q] \in Form
    BY <1>1, <1>2, <1>3 DEF SignupType, OthersStay, SignupSteps
  <1>5. Clear(form'[q], Looked(step'[q]), overtaken'[q])
    BY <1>4 DEF Clear, Looked
  <1>6. UNCHANGED rows
    BY <1>3 DEF vars, tables
  <1> QED BY <1>4, <1>5, <1>6, RequestMoves

\* A signup is verified with what is known of it while it is pending.
LEMMA VerifyKeeps ==
    ASSUME SignupType, SignupInv, NEW q \in Signups, VerifySignupOTP(q)
    PROVE  SignupType' /\ SignupInv'
  <1>1. PICK m \in Normalized \cap Pending :
            /\ form' = [form EXCEPT ![q] = pending[m]]
            /\ overtaken' = [overtaken EXCEPT ![q] = overtaken[m]]
    BY DEF VerifySignupOTP
  <1>2. step' = [step EXCEPT ![q] = "register"] /\ UNCHANGED <<vars, pending>>
    BY DEF VerifySignupOTP
  <1>3. m \in Mobiles /\ pending[m] \in Form /\ pending[m] # None
    BY <1>1 DEF Pending, SignupType
  <1>4. q \notin Mobiles
    BY RegistrationAssumption
  <1>5. /\ SignupType' /\ OthersStay(q) /\ step'[q] = "register"
        /\ form'[q] = pending[m] /\ overtaken'[q] = overtaken[m]
    BY <1>1, <1>2, <1>3, <1>4 DEF SignupType, OthersStay, SignupSteps
  <1>6. Clear(form'[q], Looked(step'[q]), overtaken'[q])
    BY <1>3, <1>5 DEF SignupInv, Looked
  <1>7. UNCHANGED rows
    BY <1>2 DEF vars, tables
  <1> QED BY <1>3, <1>5, <1>6, <1>7, RequestMoves

LEMMA SaveKeeps ==
    ASSUME SignupType, SignupInv, NEW q \in Signups, SavePending(q)
    PROVE  SignupType' /\ SignupInv'
  <1> DEFINE m == form[q].mobile
  <1>1. step[q] = "save" /\ UNCHANGED <<vars, rows>>
    BY DEF SavePending, vars, tables
  <1>2. form[q] \in Form /\ Clear(form[q], Parts, overtaken[q])
    BY <1>1 DEF SignupInv, Working, SignupSteps, Looked
  <1>3. m \in Mobiles /\ m \notin Signups
    BY <1>2, RegistrationAssumption DEF Form
  <1> HIDE DEF m
  <1>4. /\ pending' = [pending EXCEPT ![m] = form[q]]
        /\ step' = [step EXCEPT ![q] = "idle"]
        /\ form' = [form EXCEPT ![q] = None]
        /\ overtaken' = [overtaken EXCEPT ![m] = overtaken[q], ![q] = {}]
    BY DEF SavePending, m
  <1>5. SignupType'
    BY <1>2, <1>3, <1>4 DEF SignupType, SignupSteps
  <1>6. /\ pending'[m] = form[q] /\ overtaken'[m] = overtaken[q] /\ step'[q] = "idle"
        /\ \A k \in Mobiles \ {m} : pending'[k] = pending[k] /\ overtaken'[k] = overtaken[k]
        /\ \A r \in Signups \ {q} :
               step'[r] = step[r] /\ form'[r] = form[r] /\ overtaken'[r] = overtaken[r]
    BY <1>3, <1>4, RegistrationAssumption DEF SignupType
  <1>7. \A r \in Signups : step'[r] \in Working => form'[r] \in Form
    BY <1>6 DEF SignupInv, Working
  <1>8. ASSUME NEW r \in Signups, step'[r] \in Working \ {"forget"}
        PROVE  Clear(form[r], Looked(step[r]), overtaken[r])'
    BY <1>1, <1>6, <1>8 DEF SignupInv, Working, Clear, Registered, Looked
  <1>9. ASSUME NEW k \in Mobiles, pending'[k] # None
        PROVE  Clear(pending[k], Parts, overtaken[k])'
    BY <1>1, <1>2, <1>6, <1>9 DEF SignupInv, Clear, Registered
  <1> QED BY <1>5, <1>7, <1>8, <1>9 DEF SignupInv, Working

\* A pending signup disappears, with or without the request that ends.
LEMMA PendingGoes ==
    ASSUME SignupType, SignupInv, NEW m \in Mobiles, UNCHANGED rows,
           pending' = [pending EXCEPT ![m] = None],
           overtaken' \in [Signups \cup Mobiles -> SUBSET Parts],
           \A k \in Mobiles \ {m} : overtaken'[k] = overtaken[k],
           step' \in [Signups -> SignupSteps], form' \in [Signups -> Form \cup {None}],
           \A r \in Signups :
               \/ step'[r] = "idle"
               \/ step'[r] = step[r] /\ form'[r] = form[r] /\ overtaken'[r] = overtaken[r]
    PROVE  SignupType' /\ SignupInv'
  <1>1. SignupType'
    BY DEF SignupType
  <1>2. \A r \in Signups : step'[r] \in Working => form'[r] \in Form
    BY DEF SignupInv, Working
  <1>3. ASSUME NEW r \in Signups, step'[r] \in Working \ {"forget"}
        PROVE  Clear(form[r], Looked(step[r]), overtaken[r])'
    BY <1>3 DEF SignupInv, Working, Clear, Registered, Looked
  <1>4. ASSUME NEW k \in Mobiles, pending'[k] # None
        PROVE  Clear(pending[k], Parts, overtaken[k])'
    BY <1>4 DEF SignupInv, SignupType, Clear, Registered
  <1> QED BY <1>1, <1>2, <1>3, <1>4 DEF SignupInv, Working

LEMMA ForgetKeeps ==
    ASSUME SignupType, SignupInv, NEW q \in Signups, Forget(q)
    PROVE  SignupType' /\ SignupInv'
  <1> DEFINE m == form[q].mobile
  <1>1. step[q] = "forget" /\ UNCHANGED rows
    BY DEF Forget, vars, tables
  <1>2. m \in Mobiles /\ m \notin Signups
    BY <1>1, RegistrationAssumption DEF SignupInv, Working, SignupSteps, Form
  <1> HIDE DEF m
  <1>3. /\ pending' = [pending EXCEPT ![m] = None]
        /\ step' = [step EXCEPT ![q] = "idle"]
        /\ form' = [form EXCEPT ![q] = None]
        /\ overtaken' = [overtaken EXCEPT ![m] = {}, ![q] = {}]
    BY DEF Forget, m
  <1>4. /\ overtaken' \in [Signups \cup Mobiles -> SUBSET Parts]
        /\ \A k \in Mobiles \ {m} : overtaken'[k] = overtaken[k]
        /\ \A r \in Signups \ {q} : overtaken'[r] = overtaken[r]
    BY <1>2, <1>3, RegistrationAssumption DEF SignupType
  <1>5. /\ step' \in [Signups -> SignupSteps] /\ form' \in [Signups -> Form \cup {None}]
        /\ step'[q] = "idle"
        /\ \A r \in Signups \ {q} : step'[r] = step[r] /\ form'[r] = form[r]
    BY <1>3 DEF SignupType, SignupSteps
  <1> QED BY <1>1, <1>2, <1>3, <1>4, <1>5, PendingGoes

LEMMA ExpiryKeeps ==
    ASSUME SignupType, SignupInv, NEW m \in Mobiles, PendingExpires(m)
    PROVE  SignupType' /\ SignupInv'
  <1>1. /\ UNCHANGED <<rows, step, form>>
        /\ pending' = [pending EXCEPT ![m] = None]
        /\ overtaken' = [overtaken EXCEPT ![m] = {}]
    BY DEF PendingExpires, vars, tables
  <1>2. /\ overtaken' \in [Signups \cup Mobiles -> SUBSET Parts]
        /\ \A x \in (Signups \cup Mobiles) \ {m} : overtaken'[x] = overtaken[x]
    BY <1>1 DEF SignupType
  <1>3. m \notin Signups
    BY RegistrationAssumption
  <1> QED BY <1>1, <1>2, <1>3, PendingGoes DEF SignupType

----------------------------------------------------------------------------
(***************************************************************************)
(* The steps that write a row.                                             *)
(***************************************************************************)
LEMMA WriterKeeps ==
    ASSUME SignupType, SignupInv, Write, UNCHANGED <<pending, form>>,
           step' \in [Signups -> SignupSteps],
           \A r \in Signups : step'[r] = step[r] \/ (step[r] \in Working /\ step'[r] = "forget")
    PROVE  SignupType' /\ SignupInv'
  <1>1. \A x \in Signups \cup Mobiles :
            Signup(x) = IF x \in Signups THEN form[x] ELSE pending[x]
    BY DEF Signup
  <1>2. \A m \in Mobiles : m \notin Signups
    BY RegistrationAssumption
  <1>3. overtaken' \in [Signups \cup Mobiles -> SUBSET Parts]
    <2> DEFINE takes(f) ==
                   {part \in Parts :
                       \E u \in Users :
                           /\ /\ rows'[u] # None
                              /\ rows[u] = None \/ rows'[u][part] # rows[u][part]
                           /\ rows'[u][part] = f[part]}
    <2>1. CASE rows' = rows
      BY <2>1 DEF Write, SignupType
    <2>2. CASE rows' # rows
      <3>1. overtaken' = [x \in Signups \cup Mobiles |->
                             IF Signup(x) = None THEN {} ELSE overtaken[x] \cup takes(Signup(x))]
        BY <2>2 DEF Write
      <3>2. \A f : takes(f) \subseteq Parts
        OBVIOUS
      <3> QED BY <3>1, <3>2 DEF SignupType
    <2> QED BY <2>1, <2>2
  <1>4. SignupType'
    BY <1>3 DEF SignupType
  <1>5. \A r \in Signups : step'[r] \in Working => form'[r] \in Form
    BY DEF SignupInv
  <1>6. ASSUME NEW r \in Signups, step'[r] \in Working \ {"forget"}
        PROVE  Clear(form[r], Looked(step[r]), overtaken[r])'
    <2>1. step'[r] = step[r] /\ step[r] \in Working \ {"forget"}
      BY <1>6
    <2>2. Signup(r) = form[r] /\ form[r] # None
      BY <1>1, <2>1, RegistrationAssumption DEF SignupInv
    <2>3. Looked(step[r]) \in SUBSET Parts
      BY DEF Looked, Parts
    <2>4. Clear(Signup(r), Looked(step[r]), overtaken[r])
      BY <2>1, <2>2 DEF SignupInv
    <2>5. \A u \in Registered', part \in Looked(step[r]) :
              rows'[u][part] = form[r][part] => part \in overtaken'[r]
      BY <2>2, <2>3, <2>4, WriteKeeps
    <2> QED BY <2>1, <2>5 DEF Clear, Looked
  <1>7. ASSUME NEW m \in Mobiles, pending'[m] # None
        PROVE  Clear(pending[m], Parts, overtaken[m])'
    <2>1. Signup(m) = pending[m] /\ pending[m] # None
      BY <1>1, <1>2, <1>7
    <2>2. Clear(Signup(m), Parts, overtaken[m])
      BY <2>1 DEF SignupInv
    <2>3. \A u \in Registered', part \in Parts :
              rows'[u][part] = pending[m][part] => part \in overtaken'[m]
      BY <2>1, <2>2, WriteKeeps
    <2> QED BY <2>3 DEF Clear
  <1> QED BY <1>4, <1>5, <1>6, <1>7 DEF SignupInv, Working

LEMMA RInvInit == RegistrationInit => RInv
  <1> SUFFICES ASSUME RegistrationInit PROVE RInv
    OBVIOUS
  <1>1. IInv
    BY InvInit DEF RegistrationInit
  <1>2. SignupType
    BY DEF RegistrationInit, SignupType, SignupSteps
  <1>3. SignupInv
    BY DEF RegistrationInit, SignupInv, Working
  <1> QED BY <1>1, <1>2, <1>3 DEF RInv

LEMMA RInvNext == RInv /\ [RegistrationNext]_registration => RInv'
  <1> SUFFICES ASSUME RInv, [RegistrationNext]_registration PROVE RInv'
    OBVIOUS
  <1>1. IInv'
    BY NextImplements, InvNext DEF RInv
  <1>2. SignupType' /\ SignupInv'
    <2>1. CASE UNCHANGED registration
      BY <2>1 DEF RInv, registration, signups, vars, tables, SignupType, SignupInv, Clear,
                  Registered, Looked
    <2>2. ASSUME NEW q \in Signups, SignupStep(q) \/ AbortSignup(q)
          PROVE  SignupType' /\ SignupInv'
      <3>1. CASE AbortSignup(q) \/ RegisterFails(q)
        BY <3>1, FinishKeeps DEF RInv, AbortSignup, RegisterFails
      <3>2. CASE Register(q)
        <4>1. step' \in [Signups -> SignupSteps] /\ UNCHANGED <<pending, form>> /\ Write
          BY <3>2 DEF RInv, Register, SignupType, SignupSteps
        <4>2. \A r \in Signups :
                  step'[r] = step[r] \/ (step[r] \in Working /\ step'[r] = "forget")
          BY <3>2 DEF RInv, Register, SignupType, Working, SignupSteps
        <4> QED BY <4>1, <4>2, WriterKeeps DEF RInv
      <3> QED BY <2>2, <3>1, <3>2, RequestKeeps, LookupKeeps, SaveKeeps, VerifyKeeps, ForgetKeeps
              DEF SignupStep, RInv
    <2>3. ASSUME NEW p \in Procs, Other(p) PROVE SignupType' /\ SignupInv'
      <3>1. step' \in [Signups -> SignupSteps] /\ UNCHANGED <<pending, step, form>> /\ Write
        BY <2>3 DEF RInv, Other, SignupType
      <3> QED BY <3>1, WriterKeeps DEF RInv
    <2>4. ASSUME NEW m \in Mobiles, PendingExpires(m) PROVE SignupType' /\ SignupInv'
      BY <2>4, ExpiryKeeps DEF RInv
    <2> QED BY <2>1, <2>2, <2>3, <2>4 DEF RegistrationNext
  <1> QED BY <1>1, <1>2 DEF RInv

LEMMA RInvariance == RegistrationSpec => []RInv
  <1>1. RegistrationInit => RInv
    BY RInvInit
  <1>2. RInv /\ [RegistrationNext]_registration => RInv'
    BY RInvNext
  <1> QED BY <1>1, <1>2, PTL DEF RegistrationSpec

\* Every variable of Registration keeps its type: a signup request never works without the
\* form it was given or has read.
THEOREM RegistrationTypeCorrect == RegistrationSpec => []RegistrationTypeOK
  <1>1. RInv => RegistrationTypeOK
    BY DEF RInv, IInv, SignupType, RegistrationTypeOK
  <1> QED BY <1>1, RInvariance, PTL

\* The requests, lookups and verifications of signups around them leave the writers of
\* the users table as they are in Accounts: RegisterUser is only called with a form.
THEOREM RegistrationImplementsAccounts == RegistrationSpec => Spec
  <1>1. RegistrationInit => Init
    BY DEF RegistrationInit
  <1>2. RInv /\ [RegistrationNext]_registration => [Next]_vars
    BY NextImplements DEF RInv
  <1> QED BY <1>1, <1>2, RInvariance, PTL DEF RegistrationSpec, Spec

\* What is proved of Accounts holds with the signup requests around it.
THEOREM RegistrationKeepsAccounts ==
    RegistrationSpec => [](EveryUserCanLogIn /\ LinksLeadToEmailOwner /\ VerifiedMobileApproved)
  <1> QED BY RegistrationImplementsAccounts, UsersCanLogIn, LinksAreRight, MobilesAreApproved, PTL

\* An approved signup meets a row with a part of its own only if the part was written
\* after RequestSignupOTP was called for it, whatever was read or expired in between.
THEOREM TurnedDownWhenOvertaken == RegistrationSpec => []TurnedDownOnlyWhenOvertaken
  <1>1. RInv => TurnedDownOnlyWhenOvertaken
    <2> SUFFICES ASSUME RInv, NEW q \in Signups, step[q] = "register"
                 PROVE  Clear(form[q], Parts, overtaken[q])
      BY DEF TurnedDownOnlyWhenOvertaken, Clear
    <2> QED BY DEF RInv, SignupInv, Working, SignupSteps, Looked
  <1> QED BY <1>1, RInvariance, PTL
----------------------------------------------------------------------------
(***************************************************************************)
(* What NormalizeIndianMobile returns.  Number picks the digits in their   *)
(* order; a valid spelling becomes "+91" and a number of Length bytes, and *)
(* that form is left alone when it is normalised again.                    *)
(***************************************************************************)
\* Counting the places up to each place numbers them from 1 without a gap.
LEMMA NthGives ==
    ASSUME NEW L \in Nat, NEW places \in SUBSET (1..L), NEW n \in 1..Cardinality(places)
    PROVE  Nth(places, n) \in places /\ Cardinality(places \cap 1..Nth(places, n)) = n
  <1> DEFINE c == Cardinality(places)
             rank == [i \in places |-> Cardinality(places \cap 1..i)]
  <1>1. IsFiniteSet(places) /\ c \in Nat
    <2>1. IsFiniteSet(1..L)
      BY FS_Interval
    <2>2. IsFiniteSet(places)
      BY <2>1, FS_Subset
    <2> QED BY <2>2, FS_CardinalityType
  <1>2. \A i \in places : /\ IsFiniteSet(places \cap 1..i)
                          /\ Cardinality(places \cap 1..i) \in Nat
                          /\ Cardinality(places \cap 1..i) <= c
    BY <1>1, FS_Subset, FS_CardinalityType
  <1>3. \A i \in places : Cardinality(places \cap 1..i) # 0
    <2> TAKE i \in places
    <2>1. i \in places \cap 1..i
      OBVIOUS
    <2> QED BY <1>2, <2>1, FS_EmptySet
  <1>4. rank \in [places -> 1..c]
    BY <1>2, <1>3
  <1>5. ASSUME NEW i \in places, NEW j \in places, i < j
        PROVE  Cardinality(places \cap 1..i) < Cardinality(places \cap 1..j)
    <2> DEFINE A == places \cap 1..i
               B == places \cap 1..j
    <2>1. A \subseteq B \ {j} /\ j \in B /\ i \in Int /\ j \in Int
      BY <1>5
    <2>2. Cardinality(B \ {j}) = Cardinality(B) - 1 /\ IsFiniteSet(B \ {j})
      BY <1>2, <2>1, FS_RemoveElement
    <2>3. Cardinality(A) <= Cardinality(B \ {j})
      BY <2>1, <2>2, FS_Subset
    <2>4. Cardinality(A) \in Nat /\ Cardinality(B) \in Nat
      BY <1>2
    <2> HIDE DEF A, B
    <2>5. Cardinality(A) < Cardinality(B)
      BY <2>2, <2>3, <2>4
    <2> QED BY <2>5 DEF A, B
  <1>6. \A i, j \in places : rank[i] = rank[j] => i = j
    <2> SUFFICES ASSUME NEW i \in places, NEW j \in places, i # j
        PROVE  Cardinality(places \cap 1..i) # Cardinality(places \cap 1..j)
      OBVIOUS
    <2>1. i < j \/ j < i
      OBVIOUS
    <2> QED BY <1>2, <1>5, <2>1
  <1>7. rank \in Injection(places, 1..c)
    BY <1>4, <1>6 DEF Injection, IsInjective
  <1>8. IsFiniteSet(1..c) /\ Cardinality(1..c) = c
    BY <1>1, FS_Interval
  <1>9. rank \in Surjection(places, 1..c)
    BY <1>7, <1>8, FS_Injection
  <1>10. \E i \in places : Cardinality(places \cap 1..i) = n
    BY <1>9 DEF Surjection
  <1> QED BY <1>10 DEF Nth

LEMMA DigitsInGives ==
    ASSUME NEW S, NEW s \in Seq(S)
    PROVE  /\ Len(s) \in Nat /\ DigitsIn(s) \subseteq 1..Len(s)
           /\ IsFiniteSet(DigitsIn(s)) /\ Cardinality(DigitsIn(s)) \in Nat
  <1>1. Len(s) \in Nat /\ DOMAIN s = 1..Len(s)
    BY LenProperties
  <1>2. DigitsIn(s) \subseteq 1..Len(s)
    BY <1>1 DEF DigitsIn
  <1>3. IsFiniteSet(1..Len(s))
    BY <1>1, FS_Interval
  <1>4. IsFiniteSet(DigitsIn(s))
    BY <1>2, <1>3, FS_Subset
  <1> QED BY <1>1, <1>2, <1>4, FS_CardinalityType

LEMMA NumberType ==
    ASSUME NEW S, NEW s \in Seq(S)
    PROVE  Number(s) \in Seq(Numeric)
  <1> DEFINE c == Cardinality(DigitsIn(s))
  <1>1. c \in Nat /\ DigitsIn(s) \in SUBSET (1..Len(s)) /\ Len(s) \in Nat
    BY DigitsInGives
  <1>2. \A n \in 1..c : s[Nth(DigitsIn(s), n)] \in Numeric
    <2> TAKE n \in 1..c
    <2>1. Nth(DigitsIn(s), n) \in DigitsIn(s)
      BY <1>1, NthGives
    <2> QED BY <2>1 DEF DigitsIn, IsDigit, Numeric
  <1>3. Number(s) \in [1..c -> Numeric]
    BY <1>2 DEF Number
  <1> QED BY <1>1, <1>3, SeqDef

\* The digits of a number with its country code: all of it but the plus sign.
LEMMA NumberOfNormal ==
    ASSUME NEW n \in Seq(Numeric)
    PROVE  Number(<<"+", "9", "1">> \o n) = <<"9", "1">> \o n
  <1> DEFINE C == Numeric \cup {"+"}
             s == <<"+", "9", "1">> \o n
             d == <<"9", "1">> \o n
  <1>1. n \in Seq(C) /\ <<"+", "9", "1">> \in Seq(C) /\ <<"9", "1">> \in Seq(Numeric) 
    BY SeqMonotonic DEF Numeric, Digits
  <1>2. /\ s \in Seq(C) /\ Len(s) = 3 + Len(n) /\ Len(n) \in Nat
        /\ \A i \in 1..(3 + Len(n)) :
               s[i] = IF i <= 3 THEN <<"+", "9", "1">>[i] ELSE n[i - 3]
    BY <1>1, ConcatProperties, LenProperties
  <1>3. /\ d \in Seq(Numeric) /\ Len(d) = 2 + Len(n)
        /\ \A i \in 1..(2 + Len(n)) : d[i] = IF i <= 2 THEN <<"9", "1">>[i] ELSE n[i - 2]
    BY <1>1, ConcatProperties
  <1>4. DOMAIN s = 1..(3 + Len(n)) /\ DOMAIN d = 1..(2 + Len(n))
    BY <1>2, <1>3, LenProperties
  <1>5. \A i \in 1..Len(n) : n[i] \in Numeric
    BY ElementOfSeq
  <1>6. \A i \in 2..(3 + Len(n)) : s[i] = d[i - 1]
    BY <1>2, <1>3
  <1> HIDE DEF s, d
  <1>7. \A i \in 1..(2 + Len(n)) : d[i] \in Numeric
    BY <1>3, ElementOfSeq
  <1>8. DigitsIn(s) = 2..(3 + Len(n))
    <2>1. s[1] = "+"
      BY <1>2
    <2>2. ~IsDigit("+")
      BY DEF IsDigit, Numeric, Digits, WideDigits
    <2>3. \A i \in 2..(3 + Len(n)) : IsDigit(s[i])
      BY <1>2, <1>6, <1>7 DEF IsDigit, Numeric
    <2> QED BY <1>2, <1>4, <2>1, <2>2, <2>3 DEF DigitsIn
  <1>9. Cardinality(2..(3 + Len(n))) = 2 + Len(n)
    BY <1>2, FS_Interval
  <1>10. \A i \in 1..(2 + Len(n)) : Nth(2..(3 + Len(n)), i) = i + 1
    <2> TAKE i \in 1..(2 + Len(n))
    <2> DEFINE places == 2..(3 + Len(n))
               j == Nth(places, i)
    <2>1. j \in places /\ Cardinality(places \cap 1..j) = i
      <3>1. places \in SUBSET (1..(3 + Len(n))) /\ 3 + Len(n) \in Nat /\ i \in 1..Cardinality(places)
        BY <1>2, <1>9
      <3> HIDE DEF places
      <3> QED BY <3>1, NthGives
    <2> HIDE DEF j
    <2>2. places \cap 1..j = 2..j
      BY <1>2, <2>1
    <2>3. Cardinality(2..j) = j - 1 /\ j \in Int
      BY <1>2, <2>1, FS_Interval
    <2>4. j = i + 1
      <3>1. j - 1 = i /\ j \in Int
        BY <1>2, <2>1, <2>2, <2>3, Zenon
      <3> QED BY <3>1
    <2> QED BY <2>4 DEF j
  <1>11. Number(s) = [i \in 1..(2 + Len(n)) |-> s[i + 1]]
    BY <1>8, <1>9, <1>10 DEF Number
  <1>12. \A i \in 1..(2 + Len(n)) : s[i + 1] = d[i]
    BY <1>2, <1>6
  <1>13. d = [i \in 1..(2 + Len(n)) |-> d[i]]
    BY <1>3, <1>4
  <1> QED BY <1>11, <1>12, <1>13 DEF s, d

\* Places of wide digits.
LEMMA WiderGives ==
    ASSUME NEW d \in Seq(Numeric), NEW k \in 1..3
    PROVE  /\ Cardinality(Wider(d, k)) \in Nat /\ Cardinality(Wider(d, k)) <= Len(d)
           /\ Cardinality(Wider(d, k)) = 0 <=> Wider(d, k) = {}
           /\ Len(d) \in Nat
  <1>1. Len(d) \in Nat /\ DOMAIN d = 1..Len(d)
    BY LenProperties
  <1>2. IsFiniteSet(1..Len(d)) /\ Cardinality(1..Len(d)) = Len(d)
    BY <1>1, FS_Interval
  <1>3. Wider(d, k) \in SUBSET (1..Len(d))
    BY <1>1 DEF Wider
  <1>4. IsFiniteSet(Wider(d, k)) /\ Cardinality(Wider(d, k)) <= Len(d)
    BY <1>2, <1>3, FS_Subset
  <1> QED BY <1>1, <1>4, FS_CardinalityType, FS_EmptySet

\* Bytes exceed digits only by the wide digits.
LEMMA BytesGives ==
    ASSUME NEW d \in Seq(Numeric)
    PROVE  /\ Len(d) \in Nat /\ Bytes(d) \in Nat
           /\ Len(d) <= Bytes(d) /\ Bytes(d) <= 4 * Len(d)
           /\ Bytes(d) = Len(d) <=> \A i \in 1..Len(d) : d[i] \notin WideDigits
  <1>1. \A k \in 1..3 : /\ Cardinality(Wider(d, k)) \in Nat /\ Cardinality(Wider(d, k)) <= Len(d)
                       /\ (Cardinality(Wider(d, k)) = 0 <=> Wider(d, k) = {})
    BY WiderGives
  <1>2. Len(d) \in Nat /\ DOMAIN d = 1..Len(d)
    BY LenProperties
  <1>3. Wider(d, 1) = {} <=> \A i \in 1..Len(d) : d[i] \notin WideDigits
    BY <1>2 DEF Wider, Width, WideDigits
  <1>4. Wider(d, 1) = {} => Wider(d, 2) = {} /\ Wider(d, 3) = {}
    BY <1>2, <1>3 DEF Wider, Width, WideDigits
  <1> DEFINE w1 == Cardinality(Wider(d, 1))
             w2 == Cardinality(Wider(d, 2))
             w3 == Cardinality(Wider(d, 3))
  <1>5. w1 \in Nat /\ w1 <= Len(d) /\ (w1 = 0 <=> Wider(d, 1) = {})
    BY <1>1
  <1>6. w2 \in Nat /\ w2 <= Len(d) /\ (w2 = 0 <=> Wider(d, 2) = {})
    BY <1>1
  <1>7. w3 \in Nat /\ w3 <= Len(d) /\ (w3 = 0 <=> Wider(d, 3) = {})
    BY <1>1
  <1>8. Bytes(d) = Len(d) + w1 + w2 + w3
    BY DEF Bytes
  <1> HIDE DEF w1, w2, w3
  <1>9. w1 = 0 => w2 = 0 /\ w3 = 0
    BY <1>4, <1>5, <1>6, <1>7
  <1>10. /\ Bytes(d) \in Nat /\ Len(d) <= Bytes(d) /\ Bytes(d) <= 4 * Len(d)
         /\ (Bytes(d) = Len(d) <=> w1 = 0)
    <2> DEFINE len == Len(d)
               bytes == Bytes(d)
    <2>1. len \in Nat /\ w1 \in Nat /\ w1 <= len /\ bytes = len + w1 + w2 + w3
      BY <1>2, <1>5, <1>8
    <2>2. w2 \in Nat /\ w2 <= len /\ w3 \in Nat /\ w3 <= len
      BY <1>6, <1>7
    <2> HIDE DEF len, bytes
    <2>3. bytes \in Nat /\ len <= bytes /\ bytes <= 4 * len /\ (bytes = len <=> w1 = 0)
      BY <2>1, <2>2, <1>9
    <2> QED BY <2>3 DEF len, bytes
  <1> QED BY <1>2, <1>3, <1>5, <1>10

\* The number with its country code in front.
LEMMA Prefixed ==
    ASSUME NEW n \in Seq(Numeric)
    PROVE  LET d == <<"9", "1">> \o n
           IN  /\ d \in Seq(Numeric) /\ Len(d) = 2 + Len(n) /\ d[1] = "9" /\ d[2] = "1"
               /\ \A i \in 1..Len(n) : d[i + 2] = n[i]
  <1>1. <<"9", "1">> \in Seq(Numeric) /\ Len(n) \in Nat
    BY LenProperties DEF Numeric, Digits
  <1> QED BY <1>1, ConcatProperties

LEMMA WiderOfPrefixed ==
    ASSUME NEW n \in Seq(Numeric), NEW k \in 1..3
    PROVE  Cardinality(Wider(<<"9", "1">> \o n, k)) = Cardinality(Wider(n, k))
  <1> DEFINE d == <<"9", "1">> \o n
             wide == Wider(n, k)
             wideD == Wider(d, k)
             shift == [i \in wide |-> i + 2]
  <1>1. /\ d \in Seq(Numeric) /\ Len(d) = 2 + Len(n) /\ d[1] = "9" /\ d[2] = "1"
        /\ \A i \in 1..Len(n) : d[i + 2] = n[i]
    BY Prefixed
  <1> HIDE DEF d
  <1>2. DOMAIN d = 1..(2 + Len(n)) /\ DOMAIN n = 1..Len(n) /\ Len(n) \in Nat
    BY <1>1, LenProperties
  <1>3. shift \in [wide -> wideD]
    BY <1>1, <1>2 DEF Wider
  <1>4. \A j \in wideD : \E i \in wide : shift[i] = j
    <2> TAKE j \in wideD
    <2>1. j \in 1..(2 + Len(n)) /\ j # 1 /\ j # 2
      BY <1>1, <1>2 DEF Wider, Width
    <2>2. j - 2 \in 1..Len(n) /\ (j - 2) + 2 = j
      BY <1>2, <2>1
    <2>3. d[j] = n[j - 2]
      BY <1>1, <2>2
    <2> QED BY <1>2, <2>2, <2>3 DEF Wider
  <1>5. \A i, j \in wide : shift[i] = shift[j] => i = j
    BY <1>2 DEF Wider
  <1>6. shift \in Bijection(wide, wideD)
    BY <1>3, <1>4, <1>5 DEF Bijection, Injection, Surjection, IsInjective
  <1>7. IsFiniteSet(1..Len(n)) /\ wide \in SUBSET (1..Len(n))
    BY <1>2, FS_Interval DEF Wider
  <1>8. IsFiniteSet(wide)
    BY <1>7, FS_Subset
  <1>9. ExistsBijection(wide, wideD)
    BY <1>6 DEF ExistsBijection
  <1>10. Cardinality(wideD) = Cardinality(wide)
    BY <1>8, <1>9, FS_Bijection
  <1> QED BY <1>10 DEF d

LEMMA BytesOfPrefixed ==
    ASSUME NEW n \in Seq(Numeric)
    PROVE  Bytes(<<"9", "1">> \o n) = 2 + Bytes(n)
  <1> DEFINE d == <<"9", "1">> \o n
  <1>1. d \in Seq(Numeric) /\ Len(d) = 2 + Len(n) /\ Len(n) \in Nat
    BY Prefixed, LenProperties
  <1>2. \A k \in 1..3 : /\ Cardinality(Wider(d, k)) = Cardinality(Wider(n, k))
                       /\ Cardinality(Wider(n, k)) \in Nat
    BY WiderOfPrefixed, WiderGives
  <1> HIDE DEF d
  <1>3. Bytes(d) = 2 + Bytes(n)
    BY <1>1, <1>2 DEF Bytes
  <1> QED BY <1>3 DEF d

\* A number without its prefix, and the form that is stored.
Subscriber(n) ==
    /\ n \in Seq(Numeric) /\ Bytes(n) = Length
    /\ n[1] \in {"6", "7", "8", "9"}

Stored(n) == <<"+", "9", "1">> \o n

LEMMA NationalType ==
    ASSUME NEW d \in Seq(Numeric), Length \in Nat
    PROVE  National(d) \in Seq(Numeric)
  <1>1. Len(d) \in Nat /\ Bytes(d) <= 4 * Len(d) /\ \A i \in 3..Len(d) : d[i] \in Numeric
    BY BytesGives, ElementOfSeq
  <1>2. CASE Bytes(d) = Length + 1
    <2>1. Len(d) # 0
      BY <1>1, <1>2
    <2>2. d # <<>>
      BY <2>1, EmptySeq
    <2>3. Tail(d) \in Seq(Numeric)
      BY <2>2, HeadTailProperties
    <2> QED BY <1>2, <2>3 DEF National
  <1>3. CASE Bytes(d) # Length + 1
    <2>1. SubSeq(d, 3, Len(d)) \in Seq(Numeric)
      BY <1>1, SubSeqProperties
    <2> QED BY <1>3, <2>1 DEF National
  <1> QED BY <1>2, <1>3

LEMMA ValidIsStored ==
    ASSUME NEW S, NEW s \in Seq(S), Length \in Nat, NormalizeIndianMobile(s) # Invalid
    PROVE  /\ Subscriber(National(Number(s)))
           /\ NormalizeIndianMobile(s) = Stored(National(Number(s)))
  <1>1. National(Number(s)) \in Seq(Numeric)
    BY NumberType, NationalType
  <1> QED BY <1>1 DEF NormalizeIndianMobile, Subscriber, Stored

LEMMA StoredGives ==
    ASSUME NEW n \in Seq(Numeric)
    PROVE  /\ Len(n) \in Nat
           /\ Stored(n) \in Seq(Numeric \cup {"+"}) /\ Len(Stored(n)) = 3 + Len(n)
           /\ Stored(n)[1] = "+" /\ Stored(n)[2] = "9" /\ Stored(n)[3] = "1"
           /\ \A i \in 1..Len(n) : Stored(n)[i + 3] = n[i]
  <1> DEFINE C == Numeric \cup {"+"}
  <1>1. n \in Seq(C) /\ <<"+", "9", "1">> \in Seq(C) /\ Len(n) \in Nat
    BY SeqMonotonic, LenProperties DEF Numeric, Digits
  <1> QED BY <1>1, ConcatProperties DEF Stored

\* The stored form is left alone.
LEMMA StoredIsNormalized ==
    ASSUME NEW n, Subscriber(n), Length \in Nat
    PROVE  IsNormalized(Stored(n))
  <1> DEFINE m == Stored(n)
             d == <<"9", "1">> \o n
  <1>1. n \in Seq(Numeric) /\ Bytes(n) = Length /\ n[1] \in {"6", "7", "8", "9"}
    BY DEF Subscriber
  <1>2. /\ Len(n) \in Nat
        /\ m \in Seq(Numeric \cup {"+"}) /\ Len(m) = 3 + Len(n)
        /\ m[1] = "+" /\ m[2] = "9" /\ m[3] = "1"
        /\ \A i \in 1..Len(n) : m[i + 3] = n[i]
    BY <1>1, StoredGives
  <1>3. Number(m) = d /\ Bytes(d) = Length + 2
    BY <1>1, NumberOfNormal, BytesOfPrefixed DEF Stored
  <1>4. /\ d \in Seq(Numeric) /\ Len(d) = 2 + Len(n) /\ d[1] = "9" /\ d[2] = "1"
        /\ \A i \in 1..Len(n) : d[i + 2] = n[i]
    BY <1>1, Prefixed
  <1> HIDE DEF m, d
  <1>5. WellFormed(m)
    <2>1. DOMAIN m = 1..(3 + Len(n))
      BY <1>2, LenProperties
    <2>2. \A i \in 4..(3 + Len(n)) : m[i] \in Numeric
      <3> TAKE i \in 4..(3 + Len(n))
      <3>1. i - 3 \in 1..Len(n) /\ (i - 3) + 3 = i
        BY <1>2
      <3> QED BY <1>1, <1>2, <3>1, ElementOfSeq
    <2>3. \A i \in 2..(3 + Len(n)) : m[i] \in Numeric
      BY <1>2, <2>2 DEF Numeric, Digits
    <2>4. \A c \in Numeric : IsDigit(c) /\ c # "+"
      BY DEF Numeric, IsDigit, Digits, WideDigits
    <2>5. ASSUME NEW i \in DOMAIN m
          PROVE  /\ IsDigit(m[i]) \/ m[i] \in {" ", "+"}
                 /\ m[i] = "+" => \A j \in 1..(i - 1) : ~IsDigit(m[j])
      <3>1. CASE i = 1
        <4>1. m[i] = "+" /\ \A j \in 1..(i - 1) : FALSE
          BY <1>2, <3>1
        <4> QED BY <4>1
      <3>2. CASE i # 1
        <4>1. m[i] \in Numeric
          BY <1>2, <2>1, <2>3, <3>2
        <4> QED BY <2>4, <4>1
      <3> QED BY <3>1, <3>2
    <2> QED BY <2>5 DEF WellFormed
  <1>6. SubSeq(d, 3, Len(d)) = n
    <2>1. \A i \in 3..Len(d) : d[i] \in Numeric
      BY <1>4, <1>2, ElementOfSeq
    <2>2. /\ SubSeq(d, 3, Len(d)) \in Seq(Numeric)
          /\ Len(SubSeq(d, 3, Len(d))) = Len(n)
          /\ \A i \in 1..Len(n) : SubSeq(d, 3, Len(d))[i] = d[i + 2]
      BY <1>2, <1>4, <2>1, SubSeqProperties
    <2>3. \A i \in 1..Len(n) : SubSeq(d, 3, Len(d))[i] = n[i]
      BY <1>4, <2>2
    <2> QED BY <1>1, <2>2, <2>3, SeqEqual
  <1>7. National(Number(m)) = n
    BY <1>3, <1>4, <1>6 DEF National
  <1>8. NormalizeIndianMobile(m) = m
    BY <1>1, <1>5, <1>7 DEF NormalizeIndianMobile, m, Stored
  <1>9. m # Invalid
    BY <1>2, EmptySeq DEF Invalid
  <1> QED BY <1>2, <1>8, <1>9 DEF IsNormalized, m

\* The reference takes the last Length digits of a stored form: the subscriber's number,
\* with so much of the country code in front as wide digits leave room for.
LEMMA DialledOfStored ==
    ASSUME NEW n, Subscriber(n), Length \in Nat
    PROVE  /\ Len(n) = Length => Dialled(Stored(n)) = n
           /\ Len(n) = Length - 1 => Dialled(Stored(n)) = <<"1">> \o n
           /\ Len(n) < Length - 1 => Dialled(Stored(n)) = <<"9", "1">> \o n
  <1> DEFINE d == <<"9", "1">> \o n
             from(k) == SubSeq(d, k, Len(d))
  <1>1. n \in Seq(Numeric) /\ Len(n) \in Nat /\ Number(Stored(n)) = d
    BY NumberOfNormal, LenProperties DEF Subscriber, Stored
  <1>2. /\ d \in Seq(Numeric) /\ Len(d) = 2 + Len(n) /\ d[1] = "9" /\ d[2] = "1"
        /\ \A i \in 1..Len(n) : d[i + 2] = n[i]
    BY <1>1, Prefixed
  <1> HIDE DEF d
  <1>3. Dialled(Stored(n)) = IF Len(d) <= Length THEN d ELSE SubSeq(d, Len(d) - Length + 1, Len(d))
    BY <1>1 DEF Dialled
  <1>4. ASSUME NEW k \in 2..3
        PROVE  /\ from(k) \in Seq(Numeric) /\ Len(from(k)) = 3 + Len(n) - k
               /\ \A i \in 1..(3 + Len(n) - k) : from(k)[i] = d[k + i - 1]
    <2>1. \A i \in k..Len(d) : d[i] \in Numeric
      BY <1>1, <1>2, ElementOfSeq
    <2> QED BY <1>1, <1>2, <2>1, SubSeqProperties
  <1>5. CASE Len(n) = Length
    <2>1. Dialled(Stored(n)) = from(3)
      BY <1>1, <1>2, <1>3, <1>5
    <2>2. \A i \in 1..Len(n) : from(3)[i] = n[i]
      <3> TAKE i \in 1..Len(n)
      <3>1. from(3)[i] = d[3 + i - 1] /\ 3 + i - 1 = i + 2
        BY <1>1, <1>4
      <3> QED BY <1>2, <3>1
    <2>3. from(3) \in Seq(Numeric) /\ Len(from(3)) = Len(n)
      BY <1>1, <1>4
    <2>4. from(3) = n
      BY <1>1, <2>2, <2>3, SeqEqual
    <2> QED BY <1>1, <1>5, <2>1, <2>4
  <1>6. CASE Len(n) = Length - 1
    <2> DEFINE e == <<"1">> \o n
    <2>1. Dialled(Stored(n)) = from(2)
      BY <1>1, <1>2, <1>3, <1>6
    <2>2. <<"1">> \in Seq(Numeric)
      BY DEF Numeric, Digits
    <2>3. e \in Seq(Numeric) /\ Len(e) = 1 + Len(n) /\ e[1] = "1"
          /\ \A i \in 2..(1 + Len(n)) : e[i] = n[i - 1]
      BY <1>1, <2>2, ConcatProperties
    <2> HIDE DEF e
    <2>4. \A i \in 1..(1 + Len(n)) : from(2)[i] = e[i]
      <3> TAKE i \in 1..(1 + Len(n))
      <3>1. from(2)[i] = d[2 + i - 1] /\ 2 + i - 1 = i + 1 /\ i \in Nat
        BY <1>1, <1>4
      <3>2. CASE i = 1
        BY <1>2, <2>3, <3>1, <3>2
      <3>3. CASE i # 1
        <4>1. i - 1 \in 1..Len(n) /\ (i - 1) + 2 = i + 1 /\ i \in 2..(1 + Len(n))
          BY <1>1, <3>3
        <4>2. d[i + 1] = n[i - 1]
          BY <1>2, <4>1
        <4> QED BY <2>3, <3>1, <4>1, <4>2
      <3> QED BY <3>2, <3>3
    <2>5. from(2) = e
      BY <1>1, <1>4, <2>3, <2>4, SeqEqual
    <2> QED BY <1>1, <1>6, <2>1, <2>5 DEF e
  <1>7. CASE Len(n) < Length - 1
    BY <1>1, <1>2, <1>3, <1>7 DEF d
  <1> QED BY <1>5, <1>6, <1>7

LEMMA StoredInjective ==
    ASSUME NEW n, NEW r, Subscriber(n), Subscriber(r), Length \in Nat,
           Dialled(Stored(n)) = Dialled(Stored(r))
    PROVE  n = r
  <1>1. /\ n \in Seq(Numeric) /\ Len(n) \in Nat /\ Len(n) <= Length
        /\ r \in Seq(Numeric) /\ Len(r) \in Nat /\ Len(r) <= Length
    BY BytesGives DEF Subscriber
  <1>2. /\ Len(n) = Length <=> \A i \in 1..Len(n) : n[i] \notin WideDigits
        /\ Len(r) = Length <=> \A i \in 1..Len(r) : r[i] \notin WideDigits
        /\ n[1] \in {"6", "7", "8", "9"} /\ r[1] \in {"6", "7", "8", "9"}
    BY BytesGives DEF Subscriber
  <1>3. <<"1">> \in Seq(Numeric) /\ <<"9", "1">> \in Seq(Numeric)
    BY DEF Numeric, Digits
  \* What each of the three forms looks like.
  <1>4. ASSUME NEW x \in Seq(Numeric), NEW e \in {<<"1">>, <<"9", "1">>}
        PROVE  /\ Len(e \o x) = Len(e) + Len(x) /\ Len(x) \in Nat /\ Len(e) \in 1..2
               /\ (e \o x)[1] = e[1]
               /\ \A i \in 1..Len(x) : (e \o x)[i + Len(e)] = x[i]
    <2>1. e \in Seq(Numeric) /\ Len(e) \in 1..2 /\ Len(x) \in Nat
      <3>1. Len(e) \in 1..2
        OBVIOUS
      <3>2. e \in Seq(Numeric)
        BY <1>3, Zenon
      <3>3. Len(x) \in Nat
        BY LenProperties
      <3> QED BY <3>1, <3>2, <3>3
    <2> QED BY <2>1, ConcatProperties
  <1>5. ASSUME NEW x \in Seq(Numeric), NEW y \in Seq(Numeric), NEW e \in {<<"1">>, <<"9", "1">>},
               e \o x = e \o y
        PROVE  x = y
    <2>1. Len(x) = Len(y) /\ Len(x) \in Nat
      BY <1>4, <1>5
    <2>2. \A i \in 1..Len(x) : x[i] = y[i]
      BY <1>4, <1>5, <2>1
    <2> QED BY <2>1, <2>2, SeqEqual
  <1>6. ASSUME NEW x, NEW y, Subscriber(x), Subscriber(y),
               Dialled(Stored(x)) = Dialled(Stored(y)), Len(x) = Length
        PROVE  Len(y) = Length
    <2>1. /\ x \in Seq(Numeric) /\ Len(x) \in Nat /\ x[1] \in {"6", "7", "8", "9"}
          /\ \A i \in 1..Len(x) : x[i] \notin WideDigits
          /\ y \in Seq(Numeric) /\ Len(y) \in Nat /\ Len(y) <= Length
      BY <1>6, BytesGives DEF Subscriber
    <2>2. Dialled(Stored(x)) = x
      BY <1>6, DialledOfStored
    <2>3. ASSUME Len(y) = Length - 1 PROVE FALSE
      <3>1. x = <<"1">> \o y
        BY <1>6, <2>2, <2>3, DialledOfStored
      <3>2. x[1] = "1"
        BY <1>4, <2>1, <3>1
      <3> QED BY <2>1, <3>2
    <2>4. ASSUME Len(y) < Length - 1 PROVE FALSE
      <3>1. x = <<"9", "1">> \o y
        BY <1>6, <2>2, <2>4, DialledOfStored
      <3>2. PICK i \in 1..Len(y) : y[i] \in WideDigits
        BY <1>6, <2>1, <2>4, BytesGives DEF Subscriber
      <3>3. Len(x) = 2 + Len(y) /\ x[i + 2] \in WideDigits
        BY <1>4, <2>1, <3>1, <3>2
      <3> QED BY <2>1, <3>2, <3>3
    <2> QED BY <2>1, <2>3, <2>4
  <1>7. CASE Len(n) = Length \/ Len(r) = Length
    <2>1. Len(n) = Length /\ Len(r) = Length
      BY <1>6, <1>7
    <2> QED BY <2>1, DialledOfStored
  <1>8. CASE Len(n) = Length - 1 /\ Len(r) = Length - 1
    <2>1. <<"1">> \o n = <<"1">> \o r
      BY <1>8, DialledOfStored
    <2> QED BY <1>1, <1>5, <2>1
  <1>9. CASE Len(n) < Length - 1 /\ Len(r) < Length - 1
    <2>1. <<"9", "1">> \o n = <<"9", "1">> \o r
      BY <1>9, DialledOfStored
    <2> QED BY <1>1, <1>5, <2>1
  <1>10. ASSUME NEW x, NEW y, Subscriber(x), Subscriber(y),
                Dialled(Stored(x)) = Dialled(Stored(y)), Len(x) = Length - 1, Len(y) < Length - 1
         PROVE  FALSE
    <2>1. x \in Seq(Numeric) /\ y \in Seq(Numeric)
      BY <1>10 DEF Subscriber
    <2>2. <<"1">> \o x = <<"9", "1">> \o y
      BY <1>10, DialledOfStored
    <2>3. (<<"1">> \o x)[1] = "1" /\ (<<"9", "1">> \o y)[1] = "9"
      BY <1>4, <2>1
    <2> QED BY <2>2, <2>3
  <1> QED BY <1>1, <1>7, <1>8, <1>9, <1>10

\* A spelling of one-byte digits is stored as the subscriber that it dials.
LEMMA ValidDials ==
    ASSUME NEW S, NEW s \in Seq(S), Length \in Nat, NormalizeIndianMobile(s) # Invalid,
           \A i \in DOMAIN s : s[i] \notin WideDigits
    PROVE  National(Number(s)) = Dialled(s)
  <1> DEFINE d == Number(s)
  <1>1. d \in Seq(Numeric)
    BY NumberType
  <1>2. \A i \in 1..Len(d) : d[i] \notin WideDigits
    <2>1. Cardinality(DigitsIn(s)) \in Nat /\ DigitsIn(s) \in SUBSET (1..Len(s)) /\ Len(s) \in Nat
      BY DigitsInGives
    <2>2. DOMAIN d = 1..Cardinality(DigitsIn(s))
      BY DEF Number
    <2>3. DOMAIN d = 1..Len(d)
      BY <1>1, LenProperties
    <2> SUFFICES ASSUME NEW i \in 1..Cardinality(DigitsIn(s)) PROVE d[i] \notin WideDigits
      BY <2>2, <2>3
    <2>4. Nth(DigitsIn(s), i) \in DOMAIN s
      BY <2>1, NthGives DEF DigitsIn
    <2> QED BY <2>4 DEF Number
  <1> HIDE DEF d
  <1>3. Bytes(d) = Len(d) /\ Len(d) \in Nat
    BY <1>1, <1>2, BytesGives
  <1>4. Bytes(National(d)) = Length /\ National(d) \in Seq(Numeric)
    BY ValidIsStored DEF Subscriber, d
  <1>5. Dialled(s) = IF Len(d) <= Length THEN d ELSE SubSeq(d, Len(d) - Length + 1, Len(d))
    BY DEF Dialled, d
  <1>6. CASE Len(d) = Length + 1 /\ d[1] = "0"
    <2>1. d # <<>>
      BY <1>3, <1>6, EmptySeq
    <2>2. Tail(d) = SubSeq(d, 2, Len(d))
      BY <1>1, <2>1, TailIsSubSeq
    <2>3. Len(d) - Length + 1 = 2 /\ ~(Len(d) <= Length)
      BY <1>6
    <2> QED BY <1>3, <1>5, <1>6, <2>2, <2>3 DEF National, d
  <1>7. CASE Len(d) = Length + 2 /\ d[1] = "9" /\ d[2] = "1"
    <2>1. Len(d) - Length + 1 = 3 /\ ~(Len(d) <= Length) /\ Len(d) # Length + 1
      BY <1>7
    <2> QED BY <1>3, <1>5, <1>7, <2>1 DEF National, d
  <1>8. CASE National(d) = d
    <2>1. Len(d) = Length
      BY <1>3, <1>4, <1>8
    <2> QED BY <1>5, <1>8, <2>1 DEF d
  <1> QED BY <1>3, <1>6, <1>7, <1>8 DEF National, d

\* What NormalizeIndianMobile returns, it leaves alone, so requests may be normalised at
\* every boundary: by the limiter and again by the service.
THEOREM NormalizedStays ==
    ASSUME NEW S, NEW s \in Seq(S), NormalizeIndianMobile(s) # Invalid
    PROVE  IsNormalized(NormalizeIndianMobile(s))
  <1>1. Length \in Nat
    BY RegistrationAssumption
  <1> QED BY <1>1, ValidIsStored, StoredIsNormalized

\* Two valid spellings in ASCII digits, with or without separators, trunk zero or country
\* code, are stored alike exactly when they dial one subscriber.
THEOREM SpellingsAgree ==
    ASSUME NEW S, NEW s \in Seq(S), NEW t \in Seq(S),
           NormalizeIndianMobile(s) # Invalid, NormalizeIndianMobile(t) # Invalid,
           \A i \in DOMAIN s : s[i] \notin WideDigits, \A i \in DOMAIN t : t[i] \notin WideDigits
    PROVE  NormalizeIndianMobile(s) = NormalizeIndianMobile(t) <=> Dialled(s) = Dialled(t)
  <1>1. Length \in Nat
    BY RegistrationAssumption
  <1>2. /\ Subscriber(Dialled(s)) /\ NormalizeIndianMobile(s) = Stored(Dialled(s))
        /\ Subscriber(Dialled(t)) /\ NormalizeIndianMobile(t) = Stored(Dialled(t))
    BY <1>1, ValidIsStored, ValidDials
  <1> QED BY <1>1, <1>2, StoredInjective

\* Different stored mobiles dial different subscribers, also when digits take several bytes.
LEMMA MobilesDialApart ==
    ASSUME NEW m \in Mobiles, NEW k \in Mobiles, Dialled(m) = Dialled(k)
    PROVE  m = k
  <1>1. Length \in Nat /\ IsNormalized(m) /\ IsNormalized(k)
    BY RegistrationAssumption
  <1>2. /\ m \in Seq(Numeric \cup {"+"}) /\ k \in Seq(Numeric \cup {"+"})
        /\ NormalizeIndianMobile(m) = m /\ m # Invalid
        /\ NormalizeIndianMobile(k) = k /\ k # Invalid
    BY <1>1 DEF IsNormalized
  <1>3. PICK n, r : Subscriber(n) /\ m = Stored(n) /\ Subscriber(r) /\ k = Stored(r)
    BY <1>1, <1>2, ValidIsStored
  <1> QED BY <1>1, <1>3, StoredInjective

----------------------------------------------------------------------------
\* However many signups, logins and completions run at once, whatever they looked up and
\* however they spelled it, no subscriber gets a second account.
THEOREM OneAccount == RegistrationSpec => []OneAccountPerSubscriber
  <1>1. TypeOK /\ UniqueMobiles => OneAccountPerSubscriber
    <2> SUFFICES ASSUME TypeOK, UniqueMobiles, NEW u \in Registered, NEW v \in Registered, u # v,
                        rows[u].mobile # None, rows[v].mobile # None,
                        Dialled(rows[u].mobile) = Dialled(rows[v].mobile)
                 PROVE  FALSE
      BY DEF OneAccountPerSubscriber
    <2>1. rows[u] \in User /\ rows[v] \in User
      BY DEF TypeOK, Registered
    <2>2. rows[u].mobile \in Mobiles /\ rows[v].mobile \in Mobiles
      BY <2>1 DEF User
    <2>3. rows[u].mobile = rows[v].mobile
      BY <2>2, MobilesDialApart
    <2> QED BY <2>3 DEF UniqueMobiles
  <1> QED BY <1>1, RegistrationImplementsAccounts, TypeCorrect, MobilesAreUnique, PTL
=============================================================================
