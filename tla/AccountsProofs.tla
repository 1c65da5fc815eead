-------------------------- MODULE AccountsProofs --------------------------
(***************************************************************************)
(* Theorems about Accounts for any number of requests, users, identities   *)
(* and names, however their calls interleave and fail.                     *)
(*                                                                         *)
(* What a request has read goes stale, and the invariant says what stays   *)
(* true of it: a user never disappears and never changes its e-mail, so    *)
(* the user a Google login has found by e-mail is still the one to link;   *)
(* and a profile that was read incomplete had an unverified mobile, so     *)
(* writing mobile_verified back never claims more than was approved.       *)
(***************************************************************************)
EXTENDS Accounts, SequenceTheorems, TLAPS

GoogleSteps == {"sso", "email", "link", "username", "create"}
ProfileSteps == {"byId", "name", "mobile", "update"}

\* A request at a step that uses an identity, an account or a name has one.
GoogleGiven(p) ==
    /\ pc[p] \in GoogleSteps => google[p] \in Identities
    /\ pc[p] = "create" => name[p] \in Names

ProfileGiven(p) ==
    pc[p] \in ProfileSteps =>
        account[p] \in Registered /\ name[p] \in Names /\ mobile[p] \in Mobiles

\* The user that a Google login is about to link has the identity's e-mail.
FoundByEmail(p) ==
    pc[p] = "link" =>
        account[p] \in Registered /\ rows[account[p]].email = EmailOf(google[p])

\* A profile is completed from a copy that is unverified and has the right e-mail.
ReadIncomplete(p) ==
    pc[p] \in {"name", "mobile", "update"} =>
        /\ read[p] \in User
        /\ ~read[p].verified
        /\ read[p].email = rows[account[p]].email

RequestOK(p) == GoogleGiven(p) /\ ProfileGiven(p) /\ FoundByEmail(p) /\ ReadIncomplete(p)

UniqueEmails ==
    \A u, v \in Registered : rows[u].email = rows[v].email => u = v

\* Only a signup verifies a mobile, and its user is complete.
VerifiedIsComplete == \A u \in Registered : rows[u].verified => rows[u].complete

TableInv ==
    /\ UniqueEmails /\ VerifiedIsComplete
    /\ EveryUserCanLogIn /\ LinksLeadToEmailOwner /\ VerifiedMobileApproved

RequestInv == \A p \in Procs : RequestOK(p)

IInv == TypeOK /\ TableInv /\ RequestInv

LEMMA InvInit == Init => IInv
  <1> SUFFICES ASSUME Init PROVE IInv
    OBVIOUS
  <1>1. TypeOK
    BY DEF Init, TypeOK, Steps
  <1>2. Registered = {} /\ \A g \in Identities : links[g] = <<>>
    BY DEF Init, Registered
  <1>3. TableInv
    BY <1>2 DEF TableInv, UniqueEmails, VerifiedIsComplete, EveryUserCanLogIn,
                LinksLeadToEmailOwner, VerifiedMobileApproved
  <1>4. RequestInv
    BY DEF Init, RequestInv, RequestOK, GoogleGiven, ProfileGiven, FoundByEmail, ReadIncomplete,
           GoogleSteps, ProfileSteps
  <1> QED BY <1>1, <1>3, <1>4 DEF IInv

----------------------------------------------------------------------------
(***************************************************************************)
(* What other requests may rely on: users stay, with their e-mail.         *)
(***************************************************************************)
UsersStay ==
    /\ Registered \subseteq Registered'
    /\ \A u \in Registered : rows'[u].email = rows[u].email

LEMMA RegisteredIs ==
    ASSUME TypeOK
    PROVE  /\ \A u : u \in Registered <=> u \in Users /\ rows[u] # None
           /\ \A u \in Registered : rows[u] \in User
           /\ \A u, e : u \in WithEmail(e) <=> u \in Registered /\ rows[u].email = e
  BY DEF TypeOK, Registered, WithEmail

\* A request that does nothing keeps what it relies on while users stay.
LEMMA OthersKept ==
    ASSUME UsersStay, NEW p, RequestOK(p),
           pc'[p] = pc[p], google'[p] = google[p], account'[p] = account[p],
           read'[p] = read[p], name'[p] = name[p], mobile'[p] = mobile[p]
    PROVE  RequestOK(p)'
  <1>1. GoogleGiven(p)'
    BY DEF RequestOK, GoogleGiven
  <1>2. ProfileGiven(p)'
    BY DEF RequestOK, ProfileGiven, UsersStay
  <1>3. FoundByEmail(p)'
    BY DEF RequestOK, FoundByEmail, UsersStay
  <1>4. ReadIncomplete(p)'
    BY DEF RequestOK, ReadIncomplete, ProfileGiven, ProfileSteps, UsersStay
  <1> QED BY <1>1, <1>2, <1>3, <1>4 DEF RequestOK

\* The locals of the other requests.
OthersIdle(p) ==
    \A q \in Procs \ {p} :
        /\ pc'[q] = pc[q] /\ google'[q] = google[q] /\ account'[q] = account[q]
        /\ read'[q] = read[q] /\ name'[q] = name[q] /\ mobile'[q] = mobile[q]

LEMMA RequestsKept ==
    ASSUME RequestInv, UsersStay, NEW p \in Procs, OthersIdle(p), RequestOK(p)'
    PROVE  RequestInv'
  <1> SUFFICES ASSUME NEW q \in Procs PROVE RequestOK(q)'
    BY DEF RequestInv
  <1>1. CASE q # p
    BY <1>1, OthersKept DEF RequestInv, OthersIdle
  <1> QED BY <1>1

\* A step that leaves the tables alone.
LEMMA TablesKept ==
    ASSUME TableInv, UNCHANGED tables
    PROVE  TableInv' /\ UsersStay
  <1>1. UsersStay
    BY DEF tables, UsersStay, Registered
  <1>2. UniqueEmails' /\ VerifiedIsComplete' /\ VerifiedMobileApproved'
    BY DEF tables, TableInv, UniqueEmails, VerifiedIsComplete, VerifiedMobileApproved, Registered
  <1>3. EveryUserCanLogIn' /\ LinksLeadToEmailOwner'
    BY DEF tables, TableInv, EveryUserCanLogIn, LinksLeadToEmailOwner, Registered, WithEmail
  <1> QED BY <1>1, <1>2, <1>3 DEF TableInv

----------------------------------------------------------------------------
(***************************************************************************)
(* The steps that only look.                                               *)
(***************************************************************************)
Look(p) ==
    \/ GoogleLogin(p) \/ GetSSOAccount(p) \/ GetUserByEmail(p) \/ ChooseUsername(p)
    \/ CompleteProfile(p) \/ GetUserByID(p) \/ CheckName(p) \/ CheckMobile(p) \/ Abort(p)

LocalType ==
    /\ pc \in [Procs -> Steps]
    /\ google \in [Procs -> Identities \cup {None}]
    /\ account \in [Procs -> Users \cup {None}]
    /\ read \in [Procs -> User \cup {None}]
    /\ name \in [Procs -> Names \cup {None}]
    /\ mobile \in [Procs -> Mobiles \cup {None}]

LEMMA ReturnKeeps ==
    ASSUME LocalType, NEW p \in Procs, Return(p)
    PROVE  LocalType' /\ OthersIdle(p) /\ RequestOK(p)'
  <1>1. LocalType' /\ OthersIdle(p) /\ pc'[p] = "idle"
    BY DEF Return, Goto, LocalType, OthersIdle, Steps
  <1> QED BY <1>1 DEF RequestOK, GoogleGiven, ProfileGiven, FoundByEmail, ReadIncomplete,
                      GoogleSteps, ProfileSteps

LEMMA LookKeeps ==
    ASSUME IInv, NEW p \in Procs, Look(p)
    PROVE  UNCHANGED tables /\ LocalType' /\ OthersIdle(p) /\ RequestOK(p)'
  <1> USE DEF RequestOK, GoogleGiven, ProfileGiven, FoundByEmail, ReadIncomplete,
              GoogleSteps, ProfileSteps
  <1>1. LocalType /\ RequestOK(p)
    BY DEF IInv, TypeOK, LocalType, RequestInv
  <1>2. CASE GoogleLogin(p)
    BY <1>1, <1>2 DEF GoogleLogin, Goto, LocalType, OthersIdle, Steps
  <1>3. CASE GetSSOAccount(p)
    <2>1. CASE Return(p)
      BY <1>1, <1>3, <2>1, ReturnKeeps DEF GetSSOAccount
    <2>2. CASE Goto(p, "email") /\ UNCHANGED locals
      BY <1>1, <1>3, <2>2 DEF GetSSOAccount, Goto, locals, LocalType, OthersIdle, Steps
    <2> QED BY <1>3, <2>1, <2>2 DEF GetSSOAccount
  <1>4. CASE GetUserByEmail(p)
    <2>1. CASE Goto(p, "username") /\ UNCHANGED account
      BY <1>1, <1>4, <2>1 DEF GetUserByEmail, Goto, LocalType, OthersIdle, Steps
    <2>2. CASE Goto(p, "link") /\ \E u \in WithEmail(EmailOf(google[p])) :
                  account' = [account EXCEPT ![p] = u]
      BY <1>1, <1>4, <2>2
      DEF GetUserByEmail, Goto, LocalType, OthersIdle, Steps, WithEmail, Registered, tables
    <2> QED BY <1>4, <2>1, <2>2 DEF GetUserByEmail
  <1>5. CASE ChooseUsername(p)
    <2>1. PICK n \in Names : name' = [name EXCEPT ![p] = n]
      BY <1>1, <1>5, AccountsAssumption DEF ChooseUsername
    <2> QED BY <1>1, <1>5, <2>1 DEF ChooseUsername, Goto, LocalType, OthersIdle, Steps
  <1>6. CASE CompleteProfile(p)
    BY <1>1, <1>6
    DEF CompleteProfile, Goto, LocalType, OthersIdle, Steps, Registered, tables
  <1>7. CASE GetUserByID(p)
    <2>1. CASE Return(p)
      BY <1>1, <1>7, <2>1, ReturnKeeps DEF GetUserByID
    <2>2. CASE ~Return(p)
      <3>1. rows[account[p]] \in User /\ account[p] \in Registered
        BY <1>1, <1>7 DEF GetUserByID, IInv, TypeOK, Registered
      <3>2. ~rows[account[p]].complete /\ ~rows[account[p]].verified
        BY <1>7, <2>2, <3>1 DEF GetUserByID, IInv, TableInv, VerifiedIsComplete
      <3> QED BY <1>1, <1>7, <2>2, <3>1, <3>2
              DEF GetUserByID, Goto, LocalType, OthersIdle, Steps, tables, Registered
    <2> QED BY <2>1, <2>2
  <1>8. CASE CheckName(p) \/ CheckMobile(p)
    <2>1. CASE Return(p)
      BY <1>1, <1>8, <2>1, ReturnKeeps DEF CheckName, CheckMobile, Check
    <2>2. CASE ~Return(p)
      BY <1>1, <1>8, <2>2
      DEF CheckName, CheckMobile, Check, Goto, locals, LocalType, OthersIdle, Steps, tables,
          Registered
    <2> QED BY <2>1, <2>2
  <1>9. CASE Abort(p)
    BY <1>1, <1>9, ReturnKeeps DEF Abort
  <1> QED BY <1>2, <1>3, <1>4, <1>5, <1>6, <1>7, <1>8, <1>9 DEF Look

----------------------------------------------------------------------------
(***************************************************************************)
(* The steps that write.                                                   *)
(***************************************************************************)
LEMMA AppendIs ==
    ASSUME NEW S, NEW s \in Seq(S), NEW x \in S
    PROVE  /\ Append(s, x) \in Seq(S)
           /\ \A n \in DOMAIN s : n \in DOMAIN Append(s, x) /\ Append(s, x)[n] = s[n]
           /\ \A n \in DOMAIN Append(s, x) :
                 Append(s, x)[n] = x \/ (n \in DOMAIN s /\ Append(s, x)[n] = s[n])
           /\ \E n \in DOMAIN Append(s, x) : Append(s, x)[n] = x
  <1>1. /\ Append(s, x) \in Seq(S)
        /\ Len(Append(s, x)) = Len(s) + 1
        /\ \A i \in 1 .. Len(s) : Append(s, x)[i] = s[i]
        /\ Append(s, x)[Len(s) + 1] = x
    BY AppendProperties
  <1>2. Len(s) \in Nat /\ DOMAIN s = 1 .. Len(s) /\ DOMAIN Append(s, x) = 1 .. Len(s) + 1
    BY <1>1, LenProperties
  <1>3. Len(s) + 1 \in DOMAIN Append(s, x)
    BY <1>2
  <1> QED BY <1>1, <1>2, <1>3

\* A link is added: the others stay where they are.
LEMMA LinkAppended ==
    ASSUME links \in [Identities -> Seq(Users)], NEW g \in Identities, NEW u \in Users,
           links' = [links EXCEPT ![g] = Append(@, u)]
    PROVE  /\ links' \in [Identities -> Seq(Users)]
           /\ \A h \in Identities : \A n \in DOMAIN links[h] :
                 n \in DOMAIN links'[h] /\ links'[h][n] = links[h][n]
           /\ \A h \in Identities : \A n \in DOMAIN links'[h] :
                 \/ h = g /\ links'[h][n] = u
                 \/ n \in DOMAIN links[h] /\ links'[h][n] = links[h][n]
           /\ \E n \in DOMAIN links'[g] : links'[g][n] = u
  <1> DEFINE s == links[g]
             a == Append(s, u)
  <1>1. s \in Seq(Users)
    OBVIOUS
  <1>2. /\ a \in Seq(Users)
        /\ \A n \in DOMAIN s : n \in DOMAIN a /\ a[n] = s[n]
        /\ \A n \in DOMAIN a : a[n] = u \/ (n \in DOMAIN s /\ a[n] = s[n])
        /\ \E n \in DOMAIN a : a[n] = u
    BY <1>1, AppendIs
  <1>3. links'[g] = a /\ \A h \in Identities \ {g} : links'[h] = links[h]
    OBVIOUS
  <1>4. links' \in [Identities -> Seq(Users)]
    BY <1>2
  <1> HIDE DEF a
  <1>5. ASSUME NEW h \in Identities, NEW n \in DOMAIN links[h]
        PROVE  n \in DOMAIN links'[h] /\ links'[h][n] = links[h][n]
    <2>1. CASE h = g
      BY <1>2, <1>3, <2>1
    <2>2. CASE h # g
      BY <1>3, <2>2
    <2> QED BY <2>1, <2>2
  <1>6. ASSUME NEW h \in Identities, NEW n \in DOMAIN links'[h]
        PROVE  \/ h = g /\ links'[h][n] = u
               \/ n \in DOMAIN links[h] /\ links'[h][n] = links[h][n]
    <2>1. CASE h = g
      BY <1>2, <1>3, <2>1
    <2>2. CASE h # g
      BY <1>3, <2>2
    <2> QED BY <2>1, <2>2
  <1> QED BY <1>2, <1>3, <1>4, <1>5, <1>6

\* A new row: what the unique indices refuse is not there.
LEMMA InsertKeeps ==
    ASSUME IInv, NEW u \in Users, NEW v \in User, Insert(u, v), v.verified => v.complete
    PROVE  /\ rows' \in [Users -> User \cup {None}]
           /\ UsersStay /\ UniqueEmails' /\ VerifiedIsComplete'
           /\ u \notin Registered /\ Registered' = Registered \cup {u}
           /\ rows'[u] = v /\ \A w \in Registered : rows'[w] = rows[w]
           /\ \A w \in Registered : rows[w].email # v.email
  <1>1. rows' \in [Users -> User \cup {None}]
    BY DEF Insert, IInv, TypeOK
  <1>2. u \notin Registered /\ rows'[u] = v /\ \A w \in Registered : rows'[w] = rows[w]
    BY DEF Insert, IInv, TypeOK, Registered
  <1>3. Registered' = Registered \cup {u}
    BY <1>2, AccountsAssumption DEF Insert, IInv, TypeOK, Registered
  <1>4. \A w \in Registered : rows[w].email # v.email
    BY <1>2 DEF Insert, Unique, WithEmail
  <1>5. UsersStay
    BY <1>2, <1>3 DEF UsersStay
  <1>6. UniqueEmails' /\ VerifiedIsComplete'
    BY <1>2, <1>3, <1>4 DEF IInv, TableInv, UniqueEmails, VerifiedIsComplete
  <1> QED BY <1>1, <1>2, <1>3, <1>4, <1>5, <1>6

LEMMA RegisterKeeps ==
    ASSUME IInv, NEW n \in Names, NEW e \in Emails, NEW m \in Mobiles, RegisterUser(n, e, m)
    PROVE  IInv'
  <1>1. PICK u \in Users :
            /\ Insert(u, [name |-> n, email |-> e, mobile |-> m,
                          verified |-> TRUE, complete |-> TRUE])
            /\ passwords' = passwords \cup {u}
            /\ approved' = approved \cup {<<u, m>>}
    BY DEF RegisterUser
  <1>2. UNCHANGED <<links, pc, locals>>
    BY DEF RegisterUser
  <1> DEFINE v == [name |-> n, email |-> e, mobile |-> m, verified |-> TRUE, complete |-> TRUE]
  <1>3. v \in User /\ v.verified /\ v.complete /\ v.email = e /\ v.mobile = m
    BY DEF User
  <1> HIDE DEF v
  <1>4. /\ rows' \in [Users -> User \cup {None}]
        /\ UsersStay /\ UniqueEmails' /\ VerifiedIsComplete'
        /\ u \notin Registered /\ Registered' = Registered \cup {u}
        /\ rows'[u] = v /\ \A w \in Registered : rows'[w] = rows[w]
        /\ \A w \in Registered : rows[w].email # v.email
    BY <1>1, <1>3, InsertKeeps DEF v
  <1>5. TypeOK'
    BY <1>1, <1>2, <1>4 DEF IInv, TypeOK, locals
  <1>6. EveryUserCanLogIn'
    BY <1>1, <1>2, <1>4 DEF IInv, TableInv, EveryUserCanLogIn
  <1>7. LinksLeadToEmailOwner'
    <2> SUFFICES ASSUME NEW g \in Identities, NEW i \in DOMAIN links[g]
                 PROVE  WithEmail(EmailOf(g))' = {links[g][i]}
      BY <1>2 DEF LinksLeadToEmailOwner
    <2>1. WithEmail(EmailOf(g)) = {links[g][i]}
      BY DEF IInv, TableInv, LinksLeadToEmailOwner
    <2>2. v.email # EmailOf(g)
      BY <2>1, <1>4 DEF WithEmail
    <2> QED BY <2>1, <2>2, <1>4 DEF WithEmail
  <1>8. VerifiedMobileApproved'
    BY <1>1, <1>3, <1>4 DEF IInv, TableInv, VerifiedMobileApproved
  <1>9. RequestInv'
    BY <1>2, <1>4, OthersKept DEF IInv, RequestInv, locals
  <1> QED BY <1>4, <1>5, <1>6, <1>7, <1>8, <1>9 DEF IInv, TableInv

LEMMA LinkKeeps ==
    ASSUME IInv, NEW p \in Procs, LinkSSOAccount(p)
    PROVE  IInv'
  <1> DEFINE g == google[p]
             u == account[p]
  <1>1. g \in Identities /\ u \in Registered /\ rows[u].email = EmailOf(g) /\ u \in Users
    BY DEF LinkSSOAccount, IInv, RequestInv, RequestOK, GoogleGiven, FoundByEmail, GoogleSteps,
           Registered
  <1>2. links \in [Identities -> Seq(Users)]
    BY DEF IInv, TypeOK
  <1>3. /\ links' \in [Identities -> Seq(Users)]
        /\ \A h \in Identities : \A n \in DOMAIN links[h] :
              n \in DOMAIN links'[h] /\ links'[h][n] = links[h][n]
        /\ \A h \in Identities : \A n \in DOMAIN links'[h] :
              \/ h = g /\ links'[h][n] = u
              \/ n \in DOMAIN links[h] /\ links'[h][n] = links[h][n]
        /\ \E n \in DOMAIN links'[g] : links'[g][n] = u
    <2> HIDE DEF g, u
    <2>1. links' = [links EXCEPT ![g] = Append(@, u)]
      BY DEF LinkSSOAccount, g, u
    <2>2. g \in Identities /\ u \in Users
      BY <1>1
    <2> QED BY <1>2, <2>1, <2>2, LinkAppended
  <1>4. UNCHANGED <<rows, passwords, approved>> /\ Return(p)
    BY DEF LinkSSOAccount
  <1>5. LocalType' /\ OthersIdle(p) /\ RequestOK(p)'
    BY <1>4, ReturnKeeps DEF IInv, TypeOK, LocalType
  <1>6. TypeOK'
    BY <1>3, <1>4, <1>5 DEF IInv, TypeOK, LocalType
  <1>7. UsersStay /\ Registered' = Registered
    BY <1>4 DEF UsersStay, Registered
  <1>8. UniqueEmails' /\ VerifiedIsComplete' /\ VerifiedMobileApproved'
    BY <1>4, <1>7
    DEF IInv, TableInv, UniqueEmails, VerifiedIsComplete, VerifiedMobileApproved
  <1>9. EveryUserCanLogIn'
    <2> SUFFICES ASSUME NEW w \in Registered
                 PROVE  w \in passwords \/
                        \E h \in Identities : \E n \in DOMAIN links'[h] : links'[h][n] = w
      BY <1>4, <1>7, Zenon DEF EveryUserCanLogIn
    <2>1. CASE \E h \in Identities : \E n \in DOMAIN links[h] : links[h][n] = w
      BY <1>3, <2>1
    <2>2. CASE w \in passwords
      BY <2>2
    <2> QED BY <2>1, <2>2 DEF IInv, TableInv, EveryUserCanLogIn
  <1>10. LinksLeadToEmailOwner'
    <2> SUFFICES ASSUME NEW h \in Identities, NEW n \in DOMAIN links'[h]
                 PROVE  WithEmail(EmailOf(h))' = {links'[h][n]}
      BY DEF LinksLeadToEmailOwner
    <2>1. WithEmail(EmailOf(h))' = WithEmail(EmailOf(h))
      BY <1>4, <1>7 DEF WithEmail
    <2>2. CASE n \in DOMAIN links[h] /\ links'[h][n] = links[h][n]
      BY <2>1, <2>2 DEF IInv, TableInv, LinksLeadToEmailOwner
    <2>3. CASE h = g /\ links'[h][n] = u
      BY <1>1, <2>1, <2>3 DEF IInv, TableInv, UniqueEmails, WithEmail
    <2> QED BY <1>3, <2>2, <2>3
  <1>11. RequestInv'
    BY <1>5, <1>7, RequestsKept DEF IInv
  <1> QED BY <1>6, <1>8, <1>9, <1>10, <1>11 DEF IInv, TableInv

LEMMA CreateKeeps ==
    ASSUME IInv, NEW p \in Procs, CreateSSOUser(p)
    PROVE  IInv'
  <1> DEFINE g == google[p]
             v == SSOUser(p)
  <1>1. g \in Identities /\ v \in User /\ v.email = EmailOf(g) /\ ~v.verified
    BY AccountsAssumption
    DEF CreateSSOUser, SSOUser, User, IInv, RequestInv, RequestOK, GoogleGiven, GoogleSteps
  <1> HIDE DEF v
  <1>2. UNCHANGED <<passwords, approved>> /\ Return(p)
    BY DEF CreateSSOUser
  <1>3. LocalType' /\ OthersIdle(p) /\ RequestOK(p)'
    BY <1>2, ReturnKeeps DEF IInv, TypeOK, LocalType
  <1>4. CASE UNCHANGED <<rows, links>>
    <2>1. UNCHANGED tables
      BY <1>2, <1>4 DEF tables
    <2>2. TypeOK'
      BY <1>3, <2>1 DEF tables, IInv, TypeOK, LocalType
    <2> QED BY <1>3, <2>1, <2>2, TablesKept, RequestsKept DEF IInv
  <1>5. ASSUME NEW u \in Users, Insert(u, v), links' = [links EXCEPT ![g] = Append(@, u)]
        PROVE  IInv'
    <2>1. /\ rows' \in [Users -> User \cup {None}]
          /\ UsersStay /\ UniqueEmails' /\ VerifiedIsComplete'
          /\ u \notin Registered /\ Registered' = Registered \cup {u}
          /\ rows'[u] = v /\ \A w \in Registered : rows'[w] = rows[w]
          /\ \A w \in Registered : rows[w].email # v.email
      BY <1>1, <1>5, InsertKeeps
    <2>2. links \in [Identities -> Seq(Users)]
      BY DEF IInv, TypeOK
    <2>3. /\ links' \in [Identities -> Seq(Users)]
          /\ \A h \in Identities : \A n \in DOMAIN links[h] :
                n \in DOMAIN links'[h] /\ links'[h][n] = links[h][n]
          /\ \A h \in Identities : \A n \in DOMAIN links'[h] :
                \/ h = g /\ links'[h][n] = u
                \/ n \in DOMAIN links[h] /\ links'[h][n] = links[h][n]
          /\ \E n \in DOMAIN links'[g] : links'[g][n] = u
      BY <1>1, <1>5, <2>2, LinkAppended
    <2>4. TypeOK'
      BY <1>2, <1>3, <2>1, <2>3 DEF IInv, TypeOK, LocalType
    <2>5. EveryUserCanLogIn'
      <3>1. ASSUME NEW w \in Registered
            PROVE  w \in passwords \/
                   \E h \in Identities : \E n \in DOMAIN links'[h] : links'[h][n] = w
        BY <2>3 DEF IInv, TableInv, EveryUserCanLogIn
      <3> QED BY <1>1, <1>2, <2>1, <2>3, <3>1 DEF EveryUserCanLogIn
    <2>6. LinksLeadToEmailOwner'
      <3> SUFFICES ASSUME NEW h \in Identities, NEW n \in DOMAIN links'[h]
                   PROVE  WithEmail(EmailOf(h))' = {links'[h][n]}
        BY DEF LinksLeadToEmailOwner
      <3>1. CASE n \in DOMAIN links[h] /\ links'[h][n] = links[h][n]
        <4>1. WithEmail(EmailOf(h)) = {links[h][n]}
          BY <3>1 DEF IInv, TableInv, LinksLeadToEmailOwner
        <4>2. v.email # EmailOf(h)
          BY <2>1, <4>1 DEF WithEmail
        <4> QED BY <2>1, <3>1, <4>1, <4>2 DEF WithEmail
      <3>2. CASE h = g /\ links'[h][n] = u
        BY <1>1, <2>1, <3>2 DEF WithEmail
      <3> QED BY <2>3, <3>1, <3>2
    <2>7. VerifiedMobileApproved'
      BY <1>1, <1>2, <2>1 DEF IInv, TableInv, VerifiedMobileApproved
    <2>8. RequestInv'
      BY <1>3, <2>1, RequestsKept DEF IInv
    <2> QED BY <2>1, <2>4, <2>5, <2>6, <2>7, <2>8 DEF IInv, TableInv
  <1> QED BY <1>4, <1>5 DEF CreateSSOUser, v

\* The row that is written back has the e-mail that was read and is not verified.
LEMMA UpdateKeeps ==
    ASSUME IInv, NEW p \in Procs, UpdateUser(p)
    PROVE  IInv'
  <1> DEFINE u == account[p]
             v == [read[p] EXCEPT !.name = name[p], !.mobile = mobile[p], !.complete = TRUE]
  <1>1. u \in Registered /\ u \in Users
    BY DEF UpdateUser, IInv, RequestInv, RequestOK, ProfileGiven, ProfileSteps, Registered
  <1>2. v \in User /\ v.email = rows[u].email /\ ~v.verified
    BY DEF UpdateUser, IInv, RequestInv, RequestOK, ProfileGiven, ReadIncomplete, ProfileSteps,
           User
  <1> HIDE DEF v
  <1>3. UNCHANGED <<passwords, links, approved>> /\ Return(p)
    BY DEF UpdateUser
  <1>4. LocalType' /\ OthersIdle(p) /\ RequestOK(p)'
    BY <1>3, ReturnKeeps DEF IInv, TypeOK, LocalType
  <1>5. /\ rows' \in [Users -> User \cup {None}]
        /\ \A w \in Users \ {u} : rows'[w] = rows[w]
        /\ rows'[u] = rows[u] \/ rows'[u] = v
    BY <1>1, <1>2 DEF UpdateUser, IInv, TypeOK, v
  <1>6. Registered' = Registered /\ \A w \in Registered : rows'[w].email = rows[w].email
    BY <1>1, <1>2, <1>5, AccountsAssumption DEF Registered
  <1>7. UsersStay
    BY <1>6 DEF UsersStay
  <1>8. TypeOK'
    BY <1>3, <1>4, <1>5 DEF IInv, TypeOK, LocalType
  <1>9. UniqueEmails'
    BY <1>6 DEF IInv, TableInv, UniqueEmails
  <1>10. \A w \in Registered : rows'[w].verified => rows'[w] = rows[w]
    BY <1>2, <1>5 DEF Registered
  <1>11. VerifiedIsComplete' /\ VerifiedMobileApproved'
    BY <1>3, <1>6, <1>10 DEF IInv, TableInv, VerifiedIsComplete, VerifiedMobileApproved
  <1>12. EveryUserCanLogIn'
    BY <1>3, <1>6 DEF IInv, TableInv, EveryUserCanLogIn
  <1>13. \A e : WithEmail(e)' = WithEmail(e)
    BY <1>6 DEF WithEmail
  <1>14. LinksLeadToEmailOwner'
    BY <1>3, <1>13 DEF IInv, TableInv, LinksLeadToEmailOwner
  <1>15. RequestInv'
    BY <1>4, <1>7, RequestsKept DEF IInv
  <1> QED BY <1>8, <1>9, <1>11, <1>12, <1>14, <1>15 DEF IInv, TableInv

----------------------------------------------------------------------------
LEMMA InvNext == IInv /\ [Next]_vars => IInv'
  <1> SUFFICES ASSUME IInv, [Next]_vars PROVE IInv'
    OBVIOUS
  <1>1. CASE UNCHANGED vars
    <2>1. UNCHANGED tables /\ UNCHANGED <<pc, locals>>
      BY <1>1 DEF vars, tables, locals
    <2>2. TypeOK' /\ TableInv' /\ UsersStay
      BY <2>1, TablesKept DEF IInv, TypeOK, tables, locals
    <2>3. RequestInv'
      BY <2>1, <2>2, OthersKept DEF IInv, RequestInv, locals
    <2> QED BY <2>2, <2>3 DEF IInv
  <1>2. ASSUME NEW p \in Procs, Look(p) PROVE IInv'
    <2>1. UNCHANGED tables /\ LocalType' /\ OthersIdle(p) /\ RequestOK(p)'
      BY <1>2, LookKeeps
    <2>2. TypeOK' /\ TableInv' /\ UsersStay
      BY <2>1, TablesKept DEF IInv, TypeOK, LocalType, tables
    <2> QED BY <2>1, <2>2, RequestsKept DEF IInv
  <1>3. ASSUME NEW p \in Procs,
               LinkSSOAccount(p) \/ CreateSSOUser(p) \/ UpdateUser(p)
        PROVE  IInv'
    BY <1>3, LinkKeeps, CreateKeeps, UpdateKeeps
  <1>4. ASSUME NEW n \in Names, NEW e \in Emails, NEW m \in Mobiles, RegisterUser(n, e, m)
        PROVE  IInv'
    BY <1>4, RegisterKeeps
  <1> QED BY <1>1, <1>2, <1>3, <1>4 DEF Next, GoogleStep, ProfileStep, Look

LEMMA Invariance == Spec => []IInv
  <1>1. Init => IInv
    BY InvInit
  <1>2. IInv /\ [Next]_vars => IInv'
    BY InvNext
  <1> QED BY <1>1, <1>2, PTL DEF Spec

\* Every variable of Accounts keeps its type: a link always names a user, and a request
\* never works on an identity, user or name it has not been given or read.
THEOREM TypeCorrect == Spec => []TypeOK
  <1>1. IInv => TypeOK
    BY DEF IInv
  <1> QED BY <1>1, Invariance, PTL

\* Every user has a password or a Google identity: RegisterUser and CreateSSOUser store
\* the user together with it, and nothing takes it away.
THEOREM UsersCanLogIn == Spec => []EveryUserCanLogIn
  <1>1. IInv => EveryUserCanLogIn
    BY DEF IInv, TableInv
  <1> QED BY <1>1, Invariance, PTL

\* However many logins link one identity and in whatever order their lookups run, all its
\* rows lead to the one user with its e-mail.
THEOREM LinksAreRight == Spec => []LinksLeadToEmailOwner
  <1>1. IInv => LinksLeadToEmailOwner
    BY DEF IInv, TableInv
  <1> QED BY <1>1, Invariance, PTL

\* A profile completion that writes mobile_verified back as it read it never verifies a
\* mobile, and never moves a verified user to another mobile.
THEOREM MobilesAreApproved == Spec => []VerifiedMobileApproved
  <1>1. IInv => VerifiedMobileApproved
    BY DEF IInv, TableInv
  <1> QED BY <1>1, Invariance, PTL
----------------------------------------------------------------------------
(***************************************************************************)
(* The unique index on mobiles.                                            *)
(***************************************************************************)
UniqueMobiles ==
    \A u, v \in Registered :
        rows[u].mobile # None /\ rows[u].mobile = rows[v].mobile => u = v

LEMMA StoreKeepsMobiles ==
    ASSUME TypeOK, UniqueMobiles, NEW u \in Users, NEW v, Unique(u, v),
           rows' = [rows EXCEPT ![u] = v]
    PROVE  UniqueMobiles'
  <1>1. rows'[u] = v /\ \A w \in Users \ {u} : rows'[w] = rows[w]
    BY DEF TypeOK
  <1>2. \A w \in Registered' : w \in Users /\ (w # u => w \in Registered)
    BY <1>1 DEF Registered
  <1>3. \A w \in Registered \ {u} : v.mobile # None => rows[w].mobile # v.mobile
    BY DEF Unique, WithMobile
  <1> QED BY <1>1, <1>2, <1>3 DEF UniqueMobiles

LEMMA NextKeepsMobiles ==
    ASSUME TypeOK, RequestInv, UniqueMobiles, [Next]_vars
    PROVE  UniqueMobiles'
  <1>1. ASSUME UNCHANGED rows PROVE UniqueMobiles'
    BY <1>1 DEF UniqueMobiles, Registered
  <1>2. CASE UNCHANGED vars
    BY <1>1, <1>2 DEF vars, tables
  <1>3. ASSUME NEW n \in Names, NEW e \in Emails, NEW m \in Mobiles, RegisterUser(n, e, m)
        PROVE  UniqueMobiles'
    BY <1>3, StoreKeepsMobiles DEF RegisterUser, Insert
  <1>4. ASSUME NEW p \in Procs, CreateSSOUser(p) PROVE UniqueMobiles'
    BY <1>1, <1>4, StoreKeepsMobiles DEF CreateSSOUser, Insert
  <1>5. ASSUME NEW p \in Procs, UpdateUser(p) PROVE UniqueMobiles'
    <2>1. account[p] \in Users
      BY <1>5 DEF UpdateUser, RequestInv, RequestOK, ProfileGiven, ProfileSteps, Registered
    <2> QED BY <1>1, <1>5, <2>1, StoreKeepsMobiles DEF UpdateUser
  <1>6. ASSUME NEW p \in Procs, GoogleStep(p) \/ ProfileStep(p) \/ Abort(p),
               ~CreateSSOUser(p), ~UpdateUser(p)
        PROVE  UNCHANGED rows
    BY <1>6 DEF GoogleStep, ProfileStep, Abort, GoogleLogin, GetSSOAccount, GetUserByEmail,
                LinkSSOAccount, ChooseUsername, CompleteProfile, GetUserByID, CheckName,
                CheckMobile, Check, tables
  <1> QED BY <1>1, <1>2, <1>3, <1>4, <1>5, <1>6 DEF Next

\* The unique index on the mobile, as the fact about stored rows that OneAccount of
\* RegistrationProofs joins with the normaliser.
LEMMA MobilesAreUnique == Spec => []UniqueMobiles
  <1>1. Init => UniqueMobiles
    BY DEF Init, UniqueMobiles, Registered
  <1>2. IInv /\ UniqueMobiles /\ [Next]_vars => UniqueMobiles'
    BY NextKeepsMobiles DEF IInv
  <1> QED BY <1>1, <1>2, InvInit, InvNext, PTL DEF Spec
=============================================================================
