----------------------------- MODULE Accounts -----------------------------
(***************************************************************************)
(* The users table with its passwords and SSO accounts                     *)
(* (dbase/userdao/postgres.go), and the three operations of                *)
(* auth/service/service.go that write it: the end of a signup, a Google    *)
(* login, which finds, links or creates an account, and the completion of  *)
(* a profile.  Usernames, e-mails and mobiles have unique indices; the     *)
(* SSO accounts have none, since GORM ignores the blank field that         *)
(* declares it, so one identity may be linked more than once.              *)
(*                                                                         *)
(* The user cache is left to module Sessions.  Here a lookup by username   *)
(* may, with Faults, answer either way.                                    *)
(***************************************************************************)
EXTENDS Naturals, Sequences, FiniteSets

CONSTANTS
    Procs,           \* request slots
    Users,           \* ids of the users table: bounds how many are created
    Identities,      \* Google accounts
    EmailOf(_),      \* the e-mail Google reports for an account
    Emails, Names, Mobiles,
    LocalPart(_),    \* the part of an e-mail before the @
    Suffixed(_, _),  \* the username with a suffix made from the clock
    Suffixes,        \* time.Now().Unix() % 1000
    Faults,          \* do calls fail and requests end early
    None

User ==
    [name : Names, email : Emails, mobile : Mobiles \cup {None},
     verified : BOOLEAN, complete : BOOLEAN]

ASSUME AccountsAssumption ==
    /\ Faults \in BOOLEAN
    /\ None \notin User /\ None \notin Users /\ None \notin Identities
    /\ None \notin Names /\ None \notin Mobiles
    /\ \A g \in Identities : EmailOf(g) \in Emails
    /\ \A e \in Emails : LocalPart(e) \in Names
    /\ \A n \in Names, s \in Suffixes : Suffixed(n, s) \in Names

VARIABLES
    rows,       \* the users table
    passwords,  \* users with a row in the passwords table
    links,      \* the SSO accounts: the users an identity is linked to, oldest row first
    approved,   \* history: <<user, mobile>> whose verification was approved
    pc,         \* next step of each request
    google,     \* the identity of a Google login
    account,    \* the user it has found, or whose profile is completed
    read,       \* that user as it was read
    name,       \* the username it is about to store
    mobile      \* and the mobile

tables == <<rows, passwords, links, approved>>
locals == <<google, account, read, name, mobile>>
vars == <<tables, pc, locals>>

Steps == {"idle", "sso", "email", "link", "username", "create",
          "byId", "name", "mobile", "update"}

TypeOK ==
    /\ rows \in [Users -> User \cup {None}]
    /\ passwords \subseteq Users
    /\ links \in [Identities -> Seq(Users)]
    /\ approved \subseteq Users \X Mobiles
    /\ pc \in [Procs -> Steps]
    /\ google \in [Procs -> Identities \cup {None}]
    /\ account \in [Procs -> Users \cup {None}]
    /\ read \in [Procs -> User \cup {None}]
    /\ name \in [Procs -> Names \cup {None}]
    /\ mobile \in [Procs -> Mobiles \cup {None}]

Init ==
    /\ rows = [u \in Users |-> None]
    /\ passwords = {}
    /\ links = [g \in Identities |-> <<>>]
    /\ approved = {}
    /\ pc = [p \in Procs |-> "idle"]
    /\ google = [p \in Procs |-> None]
    /\ account = [p \in Procs |-> None]
    /\ read = [p \in Procs |-> None]
    /\ name = [p \in Procs |-> None]
    /\ mobile = [p \in Procs |-> None]

Goto(p, s) == pc' = [pc EXCEPT ![p] = s]

Return(p) ==
    /\ Goto(p, "idle")
    /\ google' = [google EXCEPT ![p] = None]
    /\ account' = [account EXCEPT ![p] = None]
    /\ read' = [read EXCEPT ![p] = None]
    /\ name' = [name EXCEPT ![p] = None]
    /\ mobile' = [mobile EXCEPT ![p] = None]

----------------------------------------------------------------------------
(***************************************************************************)
(* The table: lookups, and the unique indices a stored row meets.          *)
(***************************************************************************)
Registered == {u \in Users : rows[u] # None}
WithName(n) == {u \in Registered : rows[u].name = n}
WithEmail(e) == {u \in Registered : rows[u].email = e}
WithMobile(m) == {u \in Registered : rows[u].mobile = m}

\* Can the row v be stored under id u?
Unique(u, v) ==
    /\ WithName(v.name) \subseteq {u}
    /\ WithEmail(v.email) \subseteq {u}
    /\ v.mobile # None => WithMobile(v.mobile) \subseteq {u}

Insert(u, v) ==
    /\ rows[u] = None
    /\ Unique(u, v)
    /\ rows' = [rows EXCEPT ![u] = v]

----------------------------------------------------------------------------
(***************************************************************************)
(* The end of a signup: the mobile has been approved; the user and the     *)
(* password are inserted in one transaction.  Module Registration has the  *)
(* requests that lead to it.                                               *)
(***************************************************************************)
RegisterUser(n, e, m) ==
    /\ \E u \in Users :
          /\ Insert(u, [name |-> n, email |-> e, mobile |-> m,
                        verified |-> TRUE, complete |-> TRUE])
          /\ passwords' = passwords \cup {u}
          /\ approved' = approved \cup {<<u, m>>}
    /\ UNCHANGED <<links, pc, locals>>

----------------------------------------------------------------------------
(***************************************************************************)
(* Google login, from the identity Google has confirmed.  Each lookup is a *)
(* call of its own, and so is what is stored in the end.  The tokens it    *)
(* issues are module Sessions'.                                            *)
(***************************************************************************)
GoogleLogin(p) ==
    /\ pc[p] = "idle"
    /\ \E g \in Identities : google' = [google EXCEPT ![p] = g]
    /\ Goto(p, "sso")
    /\ UNCHANGED <<tables, account, read, name, mobile>>

\* An identity that is linked logs in as the user of its oldest row.
GetSSOAccount(p) ==
    /\ pc[p] = "sso"
    /\ IF links[google[p]] # <<>>
       THEN Return(p)
       ELSE Goto(p, "email") /\ UNCHANGED locals
    /\ UNCHANGED tables

\* Mutant of GetUserByEmail: the user is looked up by the username made from the e-mail.
GetUserByLocalPart(p) ==
    LET found == WithName(LocalPart(EmailOf(google[p])))
    IN  /\ pc[p] = "email"
        /\ \/ /\ \E u \in found : account' = [account EXCEPT ![p] = u]
              /\ Goto(p, "link")
           \/ found = {} /\ Goto(p, "username") /\ UNCHANGED account
        /\ UNCHANGED <<tables, google, read, name, mobile>>

GetUserByEmail(p) ==
    LET found == WithEmail(EmailOf(google[p]))
    IN  /\ pc[p] = "email"
        /\ \/ /\ \E u \in found : account' = [account EXCEPT ![p] = u]
              /\ Goto(p, "link")
           \/ found = {} /\ Goto(p, "username") /\ UNCHANGED account
        /\ UNCHANGED <<tables, google, read, name, mobile>>

\* Mutant of LinkSSOAccount: the row is stored with no user in it.
LinkNobody(p) ==
    /\ pc[p] = "link"
    /\ links' = [links EXCEPT ![google[p]] = Append(@, None)]
    /\ Return(p)
    /\ UNCHANGED <<rows, passwords, approved>>

LinkSSOAccount(p) ==
    /\ pc[p] = "link"
    /\ links' = [links EXCEPT ![google[p]] = Append(@, account[p])]
    /\ Return(p)
    /\ UNCHANGED <<rows, passwords, approved>>

\* The e-mail's local part, with a suffix if a user has that name; the suffix is not checked.
ChooseUsername(p) ==
    LET plain == LocalPart(EmailOf(google[p]))
    IN  /\ pc[p] = "username"
        /\ \/ /\ WithName(plain) = {} \/ Faults
              /\ name' = [name EXCEPT ![p] = plain]
           \/ /\ WithName(plain) # {} \/ Faults
              /\ \E s \in Suffixes : name' = [name EXCEPT ![p] = Suffixed(plain, s)]
        /\ Goto(p, "create")
        /\ UNCHANGED <<tables, google, account, read, mobile>>

SSOUser(p) ==
    [name |-> name[p], email |-> EmailOf(google[p]), mobile |-> None,
     verified |-> FALSE, complete |-> FALSE]

\* Mutant of CreateSSOUser: without the transaction, the user stays when the link fails.
CreateSSOUserNoTransaction(p) ==
    /\ pc[p] = "create"
    /\ \E u \in Users :
          /\ Insert(u, SSOUser(p))
          /\ \/ links' = [links EXCEPT ![google[p]] = Append(@, u)]
             \/ Faults /\ UNCHANGED links
    /\ Return(p)
    /\ UNCHANGED <<passwords, approved>>

\* User and link in one transaction.  Bound: without an id left it fails as well.
CreateSSOUser(p) ==
    /\ pc[p] = "create"
    /\ \/ \E u \in Users :
             /\ Insert(u, SSOUser(p))
             /\ links' = [links EXCEPT ![google[p]] = Append(@, u)]
       \/ /\ Registered = Users \/ WithName(name[p]) # {} \/ WithEmail(EmailOf(google[p])) # {}
          /\ UNCHANGED <<rows, links>>
    /\ Return(p)
    /\ UNCHANGED <<passwords, approved>>

----------------------------------------------------------------------------
(***************************************************************************)
(* Completion of a profile.  The mobile it stores is not verified, and     *)
(* mobile_verified is written back as it was read.                         *)
(***************************************************************************)
CompleteProfile(p) ==
    /\ pc[p] = "idle"
    /\ \E u \in Registered, n \in Names, m \in Mobiles :
          /\ account' = [account EXCEPT ![p] = u]
          /\ name' = [name EXCEPT ![p] = n]
          /\ mobile' = [mobile EXCEPT ![p] = m]
    /\ Goto(p, "byId")
    /\ UNCHANGED <<tables, google, read>>

\* Mutant of GetUserByID: a profile that is complete is not refused.
GetUserByIDUnchecked(p) ==
    /\ pc[p] = "byId"
    /\ read' = [read EXCEPT ![p] = rows[account[p]]]
    /\ Goto(p, "name")
    /\ UNCHANGED <<tables, google, account, name, mobile>>

GetUserByID(p) ==
    LET row == rows[account[p]]
    IN  /\ pc[p] = "byId"
        /\ IF row.complete
           THEN Return(p)
           ELSE /\ read' = [read EXCEPT ![p] = row]
                /\ Goto(p, "name")
                /\ UNCHANGED <<google, account, name, mobile>>
        /\ UNCHANGED tables

\* Only another user is in the way; a lookup that fails counts as free.
Check(p, here, found, next) ==
    /\ pc[p] = here
    /\ \/ /\ ~(found \subseteq {account[p]})
          /\ Return(p)
       \/ /\ found \subseteq {account[p]} \/ Faults
          /\ Goto(p, next)
          /\ UNCHANGED locals
    /\ UNCHANGED tables

CheckName(p) == Check(p, "name", WithName(name[p]), "mobile")
CheckMobile(p) == Check(p, "mobile", WithMobile(mobile[p]), "update")

UpdateUser(p) ==
    LET u == account[p]
        v == [read[p] EXCEPT !.name = name[p], !.mobile = mobile[p], !.complete = TRUE]
    IN  /\ pc[p] = "update"
        /\ rows' = IF Unique(u, v) THEN [rows EXCEPT ![u] = v] ELSE rows
        /\ Return(p)
        /\ UNCHANGED <<passwords, links, approved>>

----------------------------------------------------------------------------
Abort(p) ==
    /\ Faults
    /\ pc[p] # "idle"
    /\ Return(p)
    /\ UNCHANGED tables

GoogleStep(p) ==
    \/ GoogleLogin(p) \/ GetSSOAccount(p) \/ GetUserByEmail(p) \/ LinkSSOAccount(p)
    \/ ChooseUsername(p) \/ CreateSSOUser(p)

ProfileStep(p) ==
    \/ CompleteProfile(p) \/ GetUserByID(p) \/ CheckName(p) \/ CheckMobile(p) \/ UpdateUser(p)

Next ==
    \/ \E n \in Names, e \in Emails, m \in Mobiles : RegisterUser(n, e, m)
    \/ \E p \in Procs : GoogleStep(p) \/ ProfileStep(p) \/ Abort(p)

Spec == Init /\ [][Next]_vars

----------------------------------------------------------------------------
(***************************************************************************)
(* Properties.                                                             *)
(***************************************************************************)

\* Every user can log in: with a password, or with a Google identity linked to it, whatever
\* fails while it is created.
EveryUserCanLogIn ==
    \A u \in Registered :
        u \in passwords \/ \E g \in Identities : \E n \in DOMAIN links[g] : links[g][n] = u

\* An identity leads to the user who has its e-mail, and to no other, however many logins
\* have linked it and whether the user came from a signup or from Google.
LinksLeadToEmailOwner ==
    \A g \in Identities : \A n \in DOMAIN links[g] : WithEmail(EmailOf(g)) = {links[g][n]}

\* A verified mobile, with which OTP login is allowed, is one that was approved for that
\* user: completing a profile changes the mobile and writes mobile_verified back.
VerifiedMobileApproved ==
    \A u \in Registered : rows[u].verified => <<u, rows[u].mobile>> \in approved
=============================================================================
