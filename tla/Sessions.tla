----------------------------- MODULE Sessions -----------------------------
(***************************************************************************)
(* Sessions: the tokens that auth/service/service.go issues, refreshes and *)
(* deletes, the profile completion that renames an account, and the cache  *)
(* of users by username that all of them read through                      *)
(* (auth/cached_repository.go).  Access tokens are self-contained: a token *)
(* issued once is good until it expires, so the set of issued claims only  *)
(* grows.  A token names its account by username alone; the account it was *)
(* issued for is kept beside it as history.                                *)
(***************************************************************************)
EXTENDS Naturals, FiniteSets

CONSTANTS
    Procs,     \* request slots
    Users,     \* ids of the users table
    Names,     \* usernames
    Tokens,    \* refresh tokens: bounds how many are ever issued
    Cached,    \* TRUE: Redis, with a user cache; FALSE: in-memory stores, no cache
    Faults,    \* do calls fail and requests end early
    None

\* auth.User as far as a session sees it: also a row of the users table.
User == [id : Users, name : Names, complete : BOOLEAN]

ASSUME SessionsAssumption ==
    /\ Cached \in BOOLEAN
    /\ Faults \in BOOLEAN
    /\ None \notin User \cup Tokens \cup Names
    /\ IsFiniteSet(Tokens) /\ IsFiniteSet(Procs)

VARIABLES
    rows,      \* the users table
    cache,     \* the user cache, by username
    sessions,  \* the refresh store: the user of each session
    old,       \* tokens past their expiry
    used,      \* tokens that have been issued
    claims,    \* access tokens that have been issued
    pc,        \* next step of each request
    token,     \* the refresh token a request presents
    bearer,    \* the claims of the access token a request presents
    acct,      \* the account CompleteProfile is about to update
    want,      \* the username it wants
    user,      \* the user a request has looked up
    exchanged  \* history: how often a token was exchanged by Refresh, up to 2

locals == <<pc, token, bearer, acct, want, user>>
vars == <<rows, cache, sessions, old, used, claims,
          pc, token, bearer, acct, want, user, exchanged>>

Steps == {"idle", "get", "age", "drop", "refCache", "refTable", "refFill", "rotate",
          "logCache", "logTable", "logFill", "issue", "logout",
          "proCache", "proTable", "proFill", "byId",
          "nameCache", "nameTable", "nameFill", "nameFound", "mobile", "mobileFill",
          "update", "invalidate",
          "alreadyComplete", "userNotFound"}

TypeOK ==
    /\ rows \in [Users -> User \cup {None}]
    /\ cache \in [Names -> User \cup {None}]
    /\ sessions \in [Tokens -> User \cup {None}]
    /\ old \subseteq Tokens
    /\ used \subseteq Tokens
    /\ claims \subseteq User
    /\ pc \in [Procs -> Steps]
    /\ token \in [Procs -> Tokens \cup {None}]
    /\ bearer \in [Procs -> User \cup {None}]
    /\ acct \in [Procs -> User \cup {None}]
    /\ want \in [Procs -> Names \cup {None}]
    /\ user \in [Procs -> User \cup {None}]
    /\ exchanged \in [Tokens -> 0..2]

Init ==
    /\ rows = [u \in Users |-> None]
    /\ cache = [n \in Names |-> None]
    /\ sessions = [t \in Tokens |-> None]
    /\ old = {}
    /\ used = {}
    /\ claims = {}
    /\ pc = [p \in Procs |-> "idle"]
    /\ token = [p \in Procs |-> None]
    /\ bearer = [p \in Procs |-> None]
    /\ acct = [p \in Procs |-> None]
    /\ want = [p \in Procs |-> None]
    /\ user = [p \in Procs |-> None]
    /\ exchanged = [t \in Tokens |-> 0]

Goto(p, s) ==
    /\ pc' = [pc EXCEPT ![p] = s]
    /\ UNCHANGED <<token, bearer, acct, want, user>>

Return(p) ==
    /\ pc' = [pc EXCEPT ![p] = "idle"]
    /\ token' = [token EXCEPT ![p] = None]
    /\ bearer' = [bearer EXCEPT ![p] = None]
    /\ acct' = [acct EXCEPT ![p] = None]
    /\ want' = [want EXCEPT ![p] = None]
    /\ user' = [user EXCEPT ![p] = None]

\* The request goes on to s with the user v it has looked up.
Found(p, v, s) ==
    /\ pc' = [pc EXCEPT ![p] = s]
    /\ user' = [user EXCEPT ![p] = v]
    /\ UNCHANGED <<token, bearer, acct, want>>

\* Bound: a request that may issue a token starts only while one is left for it.
TokenLeft ==
    Cardinality(Tokens \ used) > Cardinality({q \in Procs : pc[q] # "idle"})

----------------------------------------------------------------------------
(***************************************************************************)
(* The cached user repository: read the cache; on a miss read the table,   *)
(* then fill the cache with what was read.  The three are separate calls.  *)
(***************************************************************************)
Holder(n) == {u \in Users : rows[u] # None /\ rows[u].name = n}

\* cache.GetUser: an error counts as a miss.
CacheGet(p, here, n, hit, miss) ==
    /\ pc[p] = here
    /\ \/ Cached /\ cache[n] # None /\ Found(p, cache[n], hit)
       \/ (Cached => cache[n] = None \/ Faults) /\ Goto(p, miss)
    /\ UNCHANGED <<rows, cache, sessions, old, used, claims, exchanged>>

\* store.GetUserDetailsByUsername; absent is what a missing user leads to.
TableGet(p, here, n, next, absent) ==
    /\ pc[p] = here
    /\ \/ \E u \in Holder(n) : Found(p, rows[u], next)
       \/ Holder(n) = {} /\ absent
    /\ UNCHANGED <<rows, cache, sessions, old, used, claims, exchanged>>

\* cache.SetUser
SetUser(v) == cache' = IF Cached THEN [cache EXCEPT ![v.name] = v] ELSE cache

\* The error of SetUser is ignored.
CacheFill(p, here, next) ==
    /\ pc[p] = here
    /\ SetUser(user[p]) \/ (Faults /\ UNCHANGED cache)
    /\ Goto(p, next)
    /\ UNCHANGED <<rows, sessions, old, used, claims, exchanged>>

----------------------------------------------------------------------------
(***************************************************************************)
(* Login.  A password login looks the user up by username; an OTP login by *)
(* mobile, past the cache, and fills it; a Google login by its SSO account *)
(* or e-mail.  The credentials have been checked where the user is known.  *)
(* A signup (whose profile is complete) and a first Google login (whose is *)
(* not) create the user, fill the cache with it and issue its tokens.      *)
(***************************************************************************)
CreateUser(p) ==
    /\ pc[p] = "idle" /\ TokenLeft
    /\ \E u \in Users, n \in Names, complete \in BOOLEAN :
          LET created == [id |-> u, name |-> n, complete |-> complete]
          IN  /\ rows[u] = None /\ Holder(n) = {}
              /\ rows' = [rows EXCEPT ![u] = created]
              /\ Found(p, created, "logFill")
    /\ UNCHANGED <<cache, sessions, old, used, claims, exchanged>>

Login(p) ==
    /\ pc[p] = "idle" /\ TokenLeft
    /\ \E n \in Names :
          /\ want' = [want EXCEPT ![p] = n]
          /\ pc' = [pc EXCEPT ![p] = "logCache"]
    /\ UNCHANGED <<rows, cache, sessions, old, used, claims, exchanged>>
    /\ UNCHANGED <<token, bearer, acct, user>>

LoginCache(p) == CacheGet(p, "logCache", want[p], "issue", "logTable")
LoginTable(p) == TableGet(p, "logTable", want[p], "logFill", Return(p))
LoginFill(p) == CacheFill(p, "logFill", "issue")

LoginDirect(p) ==
    /\ pc[p] = "idle" /\ TokenLeft
    /\ \E u \in Users, next \in {"logFill", "issue"} :
          rows[u] # None /\ Found(p, rows[u], next)
    /\ UNCHANGED <<rows, cache, sessions, old, used, claims, exchanged>>

\* Mutant of IssueTokenPair: a refresh keeps the token it was given and extends it.
IssueTokenPairSameToken(p) ==
    /\ pc[p] = "issue"
    /\ \E t \in IF token[p] = None THEN Tokens \ used ELSE {token[p]} :
          /\ used' = used \cup {t}
          /\ sessions' = [sessions EXCEPT ![t] = user[p]]
    /\ claims' = claims \cup {user[p]}
    /\ Return(p)
    /\ UNCHANGED <<rows, cache, old, exchanged>>

(***************************************************************************)
(* IssueTokenPair: a new refresh token is saved, and both tokens are       *)
(* handed out.  The session holds the user's id and username; whether the  *)
(* profile was complete is history there and a claim of the access token.  *)
(***************************************************************************)
IssueTokenPair(p) ==
    /\ pc[p] = "issue"
    /\ \E t \in Tokens \ used :
          /\ used' = used \cup {t}
          /\ sessions' = [sessions EXCEPT ![t] = user[p]]
    /\ claims' = claims \cup {user[p]}
    /\ exchanged' = IF token[p] = None THEN exchanged
                    ELSE [exchanged EXCEPT ![token[p]] = IF @ = 2 THEN 2 ELSE @ + 1]
    /\ Return(p)
    /\ UNCHANGED <<rows, cache, old>>

----------------------------------------------------------------------------
(***************************************************************************)
(* Refresh and Logout.                                                     *)
(***************************************************************************)
Present(p, next) ==
    /\ pc[p] = "idle"
    /\ \E t \in used :
          /\ token' = [token EXCEPT ![p] = t]
          /\ pc' = [pc EXCEPT ![p] = next]
    /\ UNCHANGED <<rows, cache, sessions, old, used, claims, exchanged>>
    /\ UNCHANGED <<bearer, acct, want, user>>

Refresh(p) == TokenLeft /\ Present(p, "get")

\* refreshStore.Get: the in-memory store deletes an expired session when it meets it.
GetSession(p) ==
    LET t == token[p]
        expired == ~Cached /\ t \in old
    IN  /\ pc[p] = "get"
        /\ sessions' = IF expired THEN [sessions EXCEPT ![t] = None] ELSE sessions
        /\ IF sessions[t] = None \/ expired THEN Return(p) ELSE Found(p, sessions[t], "age")
        /\ UNCHANGED <<rows, cache, old, used, claims, exchanged>>

CheckExpiry(p) ==
    /\ pc[p] = "age"
    /\ Goto(p, IF token[p] \in old THEN "drop" ELSE "refCache")
    /\ UNCHANGED <<rows, cache, sessions, old, used, claims, exchanged>>

\* refreshStore.Delete, whose error Refresh ignores: the request goes on either way.
DeleteSession(p, here, then) ==
    /\ pc[p] = here
    /\ \/ sessions' = [sessions EXCEPT ![token[p]] = None]
       \/ Faults /\ UNCHANGED sessions
    /\ then
    /\ UNCHANGED <<rows, cache, old, used, claims, exchanged>>

DropExpired(p) == DeleteSession(p, "drop", Return(p))

\* The user is looked up by the username in the session.
RefreshCache(p) == CacheGet(p, "refCache", user[p].name, "rotate", "refTable")
RefreshTable(p) == TableGet(p, "refTable", user[p].name, "refFill", Return(p))
RefreshFill(p) == CacheFill(p, "refFill", "rotate")

\* Mutant of Rotate: the old session is left to expire.
RotateKeepsSession(p) ==
    /\ pc[p] = "rotate"
    /\ Goto(p, "issue")
    /\ UNCHANGED <<rows, cache, sessions, old, used, claims, exchanged>>

Rotate(p) == DeleteSession(p, "rotate", Goto(p, "issue"))

Logout(p) == Present(p, "logout")

\* The error of Logout's Delete is returned: the client is told.
LogoutDelete(p) ==
    /\ pc[p] = "logout"
    /\ sessions' = [sessions EXCEPT ![token[p]] = None]
    /\ Return(p)
    /\ UNCHANGED <<rows, cache, old, used, claims, exchanged>>

----------------------------------------------------------------------------
(***************************************************************************)
(* POST /auth/profile/complete: requirePartialAccessToken looks the bearer *)
(* up by username, CompleteProfile reads the account by id, checks that    *)
(* the username and the mobile are free, writes the whole row back, drops  *)
(* the cache entry of the new username and issues tokens.  A refusal stays *)
(* visible for one step.                                                   *)
(***************************************************************************)
CompleteProfile(p) ==
    /\ pc[p] = "idle" /\ TokenLeft
    /\ \E c \in claims, n \in Names :
          /\ bearer' = [bearer EXCEPT ![p] = c]
          /\ want' = [want EXCEPT ![p] = n]
    /\ pc' = [pc EXCEPT ![p] = "proCache"]
    /\ UNCHANGED <<rows, cache, sessions, old, used, claims, exchanged>>
    /\ UNCHANGED <<token, acct, user>>

ProfileCache(p) == CacheGet(p, "proCache", bearer[p].name, "byId", "proTable")

ProfileTable(p) ==
    TableGet(p, "proTable", bearer[p].name, "proFill", Goto(p, "userNotFound"))

ProfileFill(p) == CacheFill(p, "proFill", "byId")

\* Mutant of ReadAccount: a complete profile is completed again.
ReadAccountUnchecked(p) ==
    /\ pc[p] = "byId"
    /\ acct' = [acct EXCEPT ![p] = rows[user[p].id]]
    /\ pc' = [pc EXCEPT ![p] = "nameCache"]
    /\ UNCHANGED <<token, bearer, want, user>>
    /\ UNCHANGED <<rows, cache, sessions, old, used, claims, exchanged>>

\* GetUserByID, never cached, and the test of is_profile_complete.
ReadAccount(p) ==
    LET row == rows[user[p].id]
    IN  /\ pc[p] = "byId"
        /\ acct' = [acct EXCEPT ![p] = row]
        /\ pc' = [pc EXCEPT ![p] = IF row.complete THEN "alreadyComplete" ELSE "nameCache"]
        /\ UNCHANGED <<token, bearer, want, user>>
        /\ UNCHANGED <<rows, cache, sessions, old, used, claims, exchanged>>

\* Is the username taken?  Only a user with another id is in the way; an error of the
\* lookup counts as free.
NameCache(p) == CacheGet(p, "nameCache", want[p], "nameFound", "nameTable")

NameTable(p) ==
    \/ TableGet(p, "nameTable", want[p], "nameFill", Goto(p, "mobile"))
    \/ /\ Faults /\ pc[p] = "nameTable"
       /\ Goto(p, "mobile")
       /\ UNCHANGED <<rows, cache, sessions, old, used, claims, exchanged>>

NameFill(p) == CacheFill(p, "nameFill", "nameFound")

NameFound(p) ==
    /\ pc[p] = "nameFound"
    /\ IF user[p].id # acct[p].id THEN Return(p) ELSE Goto(p, "mobile")
    /\ UNCHANGED <<rows, cache, sessions, old, used, claims, exchanged>>

(***************************************************************************)
(* Is the mobile taken?  Mobiles are not modelled: the lookup, past the    *)
(* cache, may find any user whose profile is complete; it fills the cache  *)
(* with it before the ids are compared.  An error counts as free.          *)
(***************************************************************************)
MobileLookup(p) ==
    /\ pc[p] = "mobile"
    /\ \/ Goto(p, "update")
       \/ \E u \in Users :
             rows[u] # None /\ rows[u].complete /\ Found(p, rows[u], "mobileFill")
    /\ UNCHANGED <<rows, cache, sessions, old, used, claims, exchanged>>

MobileFill(p) ==
    /\ pc[p] = "mobileFill"
    /\ SetUser(user[p]) \/ (Faults /\ UNCHANGED cache)
    /\ IF user[p].id # acct[p].id THEN Return(p) ELSE Goto(p, "update")
    /\ UNCHANGED <<rows, sessions, old, used, claims, exchanged>>

\* Mutant of UpdateUser: the error of the update is ignored.
UpdateUserErrorIgnored(p) ==
    LET completed == [id |-> acct[p].id, name |-> want[p], complete |-> TRUE]
    IN  /\ pc[p] = "update"
        /\ rows' = IF Holder(want[p]) \subseteq {acct[p].id}
                   THEN [rows EXCEPT ![acct[p].id] = completed]
                   ELSE rows
        /\ Found(p, completed, "invalidate")
        /\ UNCHANGED <<cache, sessions, old, used, claims, exchanged>>

\* Mutant of UpdateUser: an empty username gets through.
UpdateUserEmptyName(p) ==
    LET completed == [id |-> acct[p].id, name |-> None, complete |-> TRUE]
    IN  /\ pc[p] = "update"
        /\ rows' = [rows EXCEPT ![acct[p].id] = completed]
        /\ Found(p, completed, "invalidate")
        /\ UNCHANGED <<cache, sessions, old, used, claims, exchanged>>

\* UpdateUser: the row is overwritten with what was read, renamed and completed.
UpdateUser(p) ==
    LET completed == [id |-> acct[p].id, name |-> want[p], complete |-> TRUE]
    IN  /\ pc[p] = "update"
        /\ IF Holder(want[p]) \subseteq {acct[p].id}
           THEN /\ rows' = [rows EXCEPT ![acct[p].id] = completed]
                /\ Found(p, completed, "invalidate")
           ELSE Return(p) /\ UNCHANGED rows
        /\ UNCHANGED <<cache, sessions, old, used, claims, exchanged>>

\* cache.DeleteUser under the username of the updated user, its error ignored.
Invalidate(p) ==
    /\ pc[p] = "invalidate"
    /\ \/ cache' = [cache EXCEPT ![user[p].name] = None]
       \/ Faults /\ UNCHANGED cache
    /\ Found(p, user[p], "issue")
    /\ UNCHANGED <<rows, sessions, old, used, claims, exchanged>>

Refused(p) ==
    /\ pc[p] \in {"alreadyComplete", "userNotFound"}
    /\ Return(p)
    /\ UNCHANGED <<rows, cache, sessions, old, used, claims, exchanged>>

----------------------------------------------------------------------------
(***************************************************************************)
(* The environment.                                                        *)
(***************************************************************************)

\* A refresh token passes its expiry; Redis drops its key.
Expire(t) ==
    /\ t \in used \ old
    /\ old' = old \cup {t}
    /\ sessions' = IF Cached THEN [sessions EXCEPT ![t] = None] ELSE sessions
    /\ UNCHANGED <<rows, cache, used, claims, locals, exchanged>>

\* A cache entry's time to live runs out.
Evict(n) ==
    /\ cache[n] # None
    /\ cache' = [cache EXCEPT ![n] = None]
    /\ UNCHANGED <<rows, sessions, old, used, claims, locals, exchanged>>

Abort(p) ==
    /\ Faults
    /\ pc[p] \notin {"idle", "alreadyComplete", "userNotFound"}
    /\ Return(p)
    /\ UNCHANGED <<rows, cache, sessions, old, used, claims, exchanged>>

LoginStep(p) ==
    \/ CreateUser(p) \/ Login(p) \/ LoginDirect(p)
    \/ LoginCache(p) \/ LoginTable(p) \/ LoginFill(p)

RefreshStep(p) ==
    \/ Refresh(p) \/ GetSession(p) \/ CheckExpiry(p) \/ DropExpired(p)
    \/ RefreshCache(p) \/ RefreshTable(p) \/ RefreshFill(p) \/ Rotate(p)

LogoutStep(p) == Logout(p) \/ LogoutDelete(p)

ProfileStep(p) ==
    \/ CompleteProfile(p) \/ ProfileCache(p) \/ ProfileTable(p) \/ ProfileFill(p)
    \/ ReadAccount(p) \/ NameCache(p) \/ NameTable(p) \/ NameFill(p) \/ NameFound(p)
    \/ MobileLookup(p) \/ MobileFill(p) \/ UpdateUser(p) \/ Invalidate(p) \/ Refused(p)

Next ==
    \/ \E p \in Procs : \/ LoginStep(p) \/ RefreshStep(p) \/ LogoutStep(p)
                        \/ ProfileStep(p) \/ IssueTokenPair(p) \/ Abort(p)
    \/ \E t \in Tokens : Expire(t)
    \/ \E n \in Names : Evict(n)

Spec == Init /\ [][Next]_vars

----------------------------------------------------------------------------
(***************************************************************************)
(* Properties.                                                             *)
(***************************************************************************)

Complete(u) == rows[u] # None /\ rows[u].complete

\* A full access token is held only for an account whose profile is complete, however
\* stale the cache that the user was read from: requireAccessToken trusts the claim.
FullAccessNeedsProfile ==
    \A c \in claims : c.complete => Complete(c.id)

\* A refresh token that was deleted, by a refresh, a logout or its expiry, is never
\* stored again, whatever requests that read its session before are still to do.
DeletedTokensStayDeleted ==
    [][\A t \in used : sessions[t] = None => sessions'[t] = None]_vars

\* A refresh token is exchanged for a new pair at most once: Refresh deletes the session
\* it has read before it issues the next one.
ExchangedOnce == \A t \in Tokens : exchanged[t] <= 1

\* A complete profile is final: CompleteProfile refuses a complete account.
ProfileCompletedOnce ==
    [][\A u \in Users : Complete(u) => rows'[u] = rows[u]]_vars

\* A session that was issued for a complete account leads Refresh to that account, by the
\* username in it: only profile completion renames an account.
FullSessionNamesItsAccount ==
    \A t \in Tokens : sessions[t] # None /\ sessions[t].complete =>
        rows[sessions[t].id].name = sessions[t].name

\* A completion request with a token of an account that is complete is told that the
\* profile is complete, and not that the user is unknown.
RepeatedCompletionRefused ==
    \A p \in Procs : pc[p] = "userNotFound" => ~Complete(bearer[p].id)
=============================================================================
