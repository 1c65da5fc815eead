-------------------------- MODULE SessionsProofs --------------------------
(***************************************************************************)
(* Theorems about Sessions for any number of requests, accounts, usernames *)
(* and tokens, with and without the user cache, with and without faults.   *)
(*                                                                         *)
(* The inductive invariant is about the copies of users that are about: in *)
(* the cache, in sessions, in claims and in the locals of requests.  Any   *)
(* of them may be stale, but each stands: its account exists, and when the *)
(* copy is complete so is the account.  Rows only grow in that sense, so a *)
(* copy that stands goes on standing.                                      *)
(***************************************************************************)
EXTENDS Sessions, TLAPS

\* The copy v of a user stands in the users table r.
Stands(v, r) ==
    v = None \/ (v \in User /\ r[v.id] # None /\ (v.complete => r[v.id].complete))

\* The users table only grows: rows stay, and complete ones stay complete.
RowsGrow ==
    \A u \in Users : rows[u] # None =>
        rows'[u] # None /\ (rows[u].complete => rows'[u].complete)

RowsType == rows \in [Users -> User \cup {None}]

RowsOwnId == \A u \in Users : rows[u] # None => rows[u].id = u

StoreType ==
    /\ cache \in [Names -> User \cup {None}]
    /\ sessions \in [Tokens -> User \cup {None}]
    /\ claims \subseteq User

StoreStands ==
    /\ \A n \in Names : Stands(cache[n], rows)
    /\ \A t \in Tokens : Stands(sessions[t], rows)
    /\ \A c \in claims : Stands(c, rows)

TokenType ==
    /\ old \subseteq Tokens
    /\ used \subseteq Tokens
    /\ exchanged \in [Tokens -> 0..2]

DataInv == RowsType /\ RowsOwnId /\ StoreType /\ StoreStands /\ TokenType

LocalType ==
    /\ pc \in [Procs -> Steps]
    /\ token \in [Procs -> Tokens \cup {None}]
    /\ bearer \in [Procs -> User \cup {None}]
    /\ acct \in [Procs -> User \cup {None}]
    /\ want \in [Procs -> Names \cup {None}]
    /\ user \in [Procs -> User \cup {None}]

LocalStands ==
    \A p \in Procs :
        Stands(bearer[p], rows) /\ Stands(acct[p], rows) /\ Stands(user[p], rows)

\* The locals that a request has at step s.
TokenSteps == {"get", "age", "drop", "refCache", "refTable", "refFill", "rotate", "logout"}
BearerSteps == {"proCache", "proTable"}
AcctSteps == {"nameCache", "nameTable", "nameFill", "nameFound", "mobile", "mobileFill", "update"}
WantSteps == {"logCache", "logTable", "proCache", "proTable", "proFill", "byId"} \cup AcctSteps
UserSteps == {"age", "drop", "refCache", "refTable", "refFill", "rotate", "logFill", "issue",
              "proFill", "byId", "nameFill", "nameFound", "mobileFill", "invalidate"}

Provides(s, t, b, a, w, v) ==
    /\ s \in TokenSteps => t # None
    /\ s \in BearerSteps => b # None
    /\ s \in AcctSteps => a # None
    /\ s \in WantSteps => w # None
    /\ s \in UserSteps => v # None

Provided ==
    \A p \in Procs : Provides(pc[p], token[p], bearer[p], acct[p], want[p], user[p])

LocalInv == LocalType /\ LocalStands /\ Provided

IInv == DataInv /\ LocalInv

----------------------------------------------------------------------------
(* The copies and the table. *)

\* A copy that stands goes on standing when the table grows.
LEMMA StandsOn ==
    ASSUME RowsGrow, NEW v, Stands(v, rows)
    PROVE  Stands(v, rows')
  <1>1. CASE v = None
    BY <1>1 DEF Stands
  <1>2. CASE v # None
    <2>1. v \in User /\ v.id \in Users
      BY <1>2 DEF Stands, User
    <2> QED BY <1>2, <2>1 DEF Stands, RowsGrow
  <1> QED BY <1>1, <1>2

\* A row stands for itself.
LEMMA RowStands ==
    ASSUME RowsType, RowsOwnId, NEW u \in Users
    PROVE  Stands(rows[u], rows)
  BY DEF RowsType, RowsOwnId, Stands, User

\* Nothing has to be shown of a table that is left alone.
LEMMA SameRowsGrow ==
    ASSUME UNCHANGED rows
    PROVE  RowsGrow
  BY DEF RowsGrow

\* The stores and the tokens are left alone and the table grows.
LEMMA SameStore ==
    ASSUME StoreType, StoreStands, RowsGrow, UNCHANGED <<cache, sessions, claims>>
    PROVE  StoreType' /\ StoreStands'
  <1>1. StoreType'
    BY DEF StoreType
  <1>2. \A n \in Names : Stands(cache[n], rows')
    BY StandsOn DEF StoreStands
  <1>3. \A t \in Tokens : Stands(sessions[t], rows')
    BY StandsOn DEF StoreStands
  <1>4. \A c \in claims : Stands(c, rows')
    BY StandsOn DEF StoreStands
  <1> QED BY <1>1, <1>2, <1>3, <1>4 DEF StoreStands

----------------------------------------------------------------------------
(* The control of a request. *)

\* Copies in the locals that are left alone go on standing.
LEMMA SameLocals ==
    ASSUME LocalInv, RowsGrow, UNCHANGED locals
    PROVE  LocalInv'
  <1>1. LocalType' /\ Provided'
    BY DEF LocalInv, LocalType, Provided, locals
  <1>2. LocalStands'
    BY StandsOn DEF LocalInv, LocalStands, locals
  <1> QED BY <1>1, <1>2 DEF LocalInv

\* A request goes on to a step for which it has the locals.
LEMMA GotoKeeps ==
    ASSUME LocalInv, RowsGrow, NEW p \in Procs, NEW s \in Steps, Goto(p, s),
           Provides(s, token[p], bearer[p], acct[p], want[p], user[p])
    PROVE  LocalInv'
  <1>1. LocalType'
    BY DEF LocalInv, LocalType, Goto
  <1>2. LocalStands'
    BY StandsOn DEF LocalInv, LocalStands, Goto
  <1>3. Provided'
    <2> SUFFICES ASSUME NEW q \in Procs
        PROVE Provides(pc[q], token[q], bearer[q], acct[q], want[q], user[q])'
      BY DEF Provided
    <2>1. CASE q = p
      BY <2>1 DEF Provides, Goto, LocalInv, LocalType
    <2>2. CASE q # p
      <3>1. pc'[q] = pc[q]
        BY <2>2 DEF Goto, LocalInv, LocalType
      <3>2. Provides(pc[q], token[q], bearer[q], acct[q], want[q], user[q])
        BY DEF LocalInv, Provided
      <3> QED BY <3>1, <3>2 DEF Provides, Goto
    <2> QED BY <2>1, <2>2
  <1> QED BY <1>1, <1>2, <1>3 DEF LocalInv

\* A request goes on with a user it has looked up.
LEMMA FoundKeeps ==
    ASSUME LocalInv, RowsGrow, NEW p \in Procs, NEW s \in Steps, NEW v \in User,
           Found(p, v, s), Stands(v, rows'),
           Provides(s, token[p], bearer[p], acct[p], want[p], v), v # None
    PROVE  LocalInv'
  <1>1. LocalType'
    BY DEF LocalInv, LocalType, Found
  <1>2. LocalStands'
    <2> SUFFICES ASSUME NEW q \in Procs
        PROVE /\ Stands(bearer'[q], rows') /\ Stands(acct'[q], rows')
              /\ Stands(user'[q], rows')
      BY DEF LocalStands
    <2>1. Stands(bearer'[q], rows') /\ Stands(acct'[q], rows')
      BY StandsOn DEF LocalInv, LocalStands, Found
    <2>2. Stands(user[q], rows')
      BY StandsOn DEF LocalInv, LocalStands
    <2>3. user'[q] = IF q = p THEN v ELSE user[q]
      BY DEF LocalInv, LocalType, Found
    <2> QED BY <2>1, <2>2, <2>3
  <1>3. Provided'
    <2> SUFFICES ASSUME NEW q \in Procs
        PROVE Provides(pc[q], token[q], bearer[q], acct[q], want[q], user[q])'
      BY DEF Provided
    <2>1. CASE q = p
      <3>1. pc'[q] = s /\ user'[q] = v
        BY <2>1 DEF Found, LocalInv, LocalType
      <3> QED BY <2>1, <3>1 DEF Provides, Found
    <2>2. CASE q # p
      <3>1. pc'[q] = pc[q] /\ user'[q] = user[q]
        BY <2>2 DEF Found, LocalInv, LocalType
      <3>2. Provides(pc[q], token[q], bearer[q], acct[q], want[q], user[q])
        BY DEF LocalInv, Provided
      <3> QED BY <3>1, <3>2 DEF Provides, Found
    <2> QED BY <2>1, <2>2
  <1> QED BY <1>1, <1>2, <1>3 DEF LocalInv

\* A request that ends gives its locals up.
LEMMA ReturnKeeps ==
    ASSUME LocalInv, RowsGrow, NEW p \in Procs, Return(p)
    PROVE  LocalInv'
  <1>1. LocalType'
    BY DEF LocalInv, LocalType, Return, Steps
  <1>2. LocalStands'
    <2> SUFFICES ASSUME NEW q \in Procs
        PROVE /\ Stands(bearer'[q], rows') /\ Stands(acct'[q], rows')
              /\ Stands(user'[q], rows')
      BY DEF LocalStands
    <2>1. CASE q = p
      BY <2>1 DEF Stands, Return, LocalInv, LocalType
    <2>2. CASE q # p
      <3>1. bearer'[q] = bearer[q] /\ acct'[q] = acct[q] /\ user'[q] = user[q]
        BY <2>2 DEF Return, LocalInv, LocalType
      <3> QED BY <3>1, StandsOn DEF LocalInv, LocalStands
    <2> QED BY <2>1, <2>2
  <1>3. Provided'
    <2> SUFFICES ASSUME NEW q \in Procs
        PROVE Provides(pc[q], token[q], bearer[q], acct[q], want[q], user[q])'
      BY DEF Provided
    <2>1. CASE q = p
      <3>1. pc'[q] = "idle"
        BY <2>1 DEF Return, LocalInv, LocalType
      <3> QED BY <3>1 DEF Provides, TokenSteps, BearerSteps, AcctSteps, WantSteps, UserSteps
    <2>2. CASE q # p
      <3>1. /\ pc'[q] = pc[q] /\ token'[q] = token[q] /\ bearer'[q] = bearer[q]
            /\ acct'[q] = acct[q] /\ want'[q] = want[q] /\ user'[q] = user[q]
        BY <2>2 DEF Return, LocalInv, LocalType
      <3>2. Provides(pc[q], token[q], bearer[q], acct[q], want[q], user[q])
        BY DEF LocalInv, Provided
      <3> QED BY <3>1, <3>2 DEF Provides
    <2> QED BY <2>1, <2>2
  <1> QED BY <1>1, <1>2, <1>3 DEF LocalInv

----------------------------------------------------------------------------
(* The calls to the cached repository, as any request makes them. *)

\* A request that looks a username up in the cache goes on, hit or miss.
LEMMA CacheGetKeeps ==
    ASSUME IInv, NEW p \in Procs, NEW here, NEW n \in Names,
           NEW hit \in Steps, NEW miss \in Steps, CacheGet(p, here, n, hit, miss),
           \A v \in User : v # None =>
               Provides(hit, token[p], bearer[p], acct[p], want[p], v),
           Provides(miss, token[p], bearer[p], acct[p], want[p], user[p])
    PROVE  IInv'
  <1>1. RowsGrow
    BY SameRowsGrow DEF CacheGet
  <1>2. DataInv'
    BY <1>1, SameStore DEF IInv, DataInv, CacheGet, RowsType, RowsOwnId, TokenType
  <1>3. CASE cache[n] # None /\ Found(p, cache[n], hit)
    <2>1. cache[n] \in User /\ Stands(cache[n], rows)
      BY <1>3 DEF IInv, DataInv, StoreType, StoreStands
    <2>2. Stands(cache[n], rows')
      BY <1>1, <2>1, StandsOn
    <2>3. LocalInv'
      BY <1>1, <1>3, <2>1, <2>2, FoundKeeps DEF IInv
    <2> QED BY <1>2, <2>3 DEF IInv
  <1>4. CASE Goto(p, miss)
    BY <1>1, <1>2, <1>4, GotoKeeps DEF IInv
  <1> QED BY <1>3, <1>4 DEF CacheGet

\* A request that looks a username up in the table goes on with the row, or is left to
\* what absent does.
LEMMA TableGetKeeps ==
    ASSUME IInv, NEW p \in Procs, NEW next \in Steps, NEW u \in Users,
           rows[u] # None, Found(p, rows[u], next),
           UNCHANGED <<rows, cache, sessions, old, used, claims, exchanged>>,
           \A v \in User : v # None =>
               Provides(next, token[p], bearer[p], acct[p], want[p], v)
    PROVE  IInv'
  <1>1. RowsGrow
    BY SameRowsGrow
  <1>2. DataInv'
    BY <1>1, SameStore DEF IInv, DataInv, RowsType, RowsOwnId, TokenType
  <1>3. rows[u] \in User
    BY DEF IInv, DataInv, RowsType
  <1>4. Stands(rows[u], rows')
    BY <1>1, RowStands, StandsOn DEF IInv, DataInv
  <1>5. LocalInv'
    BY <1>1, <1>3, <1>4, FoundKeeps DEF IInv
  <1> QED BY <1>2, <1>5 DEF IInv

\* A request that does nothing to the data returns or goes on.
LEMMA OnlyReturn ==
    ASSUME IInv, NEW p \in Procs, Return(p),
           UNCHANGED <<rows, cache, sessions, old, used, claims, exchanged>>
    PROVE  IInv'
  <1>1. RowsGrow
    BY SameRowsGrow
  <1>2. DataInv'
    BY <1>1, SameStore DEF IInv, DataInv, RowsType, RowsOwnId, TokenType
  <1> QED BY <1>1, <1>2, ReturnKeeps DEF IInv

LEMMA OnlyGoto ==
    ASSUME IInv, NEW p \in Procs, NEW s \in Steps, Goto(p, s),
           UNCHANGED <<rows, cache, sessions, old, used, claims, exchanged>>,
           Provides(s, token[p], bearer[p], acct[p], want[p], user[p])
    PROVE  IInv'
  <1>1. RowsGrow
    BY SameRowsGrow
  <1>2. DataInv'
    BY <1>1, SameStore DEF IInv, DataInv, RowsType, RowsOwnId, TokenType
  <1> QED BY <1>1, <1>2, GotoKeeps DEF IInv

\* Filling the cache with a copy that stands, or not.
LEMMA SetUserKeeps ==
    ASSUME IInv, NEW v \in User, v # None, Stands(v, rows),
           SetUser(v) \/ UNCHANGED cache,
           UNCHANGED <<rows, sessions, old, used, claims, exchanged>>
    PROVE  DataInv'
  <1>1. RowsGrow
    BY SameRowsGrow
  <1>2. v.name \in Names
    BY DEF User
  <1>3. cache' \in [Names -> User \cup {None}]
    BY <1>2 DEF IInv, DataInv, StoreType, SetUser
  <1>4. \A n \in Names : Stands(cache'[n], rows')
    <2> TAKE n \in Names
    <2>1. cache'[n] = cache[n] \/ cache'[n] = v
      BY <1>2 DEF IInv, DataInv, StoreType, SetUser
    <2>2. Stands(cache[n], rows)
      BY DEF IInv, DataInv, StoreStands
    <2> QED BY <2>1, <2>2
  <1>5. StoreType' /\ StoreStands'
    BY <1>3, <1>4 DEF IInv, DataInv, StoreType, StoreStands
  <1> QED BY <1>5 DEF IInv, DataInv, RowsType, RowsOwnId, TokenType

LEMMA CacheFillKeeps ==
    ASSUME IInv, NEW p \in Procs, NEW here \in UserSteps, NEW next \in Steps,
           CacheFill(p, here, next),
           Provides(next, token[p], bearer[p], acct[p], want[p], user[p])
    PROVE  IInv'
  <1>1. user[p] \in User /\ user[p] # None /\ Stands(user[p], rows)
    BY DEF IInv, LocalInv, LocalType, LocalStands, Provided, Provides, CacheFill
  <1>2. DataInv'
    BY <1>1, SetUserKeeps DEF CacheFill
  <1>3. RowsGrow
    BY SameRowsGrow DEF CacheFill
  <1>4. LocalInv'
    BY <1>3, GotoKeeps DEF IInv, CacheFill
  <1> QED BY <1>2, <1>4 DEF IInv

\* Deleting a session, or not.
LEMMA DropSessionKeeps ==
    ASSUME IInv, NEW t,
           sessions' = [sessions EXCEPT ![t] = None] \/ UNCHANGED sessions,
           UNCHANGED <<rows, cache, used, claims, exchanged>>,
           old' \subseteq Tokens
    PROVE  DataInv'
  <1>1. sessions' \in [Tokens -> User \cup {None}]
    BY DEF IInv, DataInv, StoreType
  <1>2. \A k \in Tokens : Stands(sessions'[k], rows')
    <2> TAKE k \in Tokens
    <2>1. sessions'[k] = sessions[k] \/ sessions'[k] = None
      BY DEF IInv, DataInv, StoreType
    <2>2. Stands(sessions[k], rows) /\ Stands(None, rows)
      BY DEF IInv, DataInv, StoreStands, Stands
    <2> QED BY <2>1, <2>2
  <1>3. StoreType' /\ StoreStands'
    BY <1>1, <1>2 DEF IInv, DataInv, StoreType, StoreStands
  <1> QED BY <1>3 DEF IInv, DataInv, RowsType, RowsOwnId, TokenType

----------------------------------------------------------------------------
(* The steps of a login. *)

\* A request that starts has the locals it starts with.
LEMMA LoginKeeps ==
    ASSUME IInv, NEW p \in Procs, Login(p) \/ LoginDirect(p)
    PROVE  IInv'
  <1>1. CASE Login(p)
    <2>1. RowsGrow
      BY <1>1, SameRowsGrow DEF Login
    <2>2. DataInv'
      BY <1>1, <2>1, SameStore DEF IInv, DataInv, Login, RowsType, RowsOwnId, TokenType
    <2>3. LocalType'
      BY <1>1 DEF IInv, LocalInv, LocalType, Login, Steps
    <2>4. LocalStands'
      BY <1>1, <2>1, StandsOn DEF IInv, LocalInv, LocalStands, Login
    <2>5. Provided'
      <3> SUFFICES ASSUME NEW q \in Procs
          PROVE Provides(pc[q], token[q], bearer[q], acct[q], want[q], user[q])'
        BY DEF Provided
      <3>1. CASE q = p
        <4>1. pc'[q] = "logCache" /\ want'[q] \in Names
          BY <1>1, <3>1 DEF Login, IInv, LocalInv, LocalType
        <4> QED BY <4>1, SessionsAssumption
            DEF Provides, TokenSteps, BearerSteps, AcctSteps, WantSteps, UserSteps
      <3>2. CASE q # p
        <4>1. pc'[q] = pc[q] /\ want'[q] = want[q]
          BY <1>1, <3>2 DEF Login, IInv, LocalInv, LocalType
        <4>2. Provides(pc[q], token[q], bearer[q], acct[q], want[q], user[q])
          BY DEF IInv, LocalInv, Provided
        <4> QED BY <1>1, <4>1, <4>2 DEF Provides, Login
      <3> QED BY <3>1, <3>2
    <2> QED BY <2>2, <2>3, <2>4, <2>5 DEF IInv, LocalInv
  <1>2. CASE LoginDirect(p)
    <2>1. PICK u \in Users, next \in {"logFill", "issue"} :
            rows[u] # None /\ Found(p, rows[u], next)
      BY <1>2 DEF LoginDirect
    <2>2. \A v \in User : v # None =>
              Provides(next, token[p], bearer[p], acct[p], want[p], v)
      BY DEF Provides, TokenSteps, BearerSteps, AcctSteps, WantSteps, UserSteps
    <2> QED BY <1>2, <2>1, <2>2, TableGetKeeps DEF LoginDirect, Steps
  <1> QED BY <1>1, <1>2

\* A row that is written in place of none, or of a row whose completeness it keeps,
\* makes the table grow.
LEMMA WriteRow ==
    ASSUME IInv, NEW v \in User, v # None,
           rows[v.id] = None \/ v.complete,
           rows' = [rows EXCEPT ![v.id] = v],
           UNCHANGED <<cache, sessions, old, used, claims, exchanged>>
    PROVE  RowsGrow /\ DataInv' /\ Stands(v, rows')
  <1>1. v.id \in Users
    BY DEF User
  <1>2. RowsType' /\ RowsOwnId'
    BY <1>1 DEF IInv, DataInv, RowsType, RowsOwnId
  <1>3. RowsGrow
    BY <1>1 DEF IInv, DataInv, RowsType, RowsGrow
  <1>4. Stands(v, rows')
    BY <1>1 DEF IInv, DataInv, RowsType, Stands
  <1>5. StoreType' /\ StoreStands'
    BY <1>3, SameStore DEF IInv, DataInv
  <1>6. TokenType'
    BY DEF IInv, DataInv, TokenType
  <1> QED BY <1>2, <1>3, <1>4, <1>5, <1>6 DEF DataInv

LEMMA CreateUserKeeps ==
    ASSUME IInv, NEW p \in Procs, CreateUser(p)
    PROVE  IInv'
  <1>1. PICK u \in Users, n \in Names, complete \in BOOLEAN :
            /\ rows[u] = None
            /\ rows' = [rows EXCEPT ![u] = [id |-> u, name |-> n, complete |-> complete]]
            /\ Found(p, [id |-> u, name |-> n, complete |-> complete], "logFill")
    BY DEF CreateUser
  <1> DEFINE v == [id |-> u, name |-> n, complete |-> complete]
  <1>2. v \in User /\ v # None /\ v.id = u
    BY SessionsAssumption DEF User
  <1> HIDE DEF v
  <1>3. RowsGrow /\ DataInv' /\ Stands(v, rows')
    <2>1. rows[v.id] = None /\ rows' = [rows EXCEPT ![v.id] = v]
      BY <1>1, <1>2 DEF v
    <2> QED BY <1>2, <2>1, WriteRow DEF CreateUser
  <1>4. Provides("logFill", token[p], bearer[p], acct[p], want[p], v)
    BY <1>2 DEF Provides, TokenSteps, BearerSteps, AcctSteps, WantSteps, UserSteps
  <1>5. Found(p, v, "logFill") /\ "logFill" \in Steps
    BY <1>1 DEF v, Steps
  <1>6. LocalInv'
    BY <1>2, <1>3, <1>4, <1>5, FoundKeeps DEF IInv
  <1> QED BY <1>3, <1>6 DEF IInv

LEMMA LoginCacheKeeps ==
    ASSUME IInv, NEW p \in Procs, LoginCache(p)
    PROVE  IInv'
  <1>1. pc[p] = "logCache" /\ want[p] \in Names
    BY DEF LoginCache, CacheGet, IInv, LocalInv, LocalType, Provided, Provides, WantSteps
  <1>2. Provides("logTable", token[p], bearer[p], acct[p], want[p], user[p])
    BY <1>1, SessionsAssumption
    DEF Provides, TokenSteps, BearerSteps, AcctSteps, WantSteps, UserSteps
  <1>3. \A v \in User : v # None =>
            Provides("issue", token[p], bearer[p], acct[p], want[p], v)
    BY DEF Provides, TokenSteps, BearerSteps, AcctSteps, WantSteps, UserSteps
  <1> QED BY <1>1, <1>2, <1>3, CacheGetKeeps DEF LoginCache, Steps

LEMMA LoginTableKeeps ==
    ASSUME IInv, NEW p \in Procs, LoginTable(p)
    PROVE  IInv'
  <1>1. \A v \in User : v # None =>
            Provides("logFill", token[p], bearer[p], acct[p], want[p], v)
    BY DEF Provides, TokenSteps, BearerSteps, AcctSteps, WantSteps, UserSteps
  <1>2. CASE \E u \in Holder(want[p]) : Found(p, rows[u], "logFill")
    <2>1. PICK u \in Users : rows[u] # None /\ Found(p, rows[u], "logFill")
      BY <1>2 DEF Holder
    <2> QED BY <1>1, <2>1, TableGetKeeps DEF LoginTable, TableGet, Steps
  <1>3. CASE Return(p)
    BY <1>3, OnlyReturn DEF LoginTable, TableGet
  <1> QED BY <1>2, <1>3 DEF LoginTable, TableGet

LEMMA LoginFillKeeps ==
    ASSUME IInv, NEW p \in Procs, LoginFill(p)
    PROVE  IInv'
  <1>1. pc[p] = "logFill" /\ user[p] # None
    BY DEF LoginFill, CacheFill, IInv, LocalInv, Provided, Provides, UserSteps
  <1>2. Provides("issue", token[p], bearer[p], acct[p], want[p], user[p])
    BY <1>1 DEF Provides, TokenSteps, BearerSteps, AcctSteps, WantSteps, UserSteps
  <1> QED BY <1>2, CacheFillKeeps DEF LoginFill, Steps, UserSteps

\* Issuing tokens for a copy that stands.
LEMMA IssueKeeps ==
    ASSUME IInv, NEW p \in Procs, IssueTokenPair(p)
    PROVE  IInv'
  <1>1. RowsGrow
    BY SameRowsGrow DEF IssueTokenPair
  <1>2. user[p] \in User /\ Stands(user[p], rows) /\ pc[p] = "issue"
    BY DEF IInv, LocalInv, LocalType, LocalStands, Provided, Provides, IssueTokenPair,
           UserSteps
  <1>3. PICK t \in Tokens \ used :
            used' = used \cup {t} /\ sessions' = [sessions EXCEPT ![t] = user[p]]
    BY DEF IssueTokenPair
  <1>4. StoreType'
    BY <1>2, <1>3 DEF IInv, DataInv, StoreType, IssueTokenPair
  <1>5. StoreStands'
    <2>1. \A k \in Tokens : Stands(sessions'[k], rows')
      <3> TAKE k \in Tokens
      <3>1. sessions'[k] = IF k = t THEN user[p] ELSE sessions[k]
        BY <1>3 DEF IInv, DataInv, StoreType
      <3>2. Stands(sessions[k], rows')
        BY <1>1, StandsOn DEF IInv, DataInv, StoreStands
      <3> QED BY <1>2, <3>1, <3>2 DEF IssueTokenPair
    <2>2. \A c \in claims' : Stands(c, rows')
      BY <1>2 DEF IInv, DataInv, StoreStands, IssueTokenPair
    <2>3. \A n \in Names : Stands(cache'[n], rows')
      BY DEF IInv, DataInv, StoreStands, IssueTokenPair
    <2> QED BY <2>1, <2>2, <2>3 DEF StoreStands
  <1>6. exchanged' \in [Tokens -> 0..2]
    <2>1. \A x \in 0..2 : (IF x = 2 THEN 2 ELSE x + 1) \in 0..2
      OBVIOUS
    <2>2. \A k \in Tokens : exchanged[k] \in 0..2
      BY DEF IInv, DataInv, TokenType
    <2> QED BY <2>1, <2>2 DEF IInv, DataInv, TokenType, IssueTokenPair
  <1>7. DataInv'
    BY <1>3, <1>4, <1>5, <1>6
    DEF IInv, DataInv, RowsType, RowsOwnId, TokenType, IssueTokenPair
  <1> QED BY <1>1, <1>7, ReturnKeeps DEF IInv, IssueTokenPair

----------------------------------------------------------------------------
(* The steps of a refresh and of a logout. *)

LEMMA PresentKeeps ==
    ASSUME IInv, NEW p \in Procs, Refresh(p) \/ Logout(p)
    PROVE  IInv'
  <1>1. PICK next \in {"get", "logout"} : Present(p, next)
    BY DEF Refresh, Logout
  <1>2. PICK t \in Tokens :
            token' = [token EXCEPT ![p] = t] /\ pc' = [pc EXCEPT ![p] = next]
    BY <1>1 DEF Present, IInv, DataInv, TokenType
  <1>3. RowsGrow
    BY <1>1, SameRowsGrow DEF Present
  <1>4. DataInv'
    BY <1>1, <1>3, SameStore DEF IInv, DataInv, Present, RowsType, RowsOwnId, TokenType
  <1>5. LocalType'
    BY <1>1, <1>2 DEF IInv, LocalInv, LocalType, Present, Steps
  <1>6. LocalStands'
    BY <1>1, <1>3, StandsOn DEF IInv, LocalInv, LocalStands, Present
  <1>7. Provided'
    <2> SUFFICES ASSUME NEW q \in Procs
        PROVE Provides(pc[q], token[q], bearer[q], acct[q], want[q], user[q])'
      BY DEF Provided
    <2>1. CASE q = p
      <3>1. pc'[q] = next /\ token'[q] # None
        BY <1>2, <2>1, SessionsAssumption DEF IInv, LocalInv, LocalType
      <3> QED BY <3>1 DEF Provides, TokenSteps, BearerSteps, AcctSteps, WantSteps, UserSteps
    <2>2. CASE q # p
      <3>1. pc'[q] = pc[q] /\ token'[q] = token[q]
        BY <1>2, <2>2 DEF IInv, LocalInv, LocalType
      <3>2. Provides(pc[q], token[q], bearer[q], acct[q], want[q], user[q])
        BY DEF IInv, LocalInv, Provided
      <3> QED BY <1>1, <3>1, <3>2 DEF Provides, Present
    <2> QED BY <2>1, <2>2
  <1> QED BY <1>4, <1>5, <1>6, <1>7 DEF IInv, LocalInv

LEMMA GetSessionKeeps ==
    ASSUME IInv, NEW p \in Procs, GetSession(p)
    PROVE  IInv'
  <1> DEFINE t == token[p]
  <1>1. RowsGrow
    BY SameRowsGrow DEF GetSession
  <1>2. t \in Tokens /\ pc[p] = "get" /\ t # None
    BY DEF GetSession, IInv, LocalInv, LocalType, Provided, Provides, TokenSteps
  <1>3. DataInv'
    <2>1. sessions' = [sessions EXCEPT ![t] = None] \/ UNCHANGED sessions
      BY DEF GetSession
    <2> QED BY <2>1, DropSessionKeeps DEF GetSession, IInv, DataInv, TokenType
  <1>4. CASE Return(p)
    BY <1>1, <1>3, <1>4, ReturnKeeps DEF IInv
  <1>5. CASE sessions[t] # None /\ Found(p, sessions[t], "age")
    <2>1. sessions[t] \in User /\ Stands(sessions[t], rows)
      BY <1>2, <1>5 DEF IInv, DataInv, StoreType, StoreStands
    <2>2. Stands(sessions[t], rows')
      BY <1>1, <2>1, StandsOn
    <2>3. Provides("age", token[p], bearer[p], acct[p], want[p], sessions[t])
      BY <1>2, <1>5 DEF Provides, TokenSteps, BearerSteps, AcctSteps, WantSteps, UserSteps
    <2>4. LocalInv'
      BY <1>1, <1>5, <2>1, <2>2, <2>3, FoundKeeps DEF IInv, Steps
    <2> QED BY <1>3, <2>4 DEF IInv
  <1> QED BY <1>4, <1>5 DEF GetSession

LEMMA CheckExpiryKeeps ==
    ASSUME IInv, NEW p \in Procs, CheckExpiry(p)
    PROVE  IInv'
  <1>1. token[p] # None /\ user[p] # None
    BY DEF CheckExpiry, IInv, LocalInv, Provided, Provides, TokenSteps, UserSteps
  <1>2. PICK s \in {"drop", "refCache"} : Goto(p, s)
    BY DEF CheckExpiry
  <1>3. Provides(s, token[p], bearer[p], acct[p], want[p], user[p])
    BY <1>1 DEF Provides, TokenSteps, BearerSteps, AcctSteps, WantSteps, UserSteps
  <1> QED BY <1>2, <1>3, OnlyGoto DEF CheckExpiry, Steps

LEMMA DeleteSessionKeeps ==
    ASSUME IInv, NEW p \in Procs, DropExpired(p) \/ Rotate(p) \/ LogoutDelete(p)
    PROVE  IInv'
  <1>1. RowsGrow
    BY SameRowsGrow DEF DropExpired, Rotate, LogoutDelete, DeleteSession
  <1>2. DataInv'
    BY DropSessionKeeps
    DEF DropExpired, Rotate, LogoutDelete, DeleteSession, IInv, DataInv, TokenType
  <1>3. CASE Return(p)
    BY <1>1, <1>2, <1>3, ReturnKeeps DEF IInv
  <1>4. CASE pc[p] = "rotate" /\ Goto(p, "issue")
    <2>1. user[p] # None
      BY <1>4 DEF IInv, LocalInv, Provided, Provides, UserSteps
    <2>2. Provides("issue", token[p], bearer[p], acct[p], want[p], user[p])
      BY <2>1 DEF Provides, TokenSteps, BearerSteps, AcctSteps, WantSteps, UserSteps
    <2> QED BY <1>1, <1>2, <1>4, <2>2, GotoKeeps DEF IInv, Steps
  <1> QED BY <1>3, <1>4 DEF DropExpired, Rotate, LogoutDelete, DeleteSession

\* What a request that refreshes holds.
LEMMA RefreshHolds ==
    ASSUME IInv, NEW p \in Procs, pc[p] \in {"refCache", "refTable", "refFill"}
    PROVE  token[p] # None /\ user[p] # None /\ user[p].name \in Names
  BY DEF IInv, LocalInv, LocalType, Provided, Provides, TokenSteps, UserSteps, User

LEMMA RefreshCacheKeeps ==
    ASSUME IInv, NEW p \in Procs, RefreshCache(p)
    PROVE  IInv'
  <1>1. pc[p] = "refCache"
    BY DEF RefreshCache, CacheGet
  <1>2. token[p] # None /\ user[p] # None /\ user[p].name \in Names
    BY <1>1, RefreshHolds
  <1>3. Provides("refTable", token[p], bearer[p], acct[p], want[p], user[p])
    BY <1>2 DEF Provides, TokenSteps, BearerSteps, AcctSteps, WantSteps, UserSteps
  <1>4. \A v \in User : v # None =>
            Provides("rotate", token[p], bearer[p], acct[p], want[p], v)
    BY <1>2 DEF Provides, TokenSteps, BearerSteps, AcctSteps, WantSteps, UserSteps
  <1> QED BY <1>2, <1>3, <1>4, CacheGetKeeps DEF RefreshCache, Steps

LEMMA RefreshTableKeeps ==
    ASSUME IInv, NEW p \in Procs, RefreshTable(p)
    PROVE  IInv'
  <1>1. pc[p] = "refTable"
    BY DEF RefreshTable, TableGet
  <1>2. \A v \in User : v # None =>
            Provides("refFill", token[p], bearer[p], acct[p], want[p], v)
    BY <1>1, RefreshHolds
    DEF Provides, TokenSteps, BearerSteps, AcctSteps, WantSteps, UserSteps
  <1>3. CASE \E u \in Holder(user[p].name) : Found(p, rows[u], "refFill")
    <2>1. PICK u \in Users : rows[u] # None /\ Found(p, rows[u], "refFill")
      BY <1>3 DEF Holder
    <2> QED BY <1>2, <2>1, TableGetKeeps DEF RefreshTable, TableGet, Steps
  <1>4. CASE Return(p)
    BY <1>4, OnlyReturn DEF RefreshTable, TableGet
  <1> QED BY <1>3, <1>4 DEF RefreshTable, TableGet

LEMMA RefreshFillKeeps ==
    ASSUME IInv, NEW p \in Procs, RefreshFill(p)
    PROVE  IInv'
  <1>1. pc[p] = "refFill"
    BY DEF RefreshFill, CacheFill
  <1>2. Provides("rotate", token[p], bearer[p], acct[p], want[p], user[p])
    BY <1>1, RefreshHolds
    DEF Provides, TokenSteps, BearerSteps, AcctSteps, WantSteps, UserSteps
  <1> QED BY <1>2, CacheFillKeeps DEF RefreshFill, Steps, UserSteps

----------------------------------------------------------------------------
(* The steps of a profile completion. *)

LEMMA CompleteProfileKeeps ==
    ASSUME IInv, NEW p \in Procs, CompleteProfile(p)
    PROVE  IInv'
  <1>1. PICK c \in claims, n \in Names :
            bearer' = [bearer EXCEPT ![p] = c] /\ want' = [want EXCEPT ![p] = n]
    BY DEF CompleteProfile
  <1>2. c \in User /\ Stands(c, rows) /\ c # None /\ n # None
    BY SessionsAssumption DEF IInv, DataInv, StoreType, StoreStands
  <1>3. RowsGrow
    BY SameRowsGrow DEF CompleteProfile
  <1>4. DataInv'
    BY <1>3, SameStore DEF IInv, DataInv, CompleteProfile, RowsType, RowsOwnId, TokenType
  <1>5. LocalType'
    BY <1>1, <1>2 DEF IInv, LocalInv, LocalType, CompleteProfile, Steps
  <1>6. LocalStands'
    <2> SUFFICES ASSUME NEW q \in Procs
        PROVE /\ Stands(bearer'[q], rows') /\ Stands(acct'[q], rows')
              /\ Stands(user'[q], rows')
      BY DEF LocalStands
    <2>1. Stands(acct'[q], rows') /\ Stands(user'[q], rows')
      BY <1>3, StandsOn DEF IInv, LocalInv, LocalStands, CompleteProfile
    <2>2. bearer'[q] = c \/ bearer'[q] = bearer[q]
      BY <1>1 DEF IInv, LocalInv, LocalType
    <2>3. Stands(bearer[q], rows)
      BY DEF IInv, LocalInv, LocalStands
    <2>4. Stands(bearer'[q], rows')
      BY <1>2, <2>2, <2>3 DEF CompleteProfile
    <2> QED BY <2>1, <2>4
  <1>7. Provided'
    <2> SUFFICES ASSUME NEW q \in Procs
        PROVE Provides(pc[q], token[q], bearer[q], acct[q], want[q], user[q])'
      BY DEF Provided
    <2>1. CASE q = p
      <3>1. pc'[q] = "proCache" /\ bearer'[q] # None /\ want'[q] # None
        BY <1>1, <1>2, <2>1 DEF CompleteProfile, IInv, LocalInv, LocalType
      <3> QED BY <3>1 DEF Provides, TokenSteps, BearerSteps, AcctSteps, WantSteps, UserSteps
    <2>2. CASE q # p
      <3>1. pc'[q] = pc[q] /\ bearer'[q] = bearer[q] /\ want'[q] = want[q]
        BY <1>1, <2>2 DEF CompleteProfile, IInv, LocalInv, LocalType
      <3>2. Provides(pc[q], token[q], bearer[q], acct[q], want[q], user[q])
        BY DEF IInv, LocalInv, Provided
      <3> QED BY <3>1, <3>2 DEF Provides, CompleteProfile
    <2> QED BY <2>1, <2>2
  <1> QED BY <1>4, <1>5, <1>6, <1>7 DEF IInv, LocalInv

\* What a request that completes a profile holds before it reads the account ...
LEMMA ProfileHolds ==
    ASSUME IInv, NEW p \in Procs,
           pc[p] \in {"proCache", "proTable", "proFill", "byId"}
    PROVE  /\ want[p] # None
           /\ pc[p] \in {"proCache", "proTable"} =>
                 bearer[p] # None /\ bearer[p].name \in Names
           /\ pc[p] \in {"proFill", "byId"} =>
                 user[p] \in User /\ user[p] # None /\ Stands(user[p], rows)
  BY DEF IInv, LocalInv, LocalType, LocalStands, Provided, Provides, BearerSteps,
         WantSteps, UserSteps, User

\* ... and after.
LEMMA UpdateHolds ==
    ASSUME IInv, NEW p \in Procs, pc[p] \in AcctSteps
    PROVE  /\ acct[p] \in User /\ acct[p] # None
           /\ want[p] \in Names /\ want[p] # None
  BY DEF IInv, LocalInv, LocalType, Provided, Provides, AcctSteps, WantSteps

LEMMA ProfileCacheKeeps ==
    ASSUME IInv, NEW p \in Procs, ProfileCache(p)
    PROVE  IInv'
  <1>1. pc[p] = "proCache"
    BY DEF ProfileCache, CacheGet
  <1>2. want[p] # None /\ bearer[p] # None /\ bearer[p].name \in Names
    BY <1>1, ProfileHolds
  <1>3. Provides("proTable", token[p], bearer[p], acct[p], want[p], user[p])
    BY <1>2 DEF Provides, TokenSteps, BearerSteps, AcctSteps, WantSteps, UserSteps
  <1>4. \A v \in User : v # None =>
            Provides("byId", token[p], bearer[p], acct[p], want[p], v)
    BY <1>2 DEF Provides, TokenSteps, BearerSteps, AcctSteps, WantSteps, UserSteps
  <1> QED BY <1>2, <1>3, <1>4, CacheGetKeeps DEF ProfileCache, Steps

LEMMA ProfileTableKeeps ==
    ASSUME IInv, NEW p \in Procs, ProfileTable(p)
    PROVE  IInv'
  <1>1. pc[p] = "proTable"
    BY DEF ProfileTable, TableGet
  <1>2. want[p] # None
    BY <1>1, ProfileHolds
  <1>3. \A v \in User : v # None =>
            Provides("proFill", token[p], bearer[p], acct[p], want[p], v)
    BY <1>2 DEF Provides, TokenSteps, BearerSteps, AcctSteps, WantSteps, UserSteps
  <1>4. CASE \E u \in Holder(bearer[p].name) : Found(p, rows[u], "proFill")
    <2>1. PICK u \in Users : rows[u] # None /\ Found(p, rows[u], "proFill")
      BY <1>4 DEF Holder
    <2> QED BY <1>3, <2>1, TableGetKeeps DEF ProfileTable, TableGet, Steps
  <1>5. CASE Goto(p, "userNotFound")
    <2>1. Provides("userNotFound", token[p], bearer[p], acct[p], want[p], user[p])
      BY DEF Provides, TokenSteps, BearerSteps, AcctSteps, WantSteps, UserSteps
    <2> QED BY <1>5, <2>1, OnlyGoto DEF ProfileTable, TableGet, Steps
  <1> QED BY <1>4, <1>5 DEF ProfileTable, TableGet

LEMMA ProfileFillKeeps ==
    ASSUME IInv, NEW p \in Procs, ProfileFill(p)
    PROVE  IInv'
  <1>1. pc[p] = "proFill"
    BY DEF ProfileFill, CacheFill
  <1>2. Provides("byId", token[p], bearer[p], acct[p], want[p], user[p])
    BY <1>1, ProfileHolds
    DEF Provides, TokenSteps, BearerSteps, AcctSteps, WantSteps, UserSteps
  <1> QED BY <1>2, CacheFillKeeps DEF ProfileFill, Steps, UserSteps

LEMMA ReadAccountKeeps ==
    ASSUME IInv, NEW p \in Procs, ReadAccount(p)
    PROVE  IInv'
  <1> DEFINE row == rows[user[p].id]
  <1>1. /\ pc[p] = "byId"
        /\ acct' = [acct EXCEPT ![p] = row]
        /\ UNCHANGED <<token, bearer, want, user>>
        /\ UNCHANGED <<rows, cache, sessions, old, used, claims, exchanged>>
    BY DEF ReadAccount
  <1>2. PICK s \in {"alreadyComplete", "nameCache"} : pc' = [pc EXCEPT ![p] = s]
    BY DEF ReadAccount
  <1>3. want[p] # None /\ user[p] \in User /\ user[p] # None /\ Stands(user[p], rows)
    BY <1>1, ProfileHolds
  <1>4. row # None /\ row \in User /\ Stands(row, rows)
    BY <1>3, RowStands DEF Stands, User, IInv, DataInv, RowsType
  <1>5. RowsGrow
    BY <1>1, SameRowsGrow
  <1>6. DataInv'
    BY <1>1, <1>5, SameStore DEF IInv, DataInv, RowsType, RowsOwnId, TokenType
  <1>7. LocalType'
    BY <1>1, <1>2, <1>4 DEF IInv, LocalInv, LocalType, Steps
  <1>8. LocalStands'
    <2> SUFFICES ASSUME NEW q \in Procs
        PROVE /\ Stands(bearer'[q], rows') /\ Stands(acct'[q], rows')
              /\ Stands(user'[q], rows')
      BY DEF LocalStands
    <2>1. Stands(bearer'[q], rows') /\ Stands(user'[q], rows')
      BY <1>1, <1>5, StandsOn DEF IInv, LocalInv, LocalStands
    <2>2. acct'[q] = row \/ acct'[q] = acct[q]
      BY <1>1 DEF IInv, LocalInv, LocalType
    <2>3. Stands(acct[q], rows)
      BY DEF IInv, LocalInv, LocalStands
    <2>4. Stands(acct'[q], rows')
      BY <1>1, <1>4, <2>2, <2>3
    <2> QED BY <2>1, <2>4
  <1>9. Provided'
    <2> SUFFICES ASSUME NEW q \in Procs
        PROVE Provides(pc[q], token[q], bearer[q], acct[q], want[q], user[q])'
      BY DEF Provided
    <2>1. CASE q = p
      <3>1. pc'[q] = s /\ acct'[q] # None /\ want'[q] # None
        BY <1>1, <1>2, <1>3, <1>4, <2>1 DEF IInv, LocalInv, LocalType
      <3> QED BY <3>1 DEF Provides, TokenSteps, BearerSteps, AcctSteps, WantSteps, UserSteps
    <2>2. CASE q # p
      <3>1. pc'[q] = pc[q] /\ acct'[q] = acct[q]
        BY <1>1, <1>2, <2>2 DEF IInv, LocalInv, LocalType
      <3>2. Provides(pc[q], token[q], bearer[q], acct[q], want[q], user[q])
        BY DEF IInv, LocalInv, Provided
      <3> QED BY <1>1, <3>1, <3>2 DEF Provides
    <2> QED BY <2>1, <2>2
  <1> QED BY <1>6, <1>7, <1>8, <1>9 DEF IInv, LocalInv

LEMMA NameCacheKeeps ==
    ASSUME IInv, NEW p \in Procs, NameCache(p)
    PROVE  IInv'
  <1>1. pc[p] = "nameCache"
    BY DEF NameCache, CacheGet
  <1>2. acct[p] # None /\ want[p] \in Names /\ want[p] # None
    BY <1>1, UpdateHolds DEF AcctSteps
  <1>3. Provides("nameTable", token[p], bearer[p], acct[p], want[p], user[p])
    BY <1>2 DEF Provides, TokenSteps, BearerSteps, AcctSteps, WantSteps, UserSteps
  <1>4. \A v \in User : v # None =>
            Provides("nameFound", token[p], bearer[p], acct[p], want[p], v)
    BY <1>2 DEF Provides, TokenSteps, BearerSteps, AcctSteps, WantSteps, UserSteps
  <1> QED BY <1>2, <1>3, <1>4, CacheGetKeeps DEF NameCache, Steps

LEMMA NameTableKeeps ==
    ASSUME IInv, NEW p \in Procs, NameTable(p)
    PROVE  IInv'
  <1>1. pc[p] = "nameTable"
    BY DEF NameTable, TableGet
  <1>2. acct[p] # None /\ want[p] # None
    BY <1>1, UpdateHolds DEF AcctSteps
  <1>3. \A v \in User : v # None =>
            Provides("nameFill", token[p], bearer[p], acct[p], want[p], v)
    BY <1>2 DEF Provides, TokenSteps, BearerSteps, AcctSteps, WantSteps, UserSteps
  <1>4. CASE \E u \in Holder(want[p]) : Found(p, rows[u], "nameFill")
    <2>1. PICK u \in Users : rows[u] # None /\ Found(p, rows[u], "nameFill")
      BY <1>4 DEF Holder
    <2>2. UNCHANGED <<rows, cache, sessions, old, used, claims, exchanged>>
      BY DEF NameTable, TableGet
    <2> QED BY <1>3, <2>1, <2>2, TableGetKeeps DEF Steps
  <1>5. CASE Goto(p, "mobile")
    <2>1. Provides("mobile", token[p], bearer[p], acct[p], want[p], user[p])
      BY <1>2 DEF Provides, TokenSteps, BearerSteps, AcctSteps, WantSteps, UserSteps
    <2>2. UNCHANGED <<rows, cache, sessions, old, used, claims, exchanged>>
      BY DEF NameTable, TableGet
    <2> QED BY <1>5, <2>1, <2>2, OnlyGoto DEF Steps
  <1> QED BY <1>4, <1>5 DEF NameTable, TableGet

LEMMA NameFillKeeps ==
    ASSUME IInv, NEW p \in Procs, NameFill(p)
    PROVE  IInv'
  <1>1. pc[p] = "nameFill" /\ user[p] # None
    BY DEF NameFill, CacheFill, IInv, LocalInv, Provided, Provides, UserSteps
  <1>2. Provides("nameFound", token[p], bearer[p], acct[p], want[p], user[p])
    BY <1>1, UpdateHolds
    DEF Provides, TokenSteps, BearerSteps, AcctSteps, WantSteps, UserSteps
  <1> QED BY <1>2, CacheFillKeeps DEF NameFill, Steps, UserSteps

LEMMA NameFoundKeeps ==
    ASSUME IInv, NEW p \in Procs, NameFound(p)
    PROVE  IInv'
  <1>1. Provides("mobile", token[p], bearer[p], acct[p], want[p], user[p])
    BY UpdateHolds
    DEF NameFound, Provides, TokenSteps, BearerSteps, AcctSteps, WantSteps, UserSteps
  <1>2. CASE Return(p)
    BY <1>2, OnlyReturn DEF NameFound
  <1>3. CASE Goto(p, "mobile")
    BY <1>1, <1>3, OnlyGoto DEF NameFound, Steps
  <1> QED BY <1>2, <1>3 DEF NameFound

LEMMA MobileLookupKeeps ==
    ASSUME IInv, NEW p \in Procs, MobileLookup(p)
    PROVE  IInv'
  <1>1. acct[p] # None /\ want[p] # None
    BY UpdateHolds DEF AcctSteps, MobileLookup
  <1>2. UNCHANGED <<rows, cache, sessions, old, used, claims, exchanged>>
    BY DEF MobileLookup
  <1>3. CASE Goto(p, "update")
    <2>1. Provides("update", token[p], bearer[p], acct[p], want[p], user[p])
      BY <1>1 DEF Provides, TokenSteps, BearerSteps, AcctSteps, WantSteps, UserSteps
    <2> QED BY <1>2, <1>3, <2>1, OnlyGoto DEF Steps
  <1>4. CASE \E u \in Users : rows[u] # None /\ Found(p, rows[u], "mobileFill")
    <2>1. PICK u \in Users : rows[u] # None /\ Found(p, rows[u], "mobileFill")
      BY <1>4
    <2>2. \A v \in User : v # None =>
              Provides("mobileFill", token[p], bearer[p], acct[p], want[p], v)
      BY <1>1 DEF Provides, TokenSteps, BearerSteps, AcctSteps, WantSteps, UserSteps
    <2> QED BY <1>2, <2>1, <2>2, TableGetKeeps DEF Steps
  <1> QED BY <1>3, <1>4 DEF MobileLookup

LEMMA MobileFillKeeps ==
    ASSUME IInv, NEW p \in Procs, MobileFill(p)
    PROVE  IInv'
  <1>1. user[p] \in User /\ user[p] # None /\ Stands(user[p], rows)
    BY DEF IInv, LocalInv, LocalType, LocalStands, Provided, Provides, UserSteps, MobileFill
  <1>2. RowsGrow /\ DataInv'
    BY <1>1, SameRowsGrow, SetUserKeeps DEF MobileFill
  <1>3. CASE Return(p)
    BY <1>2, <1>3, ReturnKeeps DEF IInv
  <1>4. CASE Goto(p, "update")
    <2>1. Provides("update", token[p], bearer[p], acct[p], want[p], user[p])
      BY UpdateHolds
      DEF MobileFill, Provides, TokenSteps, BearerSteps, AcctSteps, WantSteps, UserSteps
    <2> QED BY <1>2, <1>4, <2>1, GotoKeeps DEF IInv, Steps
  <1> QED BY <1>3, <1>4 DEF MobileFill

LEMMA UpdateUserKeeps ==
    ASSUME IInv, NEW p \in Procs, UpdateUser(p)
    PROVE  IInv'
  <1> DEFINE v == [id |-> acct[p].id, name |-> want[p], complete |-> TRUE]
  <1>1. v \in User /\ v # None /\ v.complete
    <2>1. acct[p] \in User /\ want[p] \in Names
      BY UpdateHolds DEF UpdateUser, AcctSteps
    <2>2. v \in User
      BY <2>1 DEF User
    <2> QED BY <2>2, SessionsAssumption
  <1>2. CASE /\ rows' = [rows EXCEPT ![acct[p].id] = v]
             /\ Found(p, v, "invalidate")
    <2>1. v.id = acct[p].id
      OBVIOUS
    <2> HIDE DEF v
    <2>2. RowsGrow /\ DataInv' /\ Stands(v, rows')
      BY <1>1, <1>2, <2>1, WriteRow DEF UpdateUser
    <2>3. Provides("invalidate", token[p], bearer[p], acct[p], want[p], v)
      BY <1>1 DEF Provides, TokenSteps, BearerSteps, AcctSteps, WantSteps, UserSteps
    <2>4. LocalInv'
      BY <1>1, <1>2, <2>2, <2>3, FoundKeeps DEF IInv, Steps
    <2> QED BY <2>2, <2>4 DEF IInv
  <1>3. CASE Return(p) /\ UNCHANGED rows
    BY <1>3, OnlyReturn DEF UpdateUser
  <1> QED BY <1>2, <1>3 DEF UpdateUser

LEMMA InvalidateKeeps ==
    ASSUME IInv, NEW p \in Procs, Invalidate(p)
    PROVE  IInv'
  <1>1. user[p] \in User /\ user[p] # None /\ Stands(user[p], rows)
    BY DEF Invalidate, IInv, LocalInv, LocalType, LocalStands, Provided, Provides, UserSteps
  <1>2. RowsGrow
    BY SameRowsGrow DEF Invalidate
  <1>3. cache' \in [Names -> User \cup {None}]
    BY DEF Invalidate, IInv, DataInv, StoreType
  <1>4. \A n \in Names : Stands(cache'[n], rows')
    <2> TAKE n \in Names
    <2>1. cache'[n] = cache[n] \/ cache'[n] = None
      BY DEF Invalidate, IInv, DataInv, StoreType
    <2>2. Stands(cache[n], rows) /\ Stands(None, rows)
      BY DEF IInv, DataInv, StoreStands, Stands
    <2> QED BY <2>1, <2>2 DEF Invalidate
  <1>5. DataInv'
    BY <1>3, <1>4
    DEF Invalidate, IInv, DataInv, StoreType, StoreStands, RowsType, RowsOwnId, TokenType
  <1>6. Provides("issue", token[p], bearer[p], acct[p], want[p], user[p])
    BY <1>1 DEF Provides, TokenSteps, BearerSteps, AcctSteps, WantSteps, UserSteps
  <1>7. LocalInv'
    BY <1>1, <1>2, <1>6, FoundKeeps DEF IInv, Invalidate, Steps
  <1> QED BY <1>5, <1>7 DEF IInv

----------------------------------------------------------------------------
(* The environment. *)

LEMMA ExpireKeeps ==
    ASSUME IInv, NEW t \in Tokens, Expire(t)
    PROVE  IInv'
  <1>1. RowsGrow
    BY SameRowsGrow DEF Expire
  <1>2. DataInv'
    <2>1. old' \subseteq Tokens
      BY DEF Expire, IInv, DataInv, TokenType
    <2>2. sessions' = [sessions EXCEPT ![t] = None] \/ UNCHANGED sessions
      BY DEF Expire
    <2> QED BY <2>1, <2>2, DropSessionKeeps DEF Expire
  <1> QED BY <1>1, <1>2, SameLocals DEF IInv, Expire

LEMMA EvictKeeps ==
    ASSUME IInv, NEW n \in Names, Evict(n)
    PROVE  IInv'
  <1>1. RowsGrow
    BY SameRowsGrow DEF Evict
  <1>2. cache' \in [Names -> User \cup {None}]
    BY DEF Evict, IInv, DataInv, StoreType
  <1>3. \A m \in Names : Stands(cache'[m], rows')
    <2> TAKE m \in Names
    <2>1. cache'[m] = cache[m] \/ cache'[m] = None
      BY DEF Evict, IInv, DataInv, StoreType
    <2>2. Stands(cache[m], rows) /\ Stands(None, rows)
      BY DEF IInv, DataInv, StoreStands, Stands
    <2> QED BY <2>1, <2>2 DEF Evict
  <1>4. DataInv'
    BY <1>2, <1>3
    DEF Evict, IInv, DataInv, StoreType, StoreStands, RowsType, RowsOwnId, TokenType
  <1> QED BY <1>1, <1>4, SameLocals DEF IInv, Evict

----------------------------------------------------------------------------
(* The theorems. *)

LEMMA InvInit == Init => IInv
  <1> SUFFICES ASSUME Init PROVE IInv
    OBVIOUS
  <1>1. DataInv
    BY SessionsAssumption
    DEF Init, DataInv, RowsType, RowsOwnId, StoreType, StoreStands, TokenType, Stands
  <1>2. LocalType
    BY DEF Init, LocalType, Steps
  <1>3. LocalStands
    BY DEF Init, LocalStands, Stands
  <1>4. Provided
    BY DEF Init, Provided, Provides, TokenSteps, BearerSteps, AcctSteps, WantSteps, UserSteps
  <1> QED BY <1>1, <1>2, <1>3, <1>4 DEF IInv, LocalInv

LEMMA InvNext == IInv /\ [Next]_vars => IInv'
  <1> SUFFICES ASSUME IInv, [Next]_vars PROVE IInv'
    OBVIOUS
  <1>1. ASSUME NEW p \in Procs, LoginStep(p) PROVE IInv'
    BY <1>1, CreateUserKeeps, LoginKeeps, LoginCacheKeeps, LoginTableKeeps, LoginFillKeeps
    DEF LoginStep
  <1>2. ASSUME NEW p \in Procs, RefreshStep(p) PROVE IInv'
    BY <1>2, PresentKeeps, GetSessionKeeps, CheckExpiryKeeps, DeleteSessionKeeps,
       RefreshCacheKeeps, RefreshTableKeeps, RefreshFillKeeps
    DEF RefreshStep
  <1>3. ASSUME NEW p \in Procs, LogoutStep(p) PROVE IInv'
    BY <1>3, PresentKeeps, DeleteSessionKeeps DEF LogoutStep
  <1>4. ASSUME NEW p \in Procs, Refused(p) \/ Abort(p) PROVE IInv'
    BY <1>4, OnlyReturn DEF Refused, Abort
  <1>5. ASSUME NEW p \in Procs, ProfileStep(p) PROVE IInv'
    BY <1>4, <1>5, CompleteProfileKeeps, ProfileCacheKeeps, ProfileTableKeeps,
       ProfileFillKeeps, ReadAccountKeeps, NameCacheKeeps, NameTableKeeps, NameFillKeeps,
       NameFoundKeeps, MobileLookupKeeps, MobileFillKeeps, UpdateUserKeeps, InvalidateKeeps
    DEF ProfileStep
  <1>6. CASE UNCHANGED vars
    <2>1. UNCHANGED locals /\ UNCHANGED <<rows, cache, sessions, old, used, claims, exchanged>>
      BY <1>6 DEF vars, locals
    <2>2. RowsGrow
      BY <2>1, SameRowsGrow
    <2>3. DataInv'
      BY <2>1, <2>2, SameStore DEF IInv, DataInv, RowsType, RowsOwnId, TokenType
    <2> QED BY <2>1, <2>2, <2>3, SameLocals DEF IInv
  <1> QED BY <1>1, <1>2, <1>3, <1>4, <1>5, <1>6, IssueKeeps, ExpireKeeps, EvictKeeps DEF Next

\* The invariant holds throughout.
THEOREM Invariant == Spec => []IInv
  BY InvInit, InvNext, PTL DEF Spec

\* Every variable keeps its type: a request never works with a token, an account or a
\* username that it has not been given or read.
THEOREM TypeCorrect == Spec => []TypeOK
  <1>1. IInv => TypeOK
    BY DEF IInv, DataInv, LocalInv, RowsType, StoreType, TokenType, LocalType, TypeOK
  <1> QED BY <1>1, Invariant, PTL

\* No full access token is out for an account whose profile is not complete, whatever
\* stale copies of the account the cache and the requests under way hold.
THEOREM FullAccessIsEarned == Spec => []FullAccessNeedsProfile
  <1>1. IInv => FullAccessNeedsProfile
    BY SessionsAssumption
    DEF IInv, DataInv, StoreStands, StoreType, Stands, FullAccessNeedsProfile, Complete
  <1> QED BY <1>1, Invariant, PTL

\* Only IssueTokenPair stores a session, and only for a token that was never out; every
\* other step leaves a session alone or deletes it.
LEMMA SessionsStep ==
    ASSUME IInv, Next, NEW t \in used, sessions[t] = None
    PROVE  sessions'[t] = None
  <1>1. t \in Tokens /\ sessions \in [Tokens -> User \cup {None}]
    BY DEF IInv, DataInv, TokenType, StoreType
  <1>2. CASE UNCHANGED sessions
    BY <1>2
  <1>3. CASE \E k : sessions' = [sessions EXCEPT ![k] = None]
    BY <1>1, <1>3
  <1>4. CASE \E p \in Procs, k \in Tokens \ used : sessions' = [sessions EXCEPT ![k] = user[p]]
    BY <1>1, <1>4
  <1>5. ASSUME NEW p \in Procs, LoginStep(p) PROVE UNCHANGED sessions
    BY <1>5 DEF LoginStep, CreateUser, Login, LoginDirect, LoginCache, LoginTable, LoginFill,
                CacheGet, TableGet, CacheFill
  <1>6. ASSUME NEW p \in Procs, RefreshStep(p)
        PROVE  UNCHANGED sessions \/ \E k : sessions' = [sessions EXCEPT ![k] = None]
    BY <1>6 DEF RefreshStep, Refresh, Present, GetSession, CheckExpiry, DropExpired, Rotate,
                DeleteSession, RefreshCache, RefreshTable, RefreshFill, CacheGet, TableGet,
                CacheFill
  <1>7. ASSUME NEW p \in Procs, LogoutStep(p)
        PROVE  UNCHANGED sessions \/ \E k : sessions' = [sessions EXCEPT ![k] = None]
    BY <1>7 DEF LogoutStep, Logout, LogoutDelete, Present
  <1>8. ASSUME NEW p \in Procs, ProfileStep(p) PROVE UNCHANGED sessions
    BY <1>8 DEF ProfileStep, CompleteProfile, ProfileCache, ProfileTable, ProfileFill,
                ReadAccount, NameCache, NameTable, NameFill, NameFound, MobileLookup,
                MobileFill, UpdateUser, Invalidate, Refused, CacheGet, TableGet, CacheFill
  <1>9. ASSUME NEW p \in Procs, IssueTokenPair(p)
        PROVE  \E k \in Tokens \ used : sessions' = [sessions EXCEPT ![k] = user[p]]
    BY <1>9 DEF IssueTokenPair
  <1>10. ASSUME NEW p \in Procs, Abort(p) PROVE UNCHANGED sessions
    BY <1>10 DEF Abort
  <1>11. ASSUME NEW k \in Tokens, Expire(k)
         PROVE  UNCHANGED sessions \/ sessions' = [sessions EXCEPT ![k] = None]
    BY <1>11 DEF Expire
  <1>12. ASSUME NEW n \in Names, Evict(n) PROVE UNCHANGED sessions
    BY <1>12 DEF Evict
  <1>13. \/ UNCHANGED sessions
         \/ \E k : sessions' = [sessions EXCEPT ![k] = None]
         \/ \E p \in Procs, k \in Tokens \ used : sessions' = [sessions EXCEPT ![k] = user[p]]
    <2>1. CASE \E p \in Procs : \/ LoginStep(p) \/ RefreshStep(p) \/ LogoutStep(p)
                                \/ ProfileStep(p) \/ IssueTokenPair(p) \/ Abort(p)
      BY <1>5, <1>6, <1>7, <1>8, <1>9, <1>10, <2>1
    <2>2. CASE \E k \in Tokens : Expire(k)
      BY <1>11, <2>2
    <2>3. CASE \E n \in Names : Evict(n)
      BY <1>12, <2>3
    <2> QED BY <2>1, <2>2, <2>3 DEF Next
  <1> QED BY <1>2, <1>3, <1>4, <1>13

\* A deleted session never comes back: no request that read it before stores it again.
THEOREM SessionsStayDeleted == Spec => DeletedTokensStayDeleted
  <1>1. IInv /\ [Next]_vars => [\A t \in used : sessions[t] = None => sessions'[t] = None]_vars
    BY SessionsStep DEF vars
  <1> QED BY <1>1, Invariant, PTL DEF Spec, DeletedTokensStayDeleted

----------------------------------------------------------------------------
(***************************************************************************)
(* The tokens of requests, as long as no call fails.  Each step of a       *)
(* request but IssueTokenPair does one of six things to its token and to   *)
(* the session of that token.                                              *)
(***************************************************************************)

\* A refresh between the session it has read and its deletion.
Holding == {"age", "drop", "refCache", "refTable", "refFill", "rotate"}

Others(p) == \A q \in Procs \ {p} : pc'[q] = pc[q] /\ token'[q] = token[q]

Presents(p) == pc[p] = "idle" /\ pc'[p] \in {"get", "logout"} /\ token'[p] \in used

Tokenless(p) == token[p] = None /\ token'[p] = None /\ pc'[p] \notin TokenSteps

Reads(p) ==
    /\ pc[p] = "get" /\ sessions[token[p]] # None
    /\ pc'[p] = "age" /\ token'[p] = token[p]

Holds(p) ==
    /\ pc[p] \in Holding /\ pc'[p] \in Holding /\ token'[p] = token[p]
    /\ pc'[p] = "drop" => token[p] \in old

Ends(p) == pc[p] # "issue" /\ pc'[p] = "idle" /\ token'[p] = None

Deletes(p) == sessions' = [sessions EXCEPT ![token[p]] = None]

Rotates(p) ==
    /\ pc[p] = "rotate" /\ pc'[p] = "issue" /\ token'[p] = token[p]
    /\ Deletes(p)

Effect(p) ==
    /\ UNCHANGED <<used, old, exchanged>>
    /\ Others(p)
    /\ \/ UNCHANGED sessions /\ (Presents(p) \/ Tokenless(p) \/ Reads(p) \/ Holds(p) \/ Ends(p))
       \/ Ends(p) /\ Deletes(p) /\ (token[p] \in old \/ pc[p] = "logout")
       \/ Rotates(p)

\* Requests that have a token: a refresh, a logout, and one that is about to issue tokens.
TokenHeld ==
    /\ \A p \in Procs : token[p] # None => token[p] \in used
    /\ \A p \in Procs : pc[p] \notin TokenSteps \cup {"issue"} => token[p] = None
    /\ \A p \in Procs : pc[p] = "drop" => token[p] \in old

\* A refresh that is about to issue tokens has deleted the session of its token.
Rotated == \A p \in Procs : pc[p] = "issue" /\ token[p] # None => sessions[token[p]] = None

TokenInv == TokenHeld /\ Rotated

\* What the lemmas below use of the invariant.
LEMMA LocalsOf ==
    ASSUME IInv
    PROVE  /\ pc \in [Procs -> Steps]
           /\ token \in [Procs -> Tokens \cup {None}]
           /\ sessions \in [Tokens -> User \cup {None}]
           /\ exchanged \in [Tokens -> 0..2]
           /\ used \subseteq Tokens
           /\ \A p \in Procs : pc[p] \in TokenSteps => token[p] # None
  BY DEF IInv, DataInv, StoreType, TokenType, LocalInv, LocalType, Provided, Provides

\* Every login step leaves tokens and sessions alone.
LEMMA LoginEffect ==
    ASSUME IInv, TokenHeld, NEW p \in Procs, LoginStep(p)
    PROVE  Effect(p)
  <1> USE LocalsOf DEF TokenHeld, Effect, Others, Tokenless, TokenSteps, Goto, Return, Found
  <1>1. CASE CreateUser(p)
    BY <1>1 DEF CreateUser
  <1>2. CASE Login(p)
    BY <1>2 DEF Login
  <1>3. CASE LoginDirect(p)
    BY <1>3 DEF LoginDirect
  <1>4. CASE LoginCache(p)
    BY <1>4 DEF LoginCache, CacheGet
  <1>5. CASE LoginTable(p)
    BY <1>5 DEF LoginTable, TableGet
  <1>6. CASE LoginFill(p)
    BY <1>6 DEF LoginFill, CacheFill
  <1> QED BY <1>1, <1>2, <1>3, <1>4, <1>5, <1>6 DEF LoginStep

\* So does every step of a completion.
LEMMA ProfileEffect ==
    ASSUME IInv, TokenHeld, NEW p \in Procs, ProfileStep(p)
    PROVE  Effect(p)
  <1> USE LocalsOf DEF TokenHeld, Effect, Others, Tokenless, TokenSteps, Goto, Return, Found
  <1>1. CASE CompleteProfile(p)
    BY <1>1 DEF CompleteProfile
  <1>2. CASE ProfileCache(p)
    BY <1>2 DEF ProfileCache, CacheGet
  <1>3. CASE ProfileTable(p)
    BY <1>3 DEF ProfileTable, TableGet
  <1>4. CASE ProfileFill(p)
    BY <1>4 DEF ProfileFill, CacheFill
  <1>5. CASE ReadAccount(p)
    BY <1>5 DEF ReadAccount
  <1>6. CASE NameCache(p)
    BY <1>6 DEF NameCache, CacheGet
  <1>7. CASE NameTable(p)
    BY <1>7 DEF NameTable, TableGet
  <1>8. CASE NameFill(p)
    BY <1>8 DEF NameFill, CacheFill
  <1>9. CASE NameFound(p)
    BY <1>9 DEF NameFound
  <1>10. CASE MobileLookup(p) \/ MobileFill(p)
    BY <1>10 DEF MobileLookup, MobileFill
  <1>11. CASE UpdateUser(p)
    BY <1>11 DEF UpdateUser
  <1>12. CASE Invalidate(p)
    BY <1>12 DEF Invalidate
  <1>13. CASE Refused(p)
    BY <1>13 DEF Refused
  <1> QED BY <1>1, <1>2, <1>3, <1>4, <1>5, <1>6, <1>7, <1>8, <1>9, <1>10, <1>11, <1>12, <1>13
          DEF ProfileStep

\* A refresh reads a session, holds its token and deletes it, or ends.
LEMMA RefreshEffect ==
    ASSUME IInv, TokenHeld, ~Faults, NEW p \in Procs, RefreshStep(p)
    PROVE  Effect(p)
  <1> USE LocalsOf DEF Effect, Others, Goto, Return, Found
  <1>1. CASE Refresh(p)
    BY <1>1 DEF Refresh, Present, Presents
  <1>2. CASE GetSession(p)
    BY <1>2 DEF GetSession, Reads, Holding, Ends, Deletes
  <1>3. CASE CheckExpiry(p)
    BY <1>3 DEF CheckExpiry, Holds, Holding
  <1>4. CASE DropExpired(p)
    BY <1>4 DEF DropExpired, DeleteSession, Ends, Deletes, TokenHeld
  <1>5. CASE RefreshCache(p)
    BY <1>5 DEF RefreshCache, CacheGet, Holds, Holding
  <1>6. CASE RefreshTable(p)
    BY <1>6 DEF RefreshTable, TableGet, Holds, Holding, Ends
  <1>7. CASE RefreshFill(p)
    BY <1>7 DEF RefreshFill, CacheFill, Holds, Holding
  <1>8. CASE Rotate(p)
    BY <1>8 DEF Rotate, DeleteSession, Rotates, Deletes
  <1> QED BY <1>1, <1>2, <1>3, <1>4, <1>5, <1>6, <1>7, <1>8 DEF RefreshStep

LEMMA LogoutEffect ==
    ASSUME IInv, NEW p \in Procs, LogoutStep(p)
    PROVE  Effect(p)
  <1> USE LocalsOf DEF Effect, Others, Return
  <1>1. CASE Logout(p)
    BY <1>1 DEF Logout, Present, Presents
  <1>2. CASE LogoutDelete(p)
    BY <1>2 DEF LogoutDelete, Ends, Deletes
  <1> QED BY <1>1, <1>2 DEF LogoutStep

\* What a step does, if no call fails.
LEMMA NextEffect ==
    ASSUME IInv, TokenHeld, ~Faults, [Next]_vars
    PROVE  \/ \E p \in Procs : Effect(p)
           \/ \E p \in Procs : IssueTokenPair(p)
           \/ \E t \in Tokens : Expire(t)
           \/ UNCHANGED <<sessions, used, old, pc, token, exchanged>>
  <1>1. ASSUME NEW n \in Names, Evict(n)
        PROVE  UNCHANGED <<sessions, used, old, pc, token, exchanged>>
    BY <1>1 DEF Evict, locals
  <1>2. ASSUME UNCHANGED vars
        PROVE  UNCHANGED <<sessions, used, old, pc, token, exchanged>>
    BY <1>2 DEF vars
  <1>3. ASSUME NEW p \in Procs, LoginStep(p) \/ RefreshStep(p) \/ LogoutStep(p) \/ ProfileStep(p)
        PROVE  Effect(p)
    BY <1>3, LoginEffect, RefreshEffect, LogoutEffect, ProfileEffect
  <1>4. \A p \in Procs : ~Abort(p)
    BY DEF Abort
  <1> QED BY <1>1, <1>2, <1>3, <1>4 DEF Next

LEMMA TokenInvInit == Init => TokenInv
  BY DEF Init, TokenInv, TokenHeld, Rotated

\* What IssueTokenPair does to tokens and sessions.
LEMMA IssueEffect ==
    ASSUME IInv, NEW p \in Procs, IssueTokenPair(p)
    PROVE  /\ pc[p] = "issue" /\ pc'[p] = "idle" /\ token'[p] = None
           /\ Others(p)
           /\ UNCHANGED old
           /\ \E t \in Tokens \ used :
                 /\ used' = used \cup {t}
                 /\ sessions'[t] # None
                 /\ \A k \in Tokens \ {t} : sessions'[k] = sessions[k]
           /\ exchanged' = IF token[p] = None THEN exchanged
                           ELSE [exchanged EXCEPT ![token[p]] = IF @ = 2 THEN 2 ELSE @ + 1]
  <1>1. user[p] # None
    BY DEF IssueTokenPair, IInv, LocalInv, Provided, Provides, UserSteps
  <1> QED BY <1>1, LocalsOf DEF IssueTokenPair, Return, Others

LEMMA TokenInvNext ==
    ASSUME IInv, TokenInv, ~Faults, [Next]_vars
    PROVE  TokenInv'
  <1> USE LocalsOf DEF TokenInv
  <1>1. ASSUME NEW p \in Procs, Effect(p) PROVE TokenInv'
    <2>1. UNCHANGED <<used, old>> /\ Others(p)
      BY <1>1 DEF Effect
    <2>2. \A t \in used : sessions[t] = None => sessions'[t] = None
      BY <1>1 DEF Effect, Deletes, Rotates
    <2>3. ASSUME NEW q \in Procs \ {p}
          PROVE  /\ token'[q] # None => token'[q] \in used'
                 /\ pc'[q] \notin TokenSteps \cup {"issue"} => token'[q] = None
                 /\ pc'[q] = "drop" => token'[q] \in old'
                 /\ pc'[q] = "issue" /\ token'[q] # None => sessions'[token'[q]] = None
      BY <2>1, <2>2 DEF Others, TokenHeld, Rotated
    <2>4. /\ token'[p] # None => token'[p] \in used'
          /\ pc'[p] \notin TokenSteps \cup {"issue"} => token'[p] = None
          /\ pc'[p] = "drop" => token'[p] \in old'
          /\ pc'[p] = "issue" /\ token'[p] # None => sessions'[token'[p]] = None
      BY <1>1 DEF Effect, Presents, Tokenless, Reads, Holds, Ends, Rotates, Deletes, Holding,
                  TokenSteps, TokenHeld, Rotated
    <2> QED BY <2>3, <2>4 DEF TokenHeld, Rotated
  <1>2. ASSUME NEW p \in Procs, IssueTokenPair(p) PROVE TokenInv'
    <2>1. \A q \in Procs : \/ pc'[q] = pc[q] /\ token'[q] = token[q]
                           \/ pc'[q] = "idle" /\ token'[q] = None
      BY <1>2, IssueEffect DEF Others
    <2>2. used \subseteq used' /\ old' = old
      BY <1>2, IssueEffect
    <2>3. \A t \in used : sessions'[t] = sessions[t]
      BY <1>2, IssueEffect
    <2> QED BY <2>1, <2>2, <2>3 DEF TokenHeld, Rotated, TokenSteps
  <1>3. ASSUME NEW t \in Tokens, Expire(t) PROVE TokenInv'
    BY <1>3 DEF Expire, locals, TokenHeld, Rotated
  <1>4. CASE UNCHANGED <<sessions, used, old, pc, token, exchanged>>
    BY <1>4 DEF TokenHeld, Rotated
  <1> QED BY <1>1, <1>2, <1>3, <1>4, NextEffect

----------------------------------------------------------------------------
(***************************************************************************)
(* Requests one after the other.                                           *)
(***************************************************************************)
OneAtATime == \A p, q \in Procs : p = q

\* A token that was exchanged is out of use, and the one a refresh holds was not.
ExchangeInv ==
    /\ \A t \in Tokens : exchanged[t] # 0 =>
           exchanged[t] = 1 /\ t \in used /\ sessions[t] = None
    /\ \A p \in Procs : pc[p] \in Holding \cup {"issue"} /\ token[p] # None =>
           exchanged[token[p]] = 0

LEMMA ExchangeNext ==
    ASSUME IInv, TokenInv, ExchangeInv, OneAtATime, ~Faults, [Next]_vars
    PROVE  ExchangeInv'
  <1> USE LocalsOf
  <1>1. ASSUME NEW p \in Procs, Effect(p) PROVE ExchangeInv'
    <2>1. UNCHANGED <<used, exchanged>>
      BY <1>1 DEF Effect
    <2>2. \A t \in used : sessions[t] = None => sessions'[t] = None
      BY <1>1 DEF Effect, Deletes, Rotates
    <2>3. pc'[p] \in Holding \cup {"issue"} /\ token'[p] # None => exchanged[token'[p]] = 0
      BY <1>1 DEF Effect, Presents, Tokenless, Reads, Holds, Ends, Rotates, Holding,
                  TokenSteps, ExchangeInv
    <2> QED BY <2>1, <2>2, <2>3 DEF ExchangeInv, OneAtATime
  <1>2. ASSUME NEW p \in Procs, IssueTokenPair(p) PROVE ExchangeInv'
    <2>1. pc'[p] = "idle" /\ pc[p] = "issue"
      BY <1>2, IssueEffect
    <2>2. used \subseteq used' /\ \A t \in used : sessions'[t] = sessions[t]
      BY <1>2, IssueEffect
    <2>3. \A t \in Tokens : exchanged'[t] # 0 => t \in used /\ exchanged'[t] = 1 /\ sessions[t] = None
      <3> TAKE t \in Tokens
      <3>1. CASE t = token[p]
        <4>1. exchanged[t] = 0 /\ t \in used /\ sessions[t] = None
          BY <2>1, <3>1, SessionsAssumption DEF ExchangeInv, TokenInv, TokenHeld, Rotated
        <4>2. exchanged'[t] = 1
          BY <1>2, <3>1, <4>1, IssueEffect, SessionsAssumption
        <4> QED BY <4>1, <4>2
      <3>2. CASE t # token[p]
        <4>1. exchanged'[t] = exchanged[t]
          BY <1>2, <3>2, IssueEffect
        <4> QED BY <4>1 DEF ExchangeInv
      <3> QED BY <3>1, <3>2
    <2> QED BY <2>1, <2>2, <2>3 DEF ExchangeInv, OneAtATime, Holding
  <1>3. ASSUME NEW t \in Tokens, Expire(t) PROVE ExchangeInv'
    BY <1>3 DEF Expire, locals, ExchangeInv
  <1>4. CASE UNCHANGED <<sessions, used, old, pc, token, exchanged>>
    BY <1>4 DEF ExchangeInv
  <1> QED BY <1>1, <1>2, <1>3, <1>4, NextEffect DEF TokenInv

\* Served one after the other and without failing calls, refreshes exchange a token once:
\* the session is deleted before the next pair is issued, and never comes back.
THEOREM TokensExchangedOnce ==
    ASSUME OneAtATime, ~Faults
    PROVE  Spec => []ExchangedOnce
  <1>1. Init => IInv /\ TokenInv /\ ExchangeInv
    BY InvInit, TokenInvInit DEF Init, ExchangeInv, Holding
  <1>2. IInv /\ TokenInv /\ ExchangeInv /\ [Next]_vars => (IInv /\ TokenInv /\ ExchangeInv)'
    BY InvNext, TokenInvNext, ExchangeNext
  <1>3. IInv /\ ExchangeInv => ExchangedOnce
    BY LocalsOf DEF ExchangeInv, ExchangedOnce
  <1> QED BY <1>1, <1>2, <1>3, PTL DEF Spec

\* A copy of a complete account is exact.
Exact(v, r) == v # None /\ v.complete => r[v.id] = v

CopiesExact ==
    /\ \A n \in Names : Exact(cache[n], rows)
    /\ \A t \in Tokens : Exact(sessions[t], rows)
    /\ \A p \in Procs : Exact(user[p], rows)

\* A completion that is under way is about an account that is still incomplete.
UpdatesIncomplete ==
    \A p \in Procs : pc[p] \in AcctSteps => ~Complete(acct[p].id)

CompleteRowsStay == \A u \in Users : Complete(u) => rows'[u] = rows[u]

\* A step takes a user from the copies there are or from the table.
Copied(v) ==
    \/ v = None
    \/ \E n \in Names : v = cache[n]
    \/ \E t \in Tokens : v = sessions[t]
    \/ \E p \in Procs : v = user[p]
    \/ \E u \in Users : v = rows'[u]

CopyEffect ==
    /\ \A n \in Names : Copied(cache'[n])
    /\ \A t \in Tokens : Copied(sessions'[t])
    /\ \A p \in Procs : Copied(user'[p])

\* Only a new account and a completion write a row.
RowEffect ==
    \/ UNCHANGED rows
    \/ \E v \in User : rows[v.id] = None /\ rows' = [rows EXCEPT ![v.id] = v]
    \/ \E p \in Procs, v \in User :
          /\ pc[p] = "update" /\ v.id = acct[p].id /\ pc'[p] \notin AcctSteps
          /\ rows' = [rows EXCEPT ![v.id] = v]

AcctEffect ==
    \A p \in Procs : pc'[p] \in AcctSteps =>
        \/ pc[p] \in AcctSteps /\ acct'[p] = acct[p]
        \/ pc[p] = "byId" /\ acct'[p] \in User /\ acct'[p] = rows[acct'[p].id] /\ ~acct'[p].complete

LEMMA CopiesOf ==
    ASSUME IInv
    PROVE  /\ rows \in [Users -> User \cup {None}] /\ cache \in [Names -> User \cup {None}]
           /\ sessions \in [Tokens -> User \cup {None}] /\ user \in [Procs -> User \cup {None}]
           /\ acct \in [Procs -> User \cup {None}] /\ pc \in [Procs -> Steps]
           /\ want \in [Procs -> Names \cup {None}]
  BY DEF IInv, DataInv, RowsType, StoreType, LocalInv, LocalType

\* The usernames that requests look up.
LEMMA NamesOf ==
    ASSUME IInv, NEW p \in Procs
    PROVE  /\ pc[p] \in WantSteps => want[p] \in Names
           /\ pc[p] \in UserSteps => user[p] \in User /\ user[p].name \in Names
           /\ pc[p] \in BearerSteps => bearer[p].name \in Names
           /\ pc[p] \in AcctSteps => acct[p] \in User /\ acct[p].id \in Users
  BY DEF IInv, LocalInv, LocalType, Provided, Provides, User

LEMMA CacheGetCopies ==
    ASSUME IInv, NEW p \in Procs, NEW here, NEW n \in Names, NEW hit, NEW miss,
           CacheGet(p, here, n, hit, miss)
    PROVE  CopyEffect
  BY CopiesOf DEF CacheGet, Goto, Found, CopyEffect, Copied

LEMMA TableGetCopies ==
    ASSUME IInv, NEW p \in Procs, NEW here, NEW n, NEW next, NEW s,
           TableGet(p, here, n, next, Return(p)) \/ TableGet(p, here, n, next, Goto(p, s))
    PROVE  CopyEffect
  BY CopiesOf DEF TableGet, Holder, Return, Goto, Found, CopyEffect, Copied

LEMMA CacheFillCopies ==
    ASSUME IInv, NEW p \in Procs, NEW here \in UserSteps, NEW next, CacheFill(p, here, next)
    PROVE  CopyEffect
  <1>1. user[p].name \in Names /\ pc[p] = here
    BY NamesOf DEF CacheFill
  <1>2. \A n \in Names : cache'[n] = cache[n] \/ cache'[n] = user[p]
    BY <1>1, CopiesOf DEF CacheFill, SetUser
  <1> QED BY <1>2 DEF CopyEffect, Copied, CacheFill, Goto

\* A step that leaves cache and sessions alone and at most forgets the user of the request.
LEMMA NothingCopied ==
    ASSUME IInv, UNCHANGED <<cache, sessions>>,
           \A q \in Procs : user'[q] = user[q] \/ user'[q] = None
    PROVE  CopyEffect
  BY DEF CopyEffect, Copied

LEMMA SessionDeleted ==
    ASSUME IInv, NEW k, UNCHANGED cache,
           sessions' = [sessions EXCEPT ![k] = None],
           \A q \in Procs : user'[q] = user[q] \/ user'[q] = None
    PROVE  CopyEffect
  BY CopiesOf DEF CopyEffect, Copied

LEMMA LoginCopies ==
    ASSUME IInv, NEW p \in Procs, LoginStep(p)
    PROVE  CopyEffect /\ RowEffect
  <1>1. CASE CreateUser(p)
    <2>1. PICK u \in Users, n \in Names, complete \in BOOLEAN :
              /\ rows[u] = None
              /\ rows' = [rows EXCEPT ![u] = [id |-> u, name |-> n, complete |-> complete]]
              /\ Found(p, [id |-> u, name |-> n, complete |-> complete], "logFill")
      BY <1>1 DEF CreateUser
    <2> DEFINE v == [id |-> u, name |-> n, complete |-> complete]
    <2>2. v \in User /\ v.id = u
      BY DEF User
    <2>3. v = rows'[u]
      BY <2>1, CopiesOf
    <2>4. \A q \in Procs : user'[q] = user[q] \/ user'[q] = v
      BY <2>1, CopiesOf DEF Found
    <2> HIDE DEF v
    <2>5. CopyEffect
      BY <1>1, <2>3, <2>4 DEF CreateUser, CopyEffect, Copied
    <2>6. RowEffect
      BY <2>1, <2>2 DEF RowEffect, v
    <2> QED BY <2>5, <2>6
  <1>2. CASE Login(p)
    BY <1>2, NothingCopied DEF Login, RowEffect
  <1>3. CASE LoginDirect(p)
    BY <1>3, CopiesOf DEF LoginDirect, Found, CopyEffect, Copied, RowEffect
  <1>4. CASE LoginCache(p)
    BY <1>4, NamesOf, CacheGetCopies DEF LoginCache, CacheGet, WantSteps, RowEffect
  <1>5. CASE LoginTable(p)
    BY <1>5, TableGetCopies DEF LoginTable, TableGet, RowEffect
  <1>6. CASE LoginFill(p)
    BY <1>6, CacheFillCopies DEF LoginFill, CacheFill, UserSteps, RowEffect
  <1> QED BY <1>1, <1>2, <1>3, <1>4, <1>5, <1>6 DEF LoginStep

LEMMA RefreshCopies ==
    ASSUME IInv, NEW p \in Procs, RefreshStep(p) \/ LogoutStep(p)
    PROVE  CopyEffect /\ RowEffect
  <1> USE DEF RowEffect
  <1>1. CASE Refresh(p) \/ Logout(p)
    BY <1>1, NothingCopied DEF Refresh, Logout, Present
  <1>2. CASE GetSession(p)
    <2>1. token[p] \in Tokens
      BY <1>2, SessionsAssumption DEF GetSession, IInv, LocalInv, LocalType, Provided, Provides, TokenSteps
    <2>2. \A q \in Procs : user'[q] \in {user[q], None, sessions[token[p]]}
      BY <1>2, CopiesOf DEF GetSession, Return, Found
    <2>3. \A t \in Tokens : sessions'[t] \in {sessions[t], None}
      BY <1>2, CopiesOf DEF GetSession
    <2> QED BY <1>2, <2>1, <2>2, <2>3 DEF GetSession, CopyEffect, Copied
  <1>3. CASE CheckExpiry(p)
    BY <1>3, NothingCopied DEF CheckExpiry, Goto
  <1>4. CASE DropExpired(p) \/ Rotate(p) \/ LogoutDelete(p)
    <2>1. \A q \in Procs : user'[q] = user[q] \/ user'[q] = None
      BY <1>4, CopiesOf DEF DropExpired, Rotate, LogoutDelete, DeleteSession, Goto, Return
    <2> QED BY <1>4, <2>1, NothingCopied, SessionDeleted
            DEF DropExpired, Rotate, LogoutDelete, DeleteSession
  <1>5. CASE RefreshCache(p)
    BY <1>5, NamesOf, CacheGetCopies DEF RefreshCache, CacheGet, UserSteps
  <1>6. CASE RefreshTable(p)
    BY <1>6, TableGetCopies DEF RefreshTable, TableGet
  <1>7. CASE RefreshFill(p)
    BY <1>7, CacheFillCopies DEF RefreshFill, CacheFill, UserSteps
  <1> QED BY <1>1, <1>2, <1>3, <1>4, <1>5, <1>6, <1>7 DEF RefreshStep, LogoutStep

LEMMA ProfileCopies ==
    ASSUME IInv, NEW p \in Procs, ProfileStep(p)
    PROVE  CopyEffect /\ RowEffect
  <1>1. CASE CompleteProfile(p) \/ ReadAccount(p)
    BY <1>1, NothingCopied DEF CompleteProfile, ReadAccount, RowEffect
  <1>2. CASE ProfileCache(p)
    BY <1>2, NamesOf, CacheGetCopies DEF ProfileCache, CacheGet, BearerSteps, RowEffect
  <1>3. CASE ProfileTable(p)
    BY <1>3, TableGetCopies DEF ProfileTable, TableGet, RowEffect
  <1>4. CASE ProfileFill(p) \/ NameFill(p)
    BY <1>4, CacheFillCopies DEF ProfileFill, NameFill, CacheFill, UserSteps, RowEffect
  <1>5. CASE NameCache(p)
    BY <1>5, NamesOf, CacheGetCopies DEF NameCache, CacheGet, WantSteps, AcctSteps, RowEffect
  <1>6. CASE NameTable(p)
    BY <1>6, TableGetCopies, NothingCopied DEF NameTable, TableGet, Goto, RowEffect
  <1>7. CASE NameFound(p) \/ Refused(p)
    <2>1. \A q \in Procs : user'[q] = user[q] \/ user'[q] = None
      BY <1>7, CopiesOf DEF NameFound, Refused, Goto, Return
    <2> QED BY <1>7, <2>1, NothingCopied DEF NameFound, Refused, RowEffect
  <1>8. CASE MobileLookup(p) \/ MobileFill(p)
    <2>1. CASE MobileLookup(p)
      BY <2>1, CopiesOf DEF MobileLookup, Goto, Found, CopyEffect, Copied, RowEffect
    <2>2. CASE MobileFill(p)
      <3>1. \A q \in Procs : user'[q] = user[q] \/ user'[q] = None
        BY <2>2, CopiesOf DEF MobileFill, Goto, Return
      <3>2. user[p].name \in Names
        BY <2>2, NamesOf DEF MobileFill, UserSteps
      <3>3. \A n \in Names : cache'[n] = cache[n] \/ cache'[n] = user[p]
        BY <2>2, <3>2, CopiesOf DEF MobileFill, SetUser
      <3> QED BY <2>2, <3>1, <3>3 DEF MobileFill, CopyEffect, Copied, RowEffect
    <2> QED BY <1>8, <2>1, <2>2
  <1>9. CASE UpdateUser(p)
    <2> DEFINE v == [id |-> acct[p].id, name |-> want[p], complete |-> TRUE]
    <2>1. pc[p] = "update" /\ UNCHANGED <<cache, sessions>>
      BY <1>9 DEF UpdateUser
    <2>2. v \in User /\ v.id = acct[p].id
      BY <2>1, NamesOf DEF AcctSteps, WantSteps, User
    <2>3. CASE rows' = [rows EXCEPT ![acct[p].id] = v] /\ Found(p, v, "invalidate")
      <3>1. v = rows'[acct[p].id]
        BY <2>1, <2>3, NamesOf, CopiesOf DEF AcctSteps
      <3>2. \A q \in Procs : user'[q] = user[q] \/ user'[q] = v
        BY <2>3, CopiesOf DEF Found
      <3>3. acct[p].id \in Users
        BY <2>1, NamesOf DEF AcctSteps
      <3> HIDE DEF v
      <3>4. pc'[p] \notin AcctSteps
        BY <2>3, CopiesOf DEF Found, AcctSteps
      <3>5. RowEffect
        BY <2>1, <2>2, <2>3, <3>4 DEF RowEffect
      <3> QED BY <2>1, <3>1, <3>2, <3>3, <3>5 DEF CopyEffect, Copied
    <2>4. CASE Return(p) /\ UNCHANGED rows
      <3>1. \A q \in Procs : user'[q] = user[q] \/ user'[q] = None
        BY <2>4, CopiesOf DEF Return
      <3> QED BY <2>1, <2>4, <3>1, NothingCopied DEF RowEffect
    <2> QED BY <1>9, <2>3, <2>4 DEF UpdateUser
  <1>10. CASE Invalidate(p)
    <2>1. \A q \in Procs : user'[q] = user[q]
      BY <1>10, CopiesOf DEF Invalidate, Found
    <2>2. \A n \in Names : cache'[n] = cache[n] \/ cache'[n] = None
      BY <1>10, CopiesOf DEF Invalidate
    <2> QED BY <1>10, <2>1, <2>2 DEF Invalidate, CopyEffect, Copied, RowEffect
  <1> QED BY <1>1, <1>2, <1>3, <1>4, <1>5, <1>6, <1>7, <1>8, <1>9, <1>10 DEF ProfileStep

LEMMA NextCopies ==
    ASSUME IInv, [Next]_vars
    PROVE  CopyEffect /\ RowEffect
  <1>1. ASSUME NEW p \in Procs, IssueTokenPair(p) PROVE CopyEffect /\ RowEffect
    <2>1. \A q \in Procs : user'[q] = user[q] \/ user'[q] = None
      BY <1>1, CopiesOf DEF IssueTokenPair, Return
    <2>2. \A t \in Tokens : sessions'[t] = sessions[t] \/ sessions'[t] = user[p]
      BY <1>1, CopiesOf DEF IssueTokenPair
    <2> QED BY <1>1, <2>1, <2>2 DEF IssueTokenPair, CopyEffect, Copied, RowEffect
  <1>2. ASSUME NEW p \in Procs, Abort(p) PROVE CopyEffect /\ RowEffect
    <2>1. \A q \in Procs : user'[q] = user[q] \/ user'[q] = None
      BY <1>2, CopiesOf DEF Abort, Return
    <2> QED BY <1>2, <2>1, NothingCopied DEF Abort, RowEffect
  <1>3. ASSUME NEW t \in Tokens, Expire(t) PROVE CopyEffect /\ RowEffect
    BY <1>3, NothingCopied, SessionDeleted DEF Expire, locals, RowEffect
  <1>4. ASSUME NEW n \in Names, Evict(n) PROVE CopyEffect /\ RowEffect
    BY <1>4, CopiesOf DEF Evict, locals, CopyEffect, Copied, RowEffect
  <1>5. CASE UNCHANGED vars
    BY <1>5, NothingCopied DEF vars, RowEffect
  <1> QED BY <1>1, <1>2, <1>3, <1>4, <1>5, LoginCopies, RefreshCopies, ProfileCopies DEF Next

\* Only ReadAccount starts on an account, one that it has read incomplete.
LEMMA NextAcct ==
    ASSUME IInv, [Next]_vars
    PROVE  AcctEffect
  <1> USE CopiesOf DEF AcctEffect, AcctSteps, Goto, Return, Found
  <1>1. ASSUME NEW p \in Procs, LoginStep(p) PROVE AcctEffect
    BY <1>1 DEF LoginStep, CreateUser, Login, LoginDirect, LoginCache, LoginTable, LoginFill,
                CacheGet, TableGet, CacheFill
  <1>2. ASSUME NEW p \in Procs, RefreshStep(p) \/ LogoutStep(p) PROVE AcctEffect
    BY <1>2 DEF RefreshStep, LogoutStep, Refresh, Present, GetSession, CheckExpiry, DropExpired,
                Rotate, DeleteSession, RefreshCache, RefreshTable, RefreshFill, CacheGet,
                TableGet, CacheFill, Logout, LogoutDelete
  <1>3. ASSUME NEW p \in Procs, ReadAccount(p) PROVE AcctEffect
    <2>1. user[p].id \in Users /\ rows[user[p].id] \in User /\ rows[user[p].id].id = user[p].id
      BY <1>3, SessionsAssumption
      DEF ReadAccount, IInv, DataInv, RowsType, RowsOwnId, LocalInv, LocalType, LocalStands,
          Provided, Provides, UserSteps, Stands, User
    <2> QED BY <1>3, <2>1 DEF ReadAccount
  <1>4. ASSUME NEW p \in Procs, ProfileStep(p), ~ReadAccount(p) PROVE AcctEffect
    BY <1>4 DEF ProfileStep, CompleteProfile, ProfileCache, ProfileTable, ProfileFill, NameCache,
                NameTable, NameFill, NameFound, MobileLookup, MobileFill, UpdateUser, Invalidate,
                Refused, CacheGet, TableGet, CacheFill
  <1>5. ASSUME NEW p \in Procs, IssueTokenPair(p) \/ Abort(p) PROVE AcctEffect
    BY <1>5 DEF IssueTokenPair, Abort
  <1>6. CASE UNCHANGED locals
    BY <1>6 DEF locals
  <1> QED BY <1>1, <1>2, <1>3, <1>4, <1>5, <1>6 DEF Next, Expire, Evict, vars, locals

\* A copy that is exact stays so while complete rows stay.
LEMMA ExactOn ==
    ASSUME CompleteRowsStay, NEW v, Stands(v, rows), Exact(v, rows)
    PROVE  Exact(v, rows')
  BY DEF CompleteRowsStay, Stands, Exact, Complete, User

\* Every writer of a row has found none, or found it incomplete.
LEMMA RowsStay ==
    ASSUME IInv, UpdatesIncomplete, [Next]_vars
    PROVE  CompleteRowsStay
  <1> SUFFICES ASSUME NEW u \in Users, Complete(u) PROVE rows'[u] = rows[u]
    BY DEF CompleteRowsStay
  <1>1. CASE UNCHANGED rows
    BY <1>1
  <1>2. ASSUME NEW v \in User, rows[v.id] = None, rows' = [rows EXCEPT ![v.id] = v]
        PROVE  rows'[u] = rows[u]
    BY <1>2, CopiesOf DEF Complete
  <1>3. ASSUME NEW p \in Procs, NEW v \in User, pc[p] = "update", v.id = acct[p].id,
               rows' = [rows EXCEPT ![v.id] = v]
        PROVE  rows'[u] = rows[u]
    BY <1>3, CopiesOf DEF UpdatesIncomplete, AcctSteps
  <1> QED BY <1>1, <1>2, <1>3, NextCopies DEF RowEffect

LEMMA ExactNext ==
    ASSUME IInv, CopiesExact, UpdatesIncomplete, [Next]_vars
    PROVE  CopiesExact'
  <1>1. CompleteRowsStay /\ CopyEffect /\ IInv'
    BY RowsStay, NextCopies, InvNext
  <1>2. ASSUME NEW v, Copied(v) PROVE Exact(v, rows')
    <2>1. CASE v = None
      BY <2>1 DEF Exact
    <2>2. CASE \/ \E n \in Names : v = cache[n]
               \/ \E t \in Tokens : v = sessions[t]
               \/ \E p \in Procs : v = user[p]
      <3>1. Stands(v, rows) /\ Exact(v, rows)
        BY <2>2 DEF IInv, DataInv, StoreStands, LocalInv, LocalStands, CopiesExact
      <3> QED BY <1>1, <3>1, ExactOn
    <2>3. CASE \E u \in Users : v = rows'[u]
      BY <1>1, <2>3 DEF IInv, DataInv, RowsOwnId, Exact
    <2> QED BY <1>2, <2>1, <2>2, <2>3 DEF Copied
  <1> QED BY <1>1, <1>2 DEF CopyEffect, CopiesExact

LEMMA UpdatesNext ==
    ASSUME IInv, UpdatesIncomplete, OneAtATime, [Next]_vars
    PROVE  UpdatesIncomplete'
  <1> SUFFICES ASSUME NEW p \in Procs, pc'[p] \in AcctSteps
      PROVE  ~Complete(acct[p].id)'
    BY DEF UpdatesIncomplete
  <1>1. AcctEffect /\ RowEffect
    BY NextAcct, NextCopies
  <1> DEFINE u == acct'[p].id
  <1>2. u \in Users /\ rows[u] # None /\ ~rows[u].complete
    <2>1. CASE pc[p] \in AcctSteps /\ acct'[p] = acct[p]
      <3>1. acct[p] \in User /\ acct[p] # None /\ Stands(acct[p], rows)
        BY <2>1 DEF IInv, LocalInv, LocalType, LocalStands, Provided, Provides
      <3> QED BY <2>1, <3>1 DEF UpdatesIncomplete, Complete, Stands, User
    <2>2. CASE acct'[p] \in User /\ acct'[p] = rows[acct'[p].id] /\ ~acct'[p].complete
      BY <2>2, SessionsAssumption DEF User
    <2> QED BY <1>1, <2>1, <2>2 DEF AcctEffect
  <1>3. rows'[u] = rows[u]
    <2>1. CASE UNCHANGED rows
      BY <2>1
    <2>2. ASSUME NEW v \in User, rows[v.id] = None, rows' = [rows EXCEPT ![v.id] = v]
          PROVE  rows'[u] = rows[u]
      BY <1>2, <2>2, CopiesOf
    <2>3. ~ \E q \in Procs : pc'[q] \notin AcctSteps
      BY DEF OneAtATime
    <2> QED BY <1>1, <2>1, <2>2, <2>3 DEF RowEffect
  <1> QED BY <1>2, <1>3 DEF Complete

LEMMA NamesInit == Init => CopiesExact /\ UpdatesIncomplete
  BY DEF Init, CopiesExact, Exact, UpdatesIncomplete, AcctSteps

\* Served one after the other, whatever fails and however stale the cache, completions
\* leave a complete profile alone: none has started on it, and only ReadAccount starts one.
THEOREM ProfilesAreFinal ==
    ASSUME OneAtATime
    PROVE  Spec => ProfileCompletedOnce
  <1>1. Init => IInv /\ UpdatesIncomplete
    BY InvInit, NamesInit
  <1>2. IInv /\ UpdatesIncomplete /\ [Next]_vars => (IInv /\ UpdatesIncomplete)'
    BY InvNext, UpdatesNext
  <1>3. IInv /\ UpdatesIncomplete /\ [Next]_vars =>
            [\A u \in Users : Complete(u) => rows'[u] = rows[u]]_vars
    BY RowsStay DEF CompleteRowsStay
  <1> QED BY <1>1, <1>2, <1>3, PTL DEF Spec, ProfileCompletedOnce

\* So the username in a full session stays that of its account: every copy of a complete
\* account, in the cache, in a session or in a request, is an exact one.
THEOREM FullSessionsNameTheirAccount ==
    ASSUME OneAtATime
    PROVE  Spec => []FullSessionNamesItsAccount
  <1>1. Init => IInv /\ UpdatesIncomplete /\ CopiesExact
    BY InvInit, NamesInit
  <1>2. /\ IInv /\ UpdatesIncomplete /\ CopiesExact
        /\ [Next]_vars
        => (IInv /\ UpdatesIncomplete /\ CopiesExact)'
    BY InvNext, UpdatesNext, ExactNext
  <1>3. CopiesExact => FullSessionNamesItsAccount
    BY DEF CopiesExact, Exact, FullSessionNamesItsAccount
  <1> QED BY <1>1, <1>2, <1>3, PTL DEF Spec
=============================================================================
