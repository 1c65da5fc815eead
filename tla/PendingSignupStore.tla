------------------------ MODULE PendingSignupStore ------------------------
(***************************************************************************)
(* The store of pending signups: the payload of a signup under its mobile  *)
(* number and three indices that lead from a username, an e-mail address   *)
(* and a mobile number to that mobile.  There are two implementations,     *)
(* selected by main.go: cache/redis/pending_signup_store.go, where every   *)
(* key carries its own time to live, and cache/memory/stores.go, maps      *)
(* under one mutex that drop an expired signup when they meet it.          *)
(*                                                                         *)
(* The operators with primes are the atomic steps of the store (one Redis  *)
(* command or MULTI/EXEC pipeline, one critical section of the mutex); the *)
(* specifications that use the store call them from their own actions.     *)
(***************************************************************************)
EXTENDS Naturals

CONSTANTS
    Usernames, Emails, Mobiles,  \* normalised identities
    Backend,                     \* "redis" or "memory"
    None                         \* absent value

ASSUME BackendAssumption == Backend \in {"redis", "memory"}

VARIABLES
    now,         \* the clock
    signups,     \* payload by mobile
    byUsername,  \* the three indices
    byEmail,
    byMobile

storeVars == <<signups, byUsername, byEmail, byMobile>>

(***************************************************************************)
(* auth.PendingSignup; the password hash travels with the identity and no  *)
(* property tells hashes apart, so it is left out.                         *)
(***************************************************************************)
PendingSignup ==
    [username : Usernames, email : Emails, mobile : Mobiles,
     resends : Nat, lastSent : Nat, expires : Nat]

\* An index entry: the mobile it leads to and, for Redis, when its key expires.
IndexEntry == [mobile : Mobiles, expires : Nat]

ASSUME NoneAssumption == None \notin PendingSignup \cup IndexEntry

Entry(s) == [mobile |-> s.mobile, expires |-> s.expires]

StoreInit ==
    /\ signups    = [m \in Mobiles   |-> None]
    /\ byUsername = [u \in Usernames |-> None]
    /\ byEmail    = [e \in Emails    |-> None]
    /\ byMobile   = [m \in Mobiles   |-> None]

\* time.Now().After(expires), the test of the in-memory store and the service.
After(t) == now > t

----------------------------------------------------------------------------
(***************************************************************************)
(* Reads.  A Redis key that has expired is gone (see StoreTick), so a      *)
(* Redis read returns what the map holds.                                  *)
(***************************************************************************)

\* GetByMobile
PayloadOf(m) ==
    IF Backend = "memory" /\ signups[m] # None /\ After(signups[m].expires)
    THEN None
    ELSE signups[m]

\* getIndex, getIndexLocked: the in-memory index only answers when the payload is alive.
MobileOf(entry) ==
    IF entry = None \/ (Backend = "memory" /\ PayloadOf(entry.mobile) = None)
    THEN None
    ELSE entry.mobile

\* Mutant of Drop: the mobile index is forgotten.
DropKeepsMobileIndex(m, s) ==
    /\ signups'    = [signups    EXCEPT ![m] = None]
    /\ byUsername' = [byUsername EXCEPT ![s.username] = None]
    /\ byEmail'    = [byEmail    EXCEPT ![s.email] = None]
    /\ UNCHANGED byMobile

(***************************************************************************)
(* deleteLocked, and the four DELs of DeleteByMobile: remove the payload   *)
(* under m and the index entries of the identity in s, whatever those      *)
(* entries lead to by now.                                                 *)
(***************************************************************************)
Drop(m, s) ==
    /\ signups'    = [signups    EXCEPT ![m] = None]
    /\ byUsername' = [byUsername EXCEPT ![s.username] = None]
    /\ byEmail'    = [byEmail    EXCEPT ![s.email] = None]
    /\ byMobile'   = [byMobile   EXCEPT ![s.mobile] = None]

\* What a read of m leaves behind: getByMobileLocked deletes an expired signup.
Touch(m) ==
    IF signups[m] # PayloadOf(m)
    THEN Drop(m, signups[m])
    ELSE UNCHANGED storeVars

TouchIndex(entry) ==
    IF entry # None /\ Backend = "memory"
    THEN Touch(entry.mobile)
    ELSE UNCHANGED storeVars

\* Mutant of Replaced: Save overwrites a signup without deleting it first.
ReplacedNever(s) == None

\* The identity whose index entries Save removes first: only the in-memory store does.
Replaced(s) == IF Backend = "memory" THEN signups[s.mobile] ELSE None

\* Save refuses a signup that has already expired.
CanSave(s) == now < s.expires

Save(s) ==
    LET old == Replaced(s)
        Cleared(index, key) ==
            IF old = None THEN index ELSE [index EXCEPT ![key] = None]
    IN  /\ signups'    = [signups EXCEPT ![s.mobile] = s]
        /\ byUsername' = [Cleared(byUsername, old.username)
                             EXCEPT ![s.username] = Entry(s)]
        /\ byEmail'    = [Cleared(byEmail, old.email)
                             EXCEPT ![s.email] = Entry(s)]
        /\ byMobile'   = [byMobile EXCEPT ![s.mobile] = Entry(s)]

(***************************************************************************)
(* The clock.  Redis removes the keys whose time to live has run out; the  *)
(* in-memory maps keep expired signups until somebody reads them.          *)
(***************************************************************************)
Alive(x) ==
    IF Backend = "redis" /\ x # None /\ x.expires <= now + 1 THEN None ELSE x

StoreTick ==
    /\ now' = now + 1
    /\ signups'    = [m \in Mobiles   |-> Alive(signups[m])]
    /\ byUsername' = [u \in Usernames |-> Alive(byUsername[u])]
    /\ byEmail'    = [e \in Emails    |-> Alive(byEmail[e])]
    /\ byMobile'   = [m \in Mobiles   |-> Alive(byMobile[m])]

\* A restart of the process empties the in-memory maps; Redis keeps its keys.
StoreRestart ==
    IF Backend = "memory"
    THEN /\ signups'    = [m \in Mobiles   |-> None]
         /\ byUsername' = [u \in Usernames |-> None]
         /\ byEmail'    = [e \in Emails    |-> None]
         /\ byMobile'   = [m \in Mobiles   |-> None]
    ELSE UNCHANGED storeVars

StoreTypeOK ==
    /\ now \in Nat
    /\ signups    \in [Mobiles   -> PendingSignup \cup {None}]
    /\ byUsername \in [Usernames -> IndexEntry \cup {None}]
    /\ byEmail    \in [Emails    -> IndexEntry \cup {None}]
    /\ byMobile   \in [Mobiles   -> IndexEntry \cup {None}]

=============================================================================
