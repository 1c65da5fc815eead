# Wesko backend: models, checks and proofs

This directory is a verification development of the Wesko Go backend: TLA+ modules
translated from the source under `src/`, TLC configurations that check them on small
instances, and proofs, checked by TLAPS, of what holds for every instance.
`PROJECT.json` is the index: it maps every definition to the lines it stands for, and lists
the runs, the mutants that show that each property can fail, the hazards, the findings and
the theorems. Run TLC and TLAPS in this directory, for example

    tlc -workers 2 -config signup_redis.cfg MCSignup.tla
    tlapm SignupProofs.tla

## 1. The system

One process (`src/main.go`) serves HTTP. It keeps users, passwords, SSO accounts and the
catalog in Postgres through GORM, and everything short-lived - pending signups, login OTP
states, refresh tokens, cached users, rate-limit counters - in Redis, or, with Redis
disabled, in maps inside the process. Twilio Verify sends and checks one-time codes; Google
confirms identities. Every HTTP request is a goroutine; nothing but Postgres constraints,
single Redis commands and the mutexes of the in-memory stores orders two of them, so a
handler is a sequence of separate calls with everybody else's in between.

| Component (source) | State | Operations | Talks to |
| --- | --- | --- | --- |
| Pending-signup store (`src/cache/redis/pending_signup_store.go`, `src/cache/memory/stores.go`) | payload by mobile, indices by username, e-mail, mobile; expiry | Save, GetBy..., DeleteByMobile | OTP signup |
| OTP signup (`src/auth/service/service.go`) | none between calls | RequestSignupOTP, ResendSignupOTP, VerifySignupOTP, SignupStatus | store, provider, users table |
| OTP provider (`src/auth/otp`) | codes, at Twilio | SendVerification, CheckVerification | signup, OTP login |
| OTP login (`service.go`, `otp_state_store.go`) | resend count, last message and expiry per mobile | RequestLoginOTP (and ResendLoginOTP), VerifyLoginOTP | store, provider, users, sessions |
| Sessions (`service.go`, `src/cache/*`, `src/auth/http/handler.go`) | refresh tokens; access tokens are self-contained | IssueTokenPair, Refresh, Logout, the bearer middleware | users, user cache |
| Users table and user cache (`src/dbase/userdao/postgres.go`, `src/auth/cached_repository.go`) | users, passwords, SSO accounts; users by username | RegisterUser, CreateSSOUser, LinkSSOAccount, UpdateUser, lookups | everything in auth |
| Google SSO (`service.go`) | none between calls | GoogleLogin | users table, sessions |
| Profile completion (`service.go`, `handler.go`) | none between calls | CompleteProfile | users table, user cache, sessions |
| Rate limiter (`rate_limiter.go`, `stores.go`, `handler.go`) | a counter and the end of its window per key | Allow, enforceRateLimit | OTP handlers |
| Catalog (`src/catalog`) | categories, products with images and SKUs | create, update, delete, list | Postgres |
| Web transport (`handler.go`) | refresh and CSRF cookie, in the browser | set, read, clear, CSRF check | sessions |
| Mobile normalisation (`src/auth/mobile.go`) | none | NormalizeIndianMobile | everything that takes a mobile |
| Validation, error mapping | none | pure functions | handlers |
| Configuration, start, shutdown, logging, database connection, build info | read once | - | - |

What is hard about it, and what makes each part correct:

* **Pending signups.** Four keys per signup that several requests write, delete and let
  expire independently, with a check (six lookups) far from the save it protects. Correct:
  the keys agree; duplicates are blocked; a verified account was really verified; a finished
  signup stays finished; a status request does not lose a signup that is just finishing.
* **Resend limits.** A count that is read, checked, and written back after a call to the
  provider. Correct: the limit and the cooldown hold; nobody is refused for messages that
  were never sent.
* **Sessions.** A refresh reads a session, looks the user up by name through a cache, deletes
  the session (ignoring errors) and issues another; a completion renames the account under
  it. Correct: full access only for complete accounts; deleted tokens stay dead; tokens lead
  to the account they were issued for.
* **Rate limiter.** `INCR` and `EXPIRE` are two calls. Correct: no more than the limit per
  window, no refusal without cause, every window ends.
* **Users table.** Three operations create or change users after lookups that may be stale,
  and the SSO table has no unique index. Correct: each user can log in, identities lead to
  the owner of their e-mail, a verified mobile was approved.
* **One table, three writers.** A signup looks up the table and the pending signups, then
  waits for its code; Google logins and completions look at the table only. Correct: an
  approved signup is turned down only for what another took meanwhile; a mobile, however
  spelled, belongs to one account.
* **Web transport.** Tabs share two cookies and answers overtake each other or get lost.
  Correct: no order of answers brings a used token back; a live session is left behind only
  where the browser dropped it.
* **Catalog.** Read-modify-write of whole rows with their children, soft deletion, and reads
  before and after the transaction. Correct: partial updates change only what they name;
  the dead stay dead; answers of "not found" are true.

The hazards behind these, each at the line where it bites and with the properties that would
notice it, are listed under `hazards` in `PROJECT.json`.

## 2. Modules and how they read the code

The same conventions hold everywhere. A request is a process of `Procs`; `pc[p]` names its
next step. A step is one call to a store, the provider or the database, with the local
computation before the next call; between two steps anybody else may run. `Return` ends a
request and clears its locals. `Abort(p)` ends one between any two steps: a call failed, the
context was cancelled, the connection is gone; a call that took effect and still reported an
error is its step followed by `Abort`. Where the code ignores an error, the step itself has a
second outcome. History variables, marked as such, record the past for a property and never
enable or disable a step; the guards that bound a model (`MaxTime`, `MaxSends`, `TokenLeft`)
are named as bounds.

* **`PendingSignupStore`** - the store under both implementations. `Backend = "redis"`: every
  key expires on its own (`StoreTick`) and nothing cleans up after an overwritten signup.
  `"memory"`: maps under a mutex where a read deletes what it finds expired (`Touch`), an index
  answers only if its payload is alive (`MobileOf`), and `Save` first removes the entries of
  the signup it replaces (`Replaced`). At the very moment of expiry a payload is gone from
  Redis and still alive in memory, as in the code.
* **`Signup`** (extends the store) - the four operations. Availability is six steps
  (`CheckUsername` ... `CheckIndexMobile`, `PendingConflict`), then `Send`, then `SaveSignup`.
  A resend reads, checks and sends, saves. A verification reads, compares ages, asks the
  provider, inserts the user, deletes the pending signup - in Redis in two steps, a read and
  then the four `DEL`s. A status request reads the store, then the table, and its answer
  stays visible for one step.
* **`Sessions`** - refresh store, user cache and users table for login (by password, OTP,
  Google, or just signed up), refresh, logout and profile completion. The cached repository is
  three steps (cache, table, fill), and the lookup of a mobile two, so stale fills happen. Access tokens are the set `claims`,
  which only grows: nothing revokes one.
* **`Browser`** (extends `Sessions`) - the cookies of a browser with several tabs. A tab sends
  with the cookies of the moment (`Send`); the handler admits the request or refuses it
  (`Admitted`: cookie present, CSRF header equal to the CSRF cookie), takes the steps of
  `Sessions` for it, and answers with a new pair in both cookies (`AnswerTokens`), with
  cleared cookies (`AnswerLogout`) or without touching them. Answers are delivered in any order;
  requests and answers get lost; cookies expire with their token. A CSRF token is random and
  new with each refresh token, so it is named after that token.
* **`LoginOTP`** - the login OTP flow over both state stores. `Init` chooses the store.
  Requests for unknown or unverified mobiles end silently, as the code has it. The provider keeps
  codes per mobile, so a code of a signup counts as well (`SignupCode`).
* **`FixedWindow`** - what a limiter promises, whatever it counts in: calls of a key fall into
  windows, a window lets at most its limit through, and only its end makes room.
* **`RateLimiter`** - `enforceRateLimit` asking for the address and then the mobile, in-memory
  `Allow` in one step, Redis `Allow` as `Incr` and `SetExpiry`, each of which may take effect
  and lose its answer. The Redis client repeats a command whose answer it lost, so an `INCR` may
  count twice and then find itself not the first, without an `EXPIRE`. The in-memory limiter reads
  the clock just before it takes its lock; the model reads it in the same step. Time is relative to the windows, so behaviours do not run out; the history
  `recent` counts the calls allowed in the last 1, 2, ..., `Window` ticks.
  `ImplementsFixedWindow` maps it to `FixedWindow`: a window is open while its counter is
  above zero, and has allowed what was granted.
* **`Accounts`** - the users table with its passwords and SSO accounts: the end of a signup
  (`RegisterUser`), `GoogleLogin` from the confirmed identity on, `CompleteProfile`. An SSO
  account is a row in a sequence per identity: the blank field that is meant to declare
  the unique constraint (`src/dbase/userdao/postgres.go:43`) is not a column to GORM, so one
  identity may be linked twice and the lookup takes the oldest row.
* **`Mobile`** - `NormalizeIndianMobile` on sequences of characters, with the digits it accepts
  (`unicode.IsDigit`, so not only ASCII) and the bytes it counts, one to four to a digit, beside a reference: the
  subscriber that a spelling dials. `Number` picks the digits by their places instead of with
  the recursive `SelectSeq`, so that it can be proved about; `MCAccounts` has TLC compare the
  two on the run's spellings.
* **`Registration`** (extends `Accounts` and `Mobile`) - signups, Google logins and completions
  over one users table. A signup looks the table up in three steps, then the pending signups,
  is saved, waits or expires, and, once its code is approved, is registered or turned
  down and forgotten. The four keys of the pending-signup store, resends and codes are
  `Signup`'s; here the three indices are one map and their lookup one step, which may miss a rival as
  finding 1 shows.
  `overtaken` is history: which parts of a signup were written to a row since it was requested.
  The mobiles of the tables are assumed to be what `NormalizeIndianMobile` returns and leaves
  alone (`IsNormalized`): every operation that stores one normalises it first.
* **`Catalog`** - creation, partial update and deletion of categories and products. Reads of a
  product are separate statements (`ReadRow`, `ReadImages`, `ReadSKUs`); `Write` is one
  transaction that replaces the row and its children, refused for deleted items; `Reread` is
  the answer's read after the commit. Inserted SKUs and categories are active whatever was
  sent, since GORM puts a column's default for a false value (`Inserted`). "Not found" is that of
  the item; a category that is not found is another error and ends the request.
* **`MC...`** modules give constants their values; **`...Proofs`** modules hold the theorems.

Data is kept only as far as a property can tell: hashes, codes, texts, tokens are model values
or left out; an error is the fact of ending early, not its wording (so it makes no difference
here that duplicate-key errors reach the client as internal errors: GORM translates them only
when asked to, and it is not).

## 3. Runs

| Run | Instance | What it shows |
| --- | --- | --- |
| `signup_memory` | in-memory store, 2 requests at once, 2 usernames on 1 mobile, faults and restarts, clock to 3, lifetime 2 | the three indices and payloads agree, accounts are verified, status misses nothing |
| `signup_redis` | Redis, 2 requests at once, 1 username and e-mail on 2 mobiles, faults, clock to 2, lifetime 1 | the mobile index mirrors the payload through the two-step deletion and expiry; status misses nothing |
| `signup_sequential` | Redis, 1 request at a time, 2 mobiles, usernames and e-mails, clock to 4, lifetime 2 | resend limit, finality of a completed signup, no loss of a waiting one |
| `signup_dup_expiry` (violated) | Redis, 1 request at a time, clock to 3 | duplicates among pending signups get through (finding 1) |
| `signup_resurrect` (violated) | 2 requests, 1 identity | a completed signup is pending again (finding 2) |
| `sessions` | cache on, 2 requests, 2 users, 2 names, 3 tokens, faults | full access needs a complete profile; deleted tokens stay deleted |
| `sessions_sequential` | browser with 2 tabs, a server that takes 1 request at a time, no cache, 1 user, 2 names, 3 tokens, lost and late answers, expiring tokens and cookies | a token is exchanged once, a profile completed once, full sessions lead to their account; no live session is left that the browser did not drop; a dead cookie has a missing answer behind it |
| `sessions_repeat` (violated) | 1 request, 1 user, 2 names | the repeated completion is not told what the document says (finding 3) |
| `rate_limiter` | either store, 2 requests, an address (limit 2), a mobile (limit 1), one without limit, window of 2 ticks, faults | rolling limit, earned refusals, endless windows only after a cut-off call, every other window ends; both stores implement `FixedWindow` |
| `login_otp` | either store, 2 requests, 1 mobile, lifetime 3, cooldown 2, 1 resend, clock to 5, 5 messages, faults and restarts | states are never inflated; limit and cooldown hold for mobiles whose requests did not overlap |
| `accounts` | 1 signup beside 2 Google logins or completions, 2 users, 1 identity and 2 e-mails that share a local part, 2 names, 4-digit mobiles in 4 spellings, faults | every user can log in, links lead to the e-mail's owner, verified mobiles were approved; an approved signup is turned down only when overtaken; a mobile has one account |
| `catalog` | 2 requests, 1 category, 2 products, 2 slugs, SKU lists of up to two that collide by case, faults | unnamed fields survive, deleted items stay as they are, categories exist, "not found" is true |

**Why the bounds are enough.** Every race here is between two requests: one that has read and
one that changes what was read; a third adds no new kind of pair to a property about one
mobile, token, user or item, and the theorems confirm that where they exist. Two mobiles,
users or products are the least at which an index can lead to the wrong one. The clock runs
past the lifetime of what was saved first while something saved later is alive: lifetime 1 and
clock 2 or 2 and 3 with two requests, 2 and 4 alone. `signup_memory` overwrites a mobile's
signup with another username's, `signup_redis` leads an index from one mobile to another; both
at once, with faults, is too much for TLC and covered by `signup_sequential` and the proofs.
`VerifiedAccounts` and the types are checked by `signup_memory` and proved for both stores. `MaxResends = 1` makes refusal by the limit and by
the cooldown both reachable. In `rate_limiter` limits 2 and 1 differ so that the first
allowed call of a window and the last are distinct in one key and the same in the other. In `sessions` three tokens allow a login and two exchanges, and in `sessions_sequential` two
logins and an exchange, so that an answer can overtake another and drop a token; a second user
there passes as well and takes TLC three times as long. `accounts` has one signup slot since what
overtakes a signup is a Google login or a completion (the theorem covers any number of
signups), one identity since the races are about linking one identity twice, and mobiles of
four digits instead of ten: the trunk zero, the country code and a number that begins
with the digits of the country code are all there, and a digit of three bytes.
Symmetry is used only for model values and never in the run with a liveness property.

**Sequential runs.** The code does not ensure the properties of `signup_sequential` and
`sessions_sequential` for overlapping requests: with `Procs = {p1, p2}` TLC shows in seconds a
resend limit exceeded by two resends that read one count, a newer pending signup removed by
the clean-up of an older one, a profile completed twice, a refresh token exchanged twice.
`docs/otp-auth-decisions.md` (§12) asks for a cooldown and a maximum number of resends, and
`src/README.md:59` keeps pending data until its verification succeeds, but neither speaks of
requests that overlap, so these are noted here and in the hazards and are not findings; the
one overlap that contradicts the second sentence outright is finding 2.
What the sequential runs do show is that every sequence of complete calls, with time passing
and keys expiring between any two steps, keeps them, and the theorems of section 4 say the same
for every number of users, mobiles and tokens. `signup_sequential` has no failing calls because
of the resend limit: a resend that ends between the message and the save is not counted. The
two other properties of the run hold with failures as well, and the theorems say so.

**Fairness.** Only `rate_limiter` has a liveness property. `FairSpec` assumes that time goes on
(`WF(Tick)`) and that a request which has started makes its next call
(`WF(Continue(p))`): goroutines are scheduled, and a call of the Redis client
returns, if need be with the error of its read timeout. Nothing is assumed of clients - no request need ever start, and requests may never
stop starting - nor of failures.

**Findings.** (1) `ensureSignupAvailability` stops at the first index that answers. In the run
the index of a username is read while its signup is alive, the clock then takes payload and
index away together, and `pendingConflict` finds nothing and calls the whole identity free; the
index of the e-mail, which another pending signup holds, is never read, against §13 of
`docs/otp-auth-decisions.md`. (2) A resend saves what
it read before the verification completed and deleted the signup. (3) A second profile
completion with the same partial token looks up a username that is gone and never reaches the
test for "profile already complete" (`docs/frontend-auth-integration.md:154`). Each has a
violation run with a trace.

## 4. What is proved

For every value of the constants that satisfies the named assumptions, any number of requests,
identities, tokens and keys, and every choice of failures and expiry:

* **`SignupProofs`** - `TypeCorrect`, `AccountsAreVerified`, `MobileIndexMirrors`,
  `MemoryIndexLeadsToOwner`, `StatusIsTruthful`. The type invariant is not inductive alone: it
  is `TypeInv`, with `LocalsOK` (a request at a step that uses an identity, a mobile or a
  pending signup has one) and `KeysOK` (a payload is stored under its own mobile). The store
  is handled in layers: lemmas say what `Save`, `Drop`, `Touch`, expiry and restart do to the
  keys, every step of `Signup` is shown to change the store by one of these, and the two index
  invariants are proved from those lemmas alone. `VerifiedAccounts` needs that what is read or
  stored was offered and that a request about to register has an approved mobile.
  `StatusMissesNothing` needs that a status request about to read the table has met a gap or
  works on a registered mobile: accounts are never removed, and a verification inserts before
  it deletes.
  `CompletedSignupsStay` and `PendingSignupsKept` assume one request at a time: what a request
  has read is then what the store holds until it has acted on it, unless it expires
  (`SequentialInv`). The first holds in either store whatever fails and restarts: a verification
  cut short after the insertion leaves a registered mobile pending, and a later resend saves
  only over the signup it has read, or not at all. The second allows failures in Redis only,
  as a restart empties the in-memory store. `ResendsAreLimited` needs that no call fails, and the
  Redis store: the count that is stored falls behind the messages sent only between a message
  and its save (`CountInv`). In memory the statement fails in the one instant at which a signup has reached
  its end, when `GetByMobile` still returns it and `Save` already refuses it, so the theorem
  does not claim it.
* **`SessionsProofs`** - `TypeCorrect`, `FullAccessIsEarned`, `SessionsStayDeleted`. The
  invariant behind the second says that every copy of an account, in the cache, in a session,
  in a token or in a request, "stands" against the row of its id: the row exists and is
  complete if the copy is. Rows never become incomplete again, so stale copies stay good.
  `TokensExchangedOnce`, `ProfilesAreFinal` and `FullSessionsNameTheirAccount` assume one
  request at a time, which they need (see "Sequential runs"); the first also that no call fails,
  as `Refresh` ignores a failing deletion and issues the new tokens all the same. A step of a
  request does one of six things to its token (`Effect`), so the exchange is argued over these; an update is
  written only to a row that is incomplete (`UpdatesIncomplete`), and copies of complete
  accounts are the row itself (`CopiesExact`).
* **`BrowserProofs`** - `BrowserImplementsSessions`: a browser and the server together take
  steps of `Sessions` or leave it alone, so `BrowserKeepsSessions` and `BrowserOneAtATime` carry
  its theorems over. `SessionsAreHeld`, `DeadCookiesWait` and `BrowserTypeCorrect` assume that
  no call fails and hold for any number of tabs and of requests served at once, which the run
  does not reach. The invariant pairs each slot with the tab it serves and the token that went
  with its request (`Served`), and follows a token from its issue (`Fresh`) over the answer
  and the jar to the request that takes it out of use (`Spent`).
* **`RateLimiterProofs`** - `TypeCorrect`, `RefusalsAreEarned`, `WindowsGetTheirEnd`. The
  invariant relates the counter of a key to what was granted in the window and to the calls
  that were counted and have no answer yet, or lost it (`cut`).
  `LimiterImplementsFixedWindow` and `LimitPerWindow`: every step of either limiter is an
  `Allow`, an `Open`, a `Close` or a stutter of `FixedWindow`, so no window lets more through than its limit. The
  bound needs that grants never exceed the counter while the counter is within the limit.
  `CallsStayWithinTwiceTheLimit`: any `Window` ticks in a row let at most twice the limit
  through, in either store and with lost answers. Its invariant (`RecentInv`) says that of the
  calls in any stretch of the last ticks those that came before the open window are at most the
  limit, that a stretch within the open window has at most what it granted, and that between
  windows the last `Window` ticks are within one limit.
* **`LoginOTPProofs`** - `TypeCorrect`, `StatesNeverInflated`, `LimitHolds`, `CooldownHolds`.
  States, and what requests have read, are covered by the messages sent; for a mobile whose
  requests never overlapped, the state is exact: its count is that of the messages of its
  streak and its time that of the last one.

* **`AccountsProofs`** - `TypeCorrect`, `UsersCanLogIn`, `LinksAreRight`, `MobilesAreApproved`.
  Users never disappear and never change their e-mail, so a user found by e-mail is still the
  one to link (`FoundByEmail`) and a copy of a profile has the e-mail of its row
  (`ReadIncomplete`). Only signups verify a mobile, and their users are complete, so a profile
  that was read incomplete was read unverified. The lemma `MobilesAreUnique`
  restates the unique index on the mobile for the rows that all of them write; it is used by
  `OneAccount` below and says nothing of the checks in the service.
* **`RegistrationProofs`** - `RegistrationTypeCorrect`, `RegistrationImplementsAccounts`,
  `RegistrationKeepsAccounts`, `TurnedDownWhenOvertaken`, `NormalizedStays`, `SpellingsAgree`,
  `OneAccount`. Every step of the composition is a step
  of `Accounts` or leaves its tables alone, so the theorems of `AccountsProofs` carry over. The
  invariant of a signup, under way or pending, is that a part it has looked up is on no row
  unless it is in `overtaken`; a row can only break it by being written, which marks it.
  The last three are about mobiles, for any `Length` and any spelling: what
  `NormalizeIndianMobile` returns it returns again, and two valid spellings in ASCII digits are
  stored alike exactly when they dial one subscriber. The argument counts: the digits of a
  spelling are its places in order (`NthGives`), a valid spelling is stored as the prefix and a
  number of `Length` bytes that begins with 6, 7, 8 or 9 (`ValidIsStored`), and two stored numbers
  that dial alike are equal, also when digits of several bytes make them shorter than what is
  compared (`StoredInjective`). With the unique mobiles of the table, which the refinement carries over, a subscriber
  has at most one account.
* **`CatalogProofs`** - `TypeCorrect`, `UpdatesArePartial`, `CategoriesExist`, `NotFoundIsTrue`,
  `DeletedIsFinal`. `RequestOK` says what a request knows of what it read: categories it read
  or checked have rows, as rows are never removed (`CategoryKnown`); and while an item is not
  marked as overlapped, what was read of it, by whichever statements, is the item
  (`ReadExact`). Each action is shown to keep this for its own request, and `StoredGrows` is
  what all the others rely on meanwhile.

The proofs rest on the `ASSUME`s of the modules only: kinds of constants are disjoint, `None`
is none of them, bounds are naturals, `Procs` and `Tokens` are finite where they are counted,
the mobiles of the tables are normalised, and the requests a catalog client may send have fields
of the right kinds.

Only model-checked: the liveness property `EveryWindowEnds` (liveness and `ENABLED` are beyond the
prover), the violations, and that `Number` picks what `SelectSeq` picks, which is recursive and
would need an induction over data. Every other property of the runs is stated by a theorem.

## 5. What is not modelled

* **Shutdown**: `main` cancels the context of the requests under way and then waits for them.
  The models see it as requests that end early between any two steps, which they all allow;
  there is no state left that the order of the shutdown itself could break.
* What **handlers** decode and validate is an input assumption of the operations; how they map
  errors to statuses changes nothing. In the browser, a failing random source (the tokens are
  then sent in the body) and the fixed attributes of the cookies are left out.
* **Listings and lookups** that change nothing and answer one query; **functions nothing calls**
  (`CreateSKU`, `UpdateSKU`, `DeleteSKU`, the `Replace...` functions, bulk upload jobs).
* The **Redis client's repeats** of commands other than `INCR`: they set or delete what is already
  set or deleted, except that a repeated `EXPIRE` starts the window again, within the same tick.
* A **restart under the in-memory limiter**, which forgets its windows and whose effect
  `src/README.md` names as the price of that mode; **memory growth** of the in-memory stores.
* Logging, tracing, configuration parsing, the database connection, build information and
  command-line tools: no state that a property is about.
* Cryptography, JWE encoding, password hashing and the exchange with Google are external.

## 6. Order of construction, and what could follow

Built in this order: `PendingSignupStore`, `Signup` and its proofs; `Sessions`; `RateLimiter`,
`LoginOTP`, `Accounts` and `Catalog`, each with its proofs; `FixedWindow` and the refinement;
`Browser`; `Mobile`; `Registration` and its proofs; the theorems about requests that come one
after the other, and about the browser; the rolling limit, the mobiles, and the signup theorems
under failures. What could follow: a pending-signup store that is one map
from mobiles to signups, as the abstraction of the four keys. The in-memory store implements it;
the Redis store does so only as long as no signup is overwritten, which leaves username and
e-mail keys behind, so the refinement needs that condition.
