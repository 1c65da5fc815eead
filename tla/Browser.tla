------------------------------ MODULE Browser ------------------------------
(***************************************************************************)
(* A browser in front of the sessions: auth/http/handler.go gives a web    *)
(* client its refresh token in a cookie, beside a second cookie that the   *)
(* page must repeat in a header of every refresh and logout.  The tabs of  *)
(* a browser share the two cookies; each has one request under way, the    *)
(* cookies go along as they are when it is sent, and answers arrive in any *)
(* order or not at all.  The server is module Sessions, whose steps are    *)
(* taken here for the request a slot serves.                               *)
(*                                                                         *)
(* The CSRF token is random and new with every refresh token, so it is     *)
(* named after the refresh token it was issued with.  An answer that sets  *)
(* or clears no cookie changes nothing in the browser: its delivery is one *)
(* step with the refusal.                                                  *)
(***************************************************************************)
EXTENDS Sessions

CONSTANT Tabs  \* tabs of the browser

Token == Tokens \cup {None}

\* The cookies of a browser.
Jar == [refresh : Token, csrf : Token]

\* An answer with cookies sets both to a new pair or clears both.
Answers == Tokens \cup {"cleared"}

ASSUME BrowserAssumption == "cleared" \notin Tokens /\ None \notin Answers /\ None \notin Tabs

VARIABLES
    jar,      \* the cookies of the browser
    stage,    \* how far the request of a tab is
    header,   \* the CSRF token in its header
    sent,     \* the cookies that went with it
    serving,  \* the tab whose request a slot serves
    answer,   \* the answer on its way to a tab
    stray,    \* history: tokens the browser dropped unused, or never received
    lost      \* history: tokens that went with a request whose answer was lost

browser == <<jar, stage, header, sent, serving, answer, stray, lost>>
server == <<rows, cache, sessions, old, used, claims,
            pc, token, bearer, acct, want, user, exchanged>>
browserVars == <<server, browser>>

NoCookies == [refresh |-> None, csrf |-> None]

\* "refresh" and "logout": such a request is on its way to the server.
Stages == {"idle", "refresh", "logout", "served", "answered"}

BrowserTypeOK ==
    /\ TypeOK
    /\ jar \in Jar
    /\ stage \in [Tabs -> Stages]
    /\ header \in [Tabs -> Token]
    /\ sent \in [Tabs -> Jar]
    /\ serving \in [Procs -> Tabs \cup {None}]
    /\ answer \in [Tabs -> Answers \cup {None}]
    /\ stray \subseteq Tokens
    /\ lost \subseteq Tokens

BrowserInit ==
    /\ Init
    /\ jar = NoCookies
    /\ stage = [b \in Tabs |-> "idle"]
    /\ header = [b \in Tabs |-> None]
    /\ sent = [b \in Tabs |-> NoCookies]
    /\ serving = [p \in Procs |-> None]
    /\ answer = [b \in Tabs |-> None]
    /\ stray = {}
    /\ lost = {}

----------------------------------------------------------------------------
(***************************************************************************)
(* The page asks for a refresh or a logout.  The header repeats the CSRF   *)
(* cookie the page has read: None stands for every header but the current  *)
(* one.  The browser adds the cookies.                                     *)
(***************************************************************************)
Send(b) ==
    /\ stage[b] = "idle"
    /\ \E ask \in {"refresh", "logout"} : stage' = [stage EXCEPT ![b] = ask]
    /\ \E h \in {jar.csrf, None} : header' = [header EXCEPT ![b] = h]
    /\ sent' = [sent EXCEPT ![b] = jar]
    /\ UNCHANGED <<server, jar, serving, answer, stray, lost>>

Serve(p, b) ==
    /\ stage' = [stage EXCEPT ![b] = "served"]
    /\ serving' = [serving EXCEPT ![p] = b]
    /\ UNCHANGED <<jar, header, sent, answer, stray, lost>>

(***************************************************************************)
(* The handlers.  A login is any request that is answered with tokens and  *)
(* brings no refresh token: a signup, a login, a completion.  No cookie of *)
(* it is read, so it is sent when it is served.                            *)
(***************************************************************************)
ServeLogin(p, b) ==
    /\ stage[b] = "idle"
    /\ CreateUser(p) \/ Login(p) \/ LoginDirect(p) \/ CompleteProfile(p)
    /\ Serve(p, b)

\* refreshTokenForClient, then requireCSRFFromWeb.
Admitted(b) ==
    /\ sent[b].refresh # None
    /\ sent[b].csrf # None
    /\ header[b] = sent[b].csrf

ServeToken(p, b) ==
    /\ Admitted(b)
    /\ \/ stage[b] = "refresh" /\ Refresh(p)
       \/ stage[b] = "logout" /\ Logout(p)
    /\ token'[p] = sent[b].refresh
    /\ Serve(p, b)

\* The request of b is over.
Clear(b) ==
    /\ header' = [header EXCEPT ![b] = None]
    /\ sent' = [sent EXCEPT ![b] = NoCookies]

Refuse(b) ==
    /\ stage[b] \in {"refresh", "logout"} /\ ~Admitted(b)
    /\ stage' = [stage EXCEPT ![b] = "idle"]
    /\ Clear(b)
    /\ UNCHANGED <<server, jar, serving, answer, stray, lost>>

\* A step inside the service; a request that ends without tokens is refused.
Work(p) ==
    /\ pc[p] # "idle"
    /\ LoginStep(p) \/ RefreshStep(p) \/ ProfileStep(p)
    /\ IF pc'[p] = "idle"
       THEN /\ stage' = [stage EXCEPT ![serving[p]] = "idle"]
            /\ serving' = [serving EXCEPT ![p] = None]
            /\ Clear(serving[p])
       ELSE UNCHANGED <<stage, serving, header, sent>>
    /\ UNCHANGED <<jar, answer, stray, lost>>

Reply(p, a) ==
    /\ answer' = [answer EXCEPT ![serving[p]] = a]
    /\ stage' = [stage EXCEPT ![serving[p]] = "answered"]
    /\ serving' = [serving EXCEPT ![p] = None]
    /\ UNCHANGED <<jar, header, sent, stray, lost>>

Issued == CHOOSE t \in used' : t \notin used

\* Mutant of AnswerTokens: the answer to a refresh leaves the cookies alone.
AnswerTokensOnLogin(p) ==
    IssueTokenPair(p) /\ Reply(p, IF token[p] = None THEN Issued ELSE token[p])

\* applyRefreshTokenTransport: the new pair in both cookies, none of it in the body.
AnswerTokens(p) == IssueTokenPair(p) /\ Reply(p, Issued)

\* Mutant of AnswerLogout: the cookies are cleared and the session is kept.
AnswerLogoutCookiesOnly(p) ==
    /\ pc[p] = "logout"
    /\ Return(p)
    /\ UNCHANGED <<rows, cache, sessions, old, used, claims, exchanged>>
    /\ Reply(p, "cleared")

AnswerLogout(p) == LogoutDelete(p) /\ Reply(p, "cleared")

----------------------------------------------------------------------------
(***************************************************************************)
(* The network and the browser.                                            *)
(***************************************************************************)

\* Mutant of Received: a cookie is emptied, not deleted.
ReceivedEmpty(a) == [refresh |-> a, csrf |-> a]

\* The cookies after an answer.
Received(a) == IF a = "cleared" THEN NoCookies ELSE [refresh |-> a, csrf |-> a]

Done(b) ==
    /\ stage' = [stage EXCEPT ![b] = "idle"]
    /\ answer' = [answer EXCEPT ![b] = None]
    /\ Clear(b)
    /\ UNCHANGED <<server, serving>>

\* An answer drops the token the browser holds: history, unless it went with the request.
Deliver(b) ==
    /\ stage[b] = "answered"
    /\ jar' = Received(answer[b])
    /\ stray' = stray \cup ({jar.refresh} \ {None, sent[b].refresh})
    /\ Done(b)
    /\ UNCHANGED lost

\* The request is lost.
LoseRequest(b) ==
    /\ stage[b] \in {"refresh", "logout"}
    /\ stage' = [stage EXCEPT ![b] = "idle"]
    /\ Clear(b)
    /\ UNCHANGED <<server, jar, serving, answer, stray, lost>>

\* The answer is lost, or the tab was closed.
LoseAnswer(b) ==
    /\ stage[b] = "answered"
    /\ stray' = stray \cup ({answer[b]} \cap Tokens)
    /\ lost' = lost \cup ({sent[b].refresh} \ {None})
    /\ Done(b)
    /\ UNCHANGED jar

\* MaxAge of both cookies is the lifetime of the token.
CookiesExpire ==
    /\ jar.refresh \in old
    /\ jar' = NoCookies
    /\ UNCHANGED <<server, stage, header, sent, serving, answer, stray, lost>>

TokenExpires(t) == Expire(t) /\ UNCHANGED browser

BrowserNext ==
    \/ \E b \in Tabs : Send(b) \/ LoseRequest(b) \/ Refuse(b) \/ Deliver(b) \/ LoseAnswer(b)
    \/ \E p \in Procs, b \in Tabs : ServeLogin(p, b) \/ ServeToken(p, b)
    \/ \E p \in Procs : Work(p) \/ AnswerTokens(p) \/ AnswerLogout(p)
    \/ \E t \in Tokens : TokenExpires(t)
    \/ CookiesExpire

BrowserSpec == BrowserInit /\ [][BrowserNext]_browserVars

----------------------------------------------------------------------------
(***************************************************************************)
(* Properties.                                                             *)
(***************************************************************************)

Live(t) == sessions[t] # None /\ t \notin old

Underway(t) == \E b \in Tabs : answer[b] = t

\* A live session that the browser does not hold was dropped by it: for a new login, for
\* an answer that overtook another, or with an answer that was lost.  Refresh and logout
\* take the token that they were sent out of use.
LiveSessionsHeld ==
    \A t \in Tokens : Live(t) => t = jar.refresh \/ Underway(t) \/ t \in stray

\* The refresh cookie leads to a session, unless it has expired, or a request that took
\* the token out of use is still to be answered, or its answer was lost.  No order of the
\* answers brings a used token back into the browser.
DeadCookieWaitsForAnswer ==
    jar.refresh # None /\ jar.refresh \notin old /\ sessions[jar.refresh] = None =>
        \/ jar.refresh \in lost
        \/ \E b \in Tabs : stage[b] \in {"served", "answered"} /\ sent[b].refresh = jar.refresh
=============================================================================
