--------------------------- MODULE BrowserProofs ---------------------------
(***************************************************************************)
(* Theorems about Browser for any number of tabs, requests, accounts and   *)
(* tokens, with any store.                                                 *)
(*                                                                         *)
(* Browser implements Sessions, so what is proved of the sessions holds    *)
(* behind a browser.  What holds of its cookies follows from an invariant  *)
(* that relates tabs, requests and answers: a request works on the token   *)
(* that its tab sent, a token on its way to the browser is new to it, and  *)
(* the token that an answered request brought is out of use.               *)
(***************************************************************************)
EXTENDS Browser, SessionsProofs

BrowserType ==
    /\ jar \in Jar
    /\ stage \in [Tabs -> Stages]
    /\ header \in [Tabs -> Token]
    /\ sent \in [Tabs -> Jar]
    /\ serving \in [Procs -> Tabs \cup {None}]
    /\ answer \in [Tabs -> Answers \cup {None}]
    /\ stray \subseteq Tokens
    /\ lost \subseteq Tokens

\* A request that is served belongs to one tab, which waits for it.
Served ==
    /\ \A p \in Procs : serving[p] = None <=> pc[p] = "idle"
    /\ \A p \in Procs : serving[p] # None =>
           stage[serving[p]] = "served" /\ token[p] = sent[serving[p]].refresh
    /\ \A p, q \in Procs : serving[p] # None /\ serving[p] = serving[q] => p = q
    /\ \A b \in Tabs : stage[b] = "answered" <=> answer[b] # None
    /\ \A b \in Tabs : stage[b] = "idle" => sent[b].refresh = None

\* Tokens that the browser has seen.
Seen == {jar.refresh} \cup {sent[b].refresh : b \in Tabs}

\* A token on its way to the browser is new to it, and good until it expires.
Fresh ==
    /\ Seen \ {None} \subseteq used
    /\ \A b \in Tabs : answer[b] \in Tokens =>
           /\ answer[b] \in used \ Seen
           /\ sessions[answer[b]] # None \/ answer[b] \in old
    /\ \A b, c \in Tabs : answer[b] \in Tokens /\ answer[b] = answer[c] => b = c

\* A request that has been answered has taken its token out of use.
Spent ==
    \A b \in Tabs : stage[b] = "answered" /\ sent[b].refresh # None =>
        sessions[sent[b].refresh] = None

\* What has made the cookie a dead one.
DeadCookieHasCause ==
    jar.refresh # None /\ jar.refresh \notin old /\ sessions[jar.refresh] = None =>
        \/ jar.refresh \in lost
        \/ \E b \in Tabs : stage[b] = "answered" /\ sent[b].refresh = jar.refresh
        \/ \E p \in Procs : pc[p] = "issue" /\ token[p] = jar.refresh

ServerInv == IInv /\ TokenInv

Related == Served /\ Fresh /\ Spent /\ DeadCookieHasCause /\ LiveSessionsHeld

BInv == BrowserType /\ Related

----------------------------------------------------------------------------
(***************************************************************************)
(* Browser implements Sessions.                                            *)
(***************************************************************************)
LEMMA BrowserStepsSessions == [BrowserNext]_browserVars => [Next]_vars
  <1> SUFFICES ASSUME [BrowserNext]_browserVars PROVE [Next]_vars
    OBVIOUS
  <1>1. UNCHANGED server => UNCHANGED vars
    BY DEF server, vars
  <1>2. ASSUME NEW b \in Tabs, Send(b) \/ LoseRequest(b) \/ Refuse(b) \/ Deliver(b) \/ LoseAnswer(b)
        PROVE  UNCHANGED server
    BY <1>2 DEF Send, LoseRequest, Refuse, Deliver, LoseAnswer, Done
  <1>3. ASSUME NEW p \in Procs, NEW b \in Tabs, ServeLogin(p, b) \/ ServeToken(p, b)
        PROVE  Next
    BY <1>3 DEF ServeLogin, ServeToken, Next, LoginStep, RefreshStep, LogoutStep, ProfileStep
  <1>4. ASSUME NEW p \in Procs, Work(p) \/ AnswerTokens(p) \/ AnswerLogout(p)
        PROVE  Next
    BY <1>4 DEF Work, AnswerTokens, AnswerLogout, Next, LogoutStep
  <1>5. ASSUME NEW t \in Tokens, TokenExpires(t) PROVE Next
    BY <1>5 DEF TokenExpires, Next
  <1>6. CookiesExpire => UNCHANGED server
    BY DEF CookiesExpire
  <1>7. UNCHANGED browserVars => UNCHANGED server
    BY DEF browserVars
  <1> QED BY <1>1, <1>2, <1>3, <1>4, <1>5, <1>6, <1>7 DEF BrowserNext

\* Behind a browser the server does what Sessions does: requests begin with what a tab
\* sends, and everything else is the browser's.
THEOREM BrowserImplementsSessions == BrowserSpec => Spec
  <1>1. BrowserInit => Init
    BY DEF BrowserInit
  <1> QED BY <1>1, BrowserStepsSessions, PTL DEF BrowserSpec, Spec

\* So nothing that tabs send, in whatever order, breaks what is proved of the sessions.
THEOREM BrowserKeepsSessions ==
    BrowserSpec => []FullAccessNeedsProfile /\ DeletedTokensStayDeleted
  <1> QED BY BrowserImplementsSessions, FullAccessIsEarned, SessionsStayDeleted, PTL

\* Tabs whose requests are served one after the other exchange a token once and leave a
\* complete profile and the sessions that lead to it alone.
THEOREM BrowserOneAtATime ==
    ASSUME OneAtATime, ~Faults
    PROVE  BrowserSpec =>
               []ExchangedOnce /\ []FullSessionNamesItsAccount /\ ProfileCompletedOnce
  <1> QED BY BrowserImplementsSessions, TokensExchangedOnce, ProfilesAreFinal,
             FullSessionsNameTheirAccount, PTL

----------------------------------------------------------------------------
(***************************************************************************)
(* What the steps of the server do to tokens.                              *)
(***************************************************************************)

LEMMA ServerInvNext ==
    ASSUME ServerInv, ~Faults, [BrowserNext]_browserVars
    PROVE  ServerInv'
  BY BrowserStepsSessions, InvNext, TokenInvNext DEF ServerInv, TokenInv

\* A request begins in an idle slot, without a token or with the one it presents.
LEMMA ServeEffect ==
    ASSUME ServerInv, NEW p \in Procs, NEW b \in Tabs, ServeLogin(p, b) \/ ServeToken(p, b)
    PROVE  /\ pc[p] = "idle" /\ pc'[p] # "idle"
           /\ Others(p)
           /\ UNCHANGED <<used, old, sessions>>
           /\ ServeLogin(p, b) => token'[p] = None
           /\ ServeToken(p, b) => token'[p] = sent[b].refresh /\ pc'[p] # "issue"
  <1> USE LocalsOf DEF ServerInv, TokenInv, TokenHeld, TokenSteps, Others, Found
  <1>1. CASE ServeLogin(p, b)
    <2>1. token[p] = None
      BY <1>1 DEF ServeLogin, CreateUser, Login, LoginDirect, CompleteProfile
    <2>2. /\ pc[p] = "idle" /\ pc'[p] # "idle" /\ Others(p) /\ token' = token
          /\ UNCHANGED <<used, old, sessions>>
      BY <1>1 DEF ServeLogin, CreateUser, Login, LoginDirect, CompleteProfile
    <2>3. ~ServeToken(p, b)
      BY <1>1 DEF ServeLogin, ServeToken
    <2> QED BY <2>1, <2>2, <2>3
  <1>2. CASE ServeToken(p, b)
    <2>1. ~ServeLogin(p, b)
      BY <1>2 DEF ServeLogin, ServeToken
    <2> QED BY <1>2, <2>1 DEF ServeToken, Refresh, Logout, Present
  <1> QED BY <1>1, <1>2

\* A step in the service keeps its token and, at most, deletes the session of it: as the
\* last step before it issues tokens, or because the token is old.
LEMMA WorkEffect ==
    ASSUME ServerInv, ~Faults, NEW p \in Procs, Work(p)
    PROVE  /\ pc[p] # "idle" /\ pc[p] # "issue"
           /\ Others(p)
           /\ UNCHANGED <<used, old>>
           /\ pc'[p] # "idle" => token'[p] = token[p]
           /\ \/ UNCHANGED sessions
              \/ /\ token[p] # None
                 /\ sessions' = [sessions EXCEPT ![token[p]] = None]
                 /\ token[p] \in old \/ pc'[p] = "issue"
  <1>1. Effect(p)
    BY LoginEffect, RefreshEffect, ProfileEffect DEF ServerInv, TokenInv, Work
  <1>2. pc[p] # "logout" /\ pc[p] # "idle" /\ pc[p] # "issue"
    BY DEF Work, LoginStep, CreateUser, Login, LoginDirect, LoginCache, LoginTable, LoginFill,
           RefreshStep, Refresh, Present, GetSession, CheckExpiry, DropExpired, Rotate,
           DeleteSession, RefreshCache, RefreshTable, RefreshFill, ProfileStep, CompleteProfile,
           ProfileCache, ProfileTable, ProfileFill, ReadAccount, NameCache, NameTable, NameFill,
           NameFound, MobileLookup, MobileFill, UpdateUser, Invalidate, Refused, CacheGet, TableGet, CacheFill
  <1>3. \/ UNCHANGED sessions
        \/ Deletes(p) /\ token[p] \in old
        \/ Rotates(p)
    BY <1>1, <1>2 DEF Effect
  <1>4. pc'[p] # "idle" => token'[p] = token[p]
    BY <1>1, <1>2 DEF Effect, Presents, Tokenless, Reads, Holds, Ends, Rotates
  <1>5. Rotates(p) => token[p] # None
    BY LocalsOf DEF ServerInv, Rotates, TokenSteps
  <1>6. token[p] \in old => token[p] # None
    BY SessionsAssumption DEF ServerInv, IInv, DataInv, TokenType
  <1> QED BY <1>1, <1>2, <1>3, <1>4, <1>5, <1>6 DEF Effect, Deletes, Rotates

\* The token issued by IssueTokenPair is the new one.
LEMMA IssuedEffect ==
    ASSUME ServerInv, NEW p \in Procs, IssueTokenPair(p)
    PROVE  /\ pc[p] = "issue" /\ pc'[p] = "idle" /\ token'[p] = None
           /\ Others(p)
           /\ UNCHANGED old
           /\ Issued \in Tokens \ used
           /\ used' = used \cup {Issued}
           /\ sessions'[Issued] # None
           /\ \A k \in Tokens \ {Issued} : sessions'[k] = sessions[k]
  <1>1. PICK t \in Tokens \ used :
            /\ used' = used \cup {t}
            /\ sessions'[t] # None
            /\ \A k \in Tokens \ {t} : sessions'[k] = sessions[k]
    BY IssueEffect DEF ServerInv
  <1>2. Issued = t
    BY <1>1 DEF Issued
  <1> QED BY <1>1, <1>2, IssueEffect DEF ServerInv

LEMMA LogoutDeleteEffect ==
    ASSUME ServerInv, NEW p \in Procs, LogoutDelete(p)
    PROVE  /\ pc[p] = "logout" /\ pc'[p] = "idle" /\ token'[p] = None
           /\ token[p] \in Tokens
           /\ Others(p)
           /\ UNCHANGED <<used, old>>
           /\ sessions' = [sessions EXCEPT ![token[p]] = None]
  BY LocalsOf DEF ServerInv, LogoutDelete, Return, Others, TokenSteps

----------------------------------------------------------------------------
(***************************************************************************)
(* The invariant, action by action.                                        *)
(***************************************************************************)

\* The tokens of tabs are among those seen.
LEMMA SentSeen == jar.refresh \in Seen /\ \A b \in Tabs : sent[b].refresh \in Seen
  BY Zenon DEF Seen

\* What the browser has in its variables.
LEMMA BrowserOf ==
    ASSUME BrowserType
    PROVE  /\ jar.refresh \in Tokens \cup {None}
           /\ \A b \in Tabs : sent[b].refresh \in Tokens \cup {None}
           /\ stage \in [Tabs -> Stages] /\ sent \in [Tabs -> Jar]
           /\ serving \in [Procs -> Tabs \cup {None}]
           /\ answer \in [Tabs -> Answers \cup {None}]
           /\ NoCookies \in Jar
  BY DEF BrowserType, Jar, NoCookies, Token

LEMMA BrowserTypeNext ==
    ASSUME BrowserType, Served, ServerInv, [BrowserNext]_browserVars
    PROVE  BrowserType'
  <1> USE DEF BrowserType
  <1>1. NoCookies \in Jar /\ None \in Token /\ \A j \in Jar : j.refresh \in Token /\ j.csrf \in Token
    BY DEF Jar, NoCookies, Token
  <1>2. \A a \in Answers : Received(a) \in Jar
    BY <1>1 DEF Received, Jar, Token, Answers
  <1>3. "idle" \in Stages /\ "refresh" \in Stages /\ "logout" \in Stages /\ "served" \in Stages
        /\ "answered" \in Stages
    BY DEF Stages
  <1>4. ASSUME NEW b \in Tabs, Send(b) PROVE BrowserType'
    BY <1>1, <1>3, <1>4 DEF Send
  <1>5. ASSUME NEW b \in Tabs, Refuse(b) \/ LoseRequest(b) PROVE BrowserType'
    BY <1>1, <1>3, <1>5 DEF Refuse, LoseRequest, Clear
  <1>6. ASSUME NEW b \in Tabs, Deliver(b) PROVE BrowserType'
    <2>1. answer[b] \in Answers /\ jar' \in Jar
      BY <1>2, <1>6 DEF Deliver, Served
    <2>2. stray' \subseteq Tokens
      BY <1>1, <1>6 DEF Deliver, Token
    <2> QED BY <1>1, <1>3, <1>6, <2>1, <2>2 DEF Deliver, Done, Clear
  <1>7. ASSUME NEW b \in Tabs, LoseAnswer(b) PROVE BrowserType'
    <2>1. stray' \subseteq Tokens /\ lost' \subseteq Tokens
      BY <1>1, <1>7 DEF LoseAnswer, Token
    <2> QED BY <1>1, <1>3, <1>7, <2>1 DEF LoseAnswer, Done, Clear
  <1>8. ASSUME NEW p \in Procs, NEW b \in Tabs, ServeLogin(p, b) \/ ServeToken(p, b)
        PROVE  BrowserType'
    BY <1>3, <1>8 DEF ServeLogin, ServeToken, Serve
  <1>9. ASSUME NEW p \in Procs, Work(p) PROVE BrowserType'
    BY <1>1, <1>3, <1>9 DEF Work, Clear
  <1>10. ASSUME NEW p \in Procs, AnswerTokens(p) PROVE BrowserType'
    <2>1. Issued \in Answers
      BY <1>10, IssuedEffect DEF AnswerTokens, Answers
    <2> QED BY <1>3, <1>10, <2>1 DEF AnswerTokens, Reply
  <1>11. ASSUME NEW p \in Procs, AnswerLogout(p) PROVE BrowserType'
    BY <1>3, <1>11 DEF AnswerLogout, Reply, Answers
  <1>12. ASSUME CookiesExpire \/ (\E t \in Tokens : TokenExpires(t)) \/ UNCHANGED browserVars
         PROVE  BrowserType'
    BY <1>1, <1>12 DEF CookiesExpire, TokenExpires, browserVars, browser
  <1> QED BY <1>4, <1>5, <1>6, <1>7, <1>8, <1>9, <1>10, <1>11, <1>12 DEF BrowserNext

LEMMA SendKeeps ==
    ASSUME ServerInv, BInv, NEW b \in Tabs, Send(b)
    PROVE  Related'
  <1> USE BrowserOf DEF BInv, Related
  <1>1. /\ stage[b] = "idle" /\ stage'[b] \in {"refresh", "logout"} /\ sent'[b] = jar
        /\ \A c \in Tabs \ {b} : stage'[c] = stage[c] /\ sent'[c] = sent[c]
        /\ UNCHANGED <<server, jar, serving, answer, stray, lost>>
    BY DEF Send
  <1>2. UNCHANGED <<pc, token, sessions, used, old>>
    BY <1>1 DEF server
  <1>3. Served'
    BY <1>1, <1>2 DEF Served
  <1>4. Seen' \subseteq Seen
    BY <1>1 DEF Seen
  <1>5. Fresh'
    BY <1>1, <1>2, <1>4 DEF Fresh
  <1>6. Spent'
    BY <1>1, <1>2 DEF Spent
  <1>7. DeadCookieHasCause'
    BY <1>1, <1>2 DEF DeadCookieHasCause
  <1>8. LiveSessionsHeld'
    BY <1>1, <1>2 DEF LiveSessionsHeld, Live, Underway
  <1> QED BY <1>3, <1>5, <1>6, <1>7, <1>8

\* A request that is refused or lost leaves everything else as it is.
LEMMA EndKeeps ==
    ASSUME ServerInv, BInv, NEW b \in Tabs, Refuse(b) \/ LoseRequest(b)
    PROVE  Related'
  <1> USE BrowserOf DEF BInv, Related
  <1>1. /\ stage[b] \in {"refresh", "logout"} /\ stage'[b] = "idle" /\ sent'[b].refresh = None
        /\ \A c \in Tabs \ {b} : stage'[c] = stage[c] /\ sent'[c] = sent[c]
        /\ UNCHANGED <<server, jar, serving, answer, stray, lost>>
    BY DEF Refuse, LoseRequest, Clear, NoCookies
  <1>2. UNCHANGED <<pc, token, sessions, used, old>>
    BY <1>1 DEF server
  <1>3. Served'
    BY <1>1, <1>2 DEF Served
  <1>4. Seen' \subseteq Seen \cup {None}
    BY <1>1 DEF Seen
  <1>5. Fresh'
    BY <1>1, <1>2, <1>4, SessionsAssumption DEF Fresh
  <1>6. Spent'
    BY <1>1, <1>2 DEF Spent
  <1>7. DeadCookieHasCause'
    BY <1>1, <1>2 DEF DeadCookieHasCause
  <1>8. LiveSessionsHeld'
    BY <1>1, <1>2 DEF LiveSessionsHeld, Live, Underway
  <1> QED BY <1>3, <1>5, <1>6, <1>7, <1>8

LEMMA ServeKeeps ==
    ASSUME ServerInv, BInv, NEW p \in Procs, NEW b \in Tabs, ServeLogin(p, b) \/ ServeToken(p, b)
    PROVE  Related'
  <1> USE BrowserOf DEF BInv, Related
  <1>1. /\ stage[b] \in {"idle", "refresh", "logout"} /\ stage'[b] = "served"
        /\ \A c \in Tabs \ {b} : stage'[c] = stage[c]
        /\ serving'[p] = b /\ \A q \in Procs \ {p} : serving'[q] = serving[q]
        /\ UNCHANGED <<jar, header, sent, answer, stray, lost>>
    BY DEF ServeLogin, ServeToken, Serve
  <1>2. /\ pc[p] = "idle" /\ pc'[p] # "idle"
        /\ Others(p)
        /\ UNCHANGED <<used, old, sessions>>
    BY ServeEffect
  <1>3. token'[p] = sent[b].refresh
    BY ServeEffect DEF ServeLogin, Served
  <1>4. Served'
    BY <1>1, <1>2, <1>3, BrowserAssumption DEF Served, Others
  <1>5. Fresh'
    BY <1>1, <1>2 DEF Fresh, Seen
  <1>6. Spent'
    BY <1>1, <1>2 DEF Spent
  <1>7. DeadCookieHasCause'
    BY <1>1, <1>2 DEF DeadCookieHasCause, Others
  <1>8. LiveSessionsHeld'
    BY <1>1, <1>2 DEF LiveSessionsHeld, Live, Underway
  <1> QED BY <1>4, <1>5, <1>6, <1>7, <1>8

\* A request that ends gives its tab free, with or without an answer.
LEMMA ServedEnds ==
    ASSUME BInv, NEW p \in Procs, NEW b \in Tabs, serving[p] = b,
           pc'[p] = "idle", serving'[p] = None, Others(p),
           \A q \in Procs \ {p} : serving'[q] = serving[q],
           \A c \in Tabs \ {b} :
               stage'[c] = stage[c] /\ sent'[c] = sent[c] /\ answer'[c] = answer[c],
           stage'[b] = "answered" <=> answer'[b] # None,
           stage'[b] = "idle" => sent'[b].refresh = None
    PROVE  Served'
  <1> USE DEF BInv, Related
  <1>1. b # None
    BY BrowserAssumption
  <1>2. \A q \in Procs \ {p} : serving[q] # b
    BY <1>1 DEF Served
  <1>3. \A q \in Procs : serving'[q] = None <=> pc'[q] = "idle"
    BY DEF Served, Others
  <1>4. ASSUME NEW q \in Procs, serving'[q] # None
        PROVE  stage'[serving'[q]] = "served" /\ token'[q] = sent'[serving'[q]].refresh
    <2>1. q # p /\ serving'[q] = serving[q] /\ serving[q] \in Tabs \ {b} /\ token'[q] = token[q]
      BY <1>2, <1>4, BrowserOf DEF Others
    <2> QED BY <1>4, <2>1 DEF Served
  <1>5. \A q, r \in Procs : serving'[q] # None /\ serving'[q] = serving'[r] => q = r
    BY DEF Served
  <1>6. \A c \in Tabs : stage'[c] = "answered" <=> answer'[c] # None
    BY DEF Served
  <1>7. \A c \in Tabs : stage'[c] = "idle" => sent'[c].refresh = None
    BY DEF Served
  <1> QED BY <1>3, <1>4, <1>5, <1>6, <1>7 DEF Served

LEMMA WorkKeeps ==
    ASSUME ServerInv, BInv, ~Faults, NEW p \in Procs, Work(p)
    PROVE  Related'
  <1> USE BrowserOf DEF BInv, Related
  <1> DEFINE b == serving[p]
  <1>1. /\ pc[p] # "idle" /\ pc[p] # "issue"
        /\ Others(p)
        /\ UNCHANGED <<used, old>>
        /\ pc'[p] # "idle" => token'[p] = token[p]
    BY WorkEffect
  <1>2. b \in Tabs /\ stage[b] = "served" /\ token[p] = sent[b].refresh
    BY <1>1 DEF Served
  <1>3. UNCHANGED <<jar, answer, stray, lost>>
    BY DEF Work
  <1>4. /\ \A c \in Tabs \ {b} : stage'[c] = stage[c] /\ sent'[c] = sent[c]
        /\ \A q \in Procs \ {p} : serving'[q] = serving[q]
    BY DEF Work, Clear
  <1>5. pc'[p] = "idle" => stage'[b] = "idle" /\ sent'[b].refresh = None /\ serving'[p] = None
    BY <1>2 DEF Work, Clear, NoCookies
  <1>6. pc'[p] # "idle" => UNCHANGED <<stage, serving, sent>>
    BY DEF Work
  <1>7. \/ UNCHANGED sessions
        \/ /\ token[p] # None
           /\ sessions' = [sessions EXCEPT ![token[p]] = None]
           /\ token[p] \in old \/ pc'[p] = "issue"
    BY WorkEffect
  <1>8. \A t \in Tokens : sessions'[t] # None => sessions[t] # None
    BY <1>7, LocalsOf DEF ServerInv
  <1>9. \A t \in Tokens : sessions[t] # None => sessions'[t] # None \/ (t = token[p] /\ (t \in old \/ pc'[p] = "issue"))
    BY <1>7, LocalsOf DEF ServerInv
  <1> HIDE DEF b
  <1>10. Served'
    <2>1. CASE pc'[p] = "idle"
      BY <1>1, <1>2, <1>3, <1>4, <1>5, <2>1, ServedEnds DEF b, Served
    <2>2. CASE pc'[p] # "idle"
      BY <1>1, <1>3, <1>6, <2>2 DEF Served, Others
    <2> QED BY <2>1, <2>2
  <1>11. Seen' \subseteq Seen \cup {None}
    BY <1>3, <1>4, <1>5, <1>6 DEF Seen
  <1>12. \A c \in Tabs : answer[c] \in Tokens => answer[c] # token[p]
    <2>1. token[p] \in Seen
      BY <1>2, SentSeen
    <2> QED BY <2>1 DEF Fresh
  <1>13. Fresh'
    <2>1. Seen' \ {None} \subseteq used'
      BY <1>1, <1>11 DEF Fresh
    <2>2. ASSUME NEW c \in Tabs, answer'[c] \in Tokens
          PROVE  /\ answer'[c] \in used' \ Seen'
                 /\ sessions'[answer'[c]] # None \/ answer'[c] \in old'
      <3>1. answer'[c] = answer[c] /\ answer[c] # None
        BY <1>3, <2>2, SessionsAssumption
      <3> QED BY <1>1, <1>9, <1>11, <1>12, <2>2, <3>1 DEF Fresh
    <2> QED BY <1>3, <2>1, <2>2 DEF Fresh
  <1>14. Spent'
    BY <1>2, <1>4, <1>5, <1>6, <1>8 DEF Spent
  <1>15. DeadCookieHasCause'
    <2> SUFFICES ASSUME jar.refresh # None, jar.refresh \notin old, sessions'[jar.refresh] = None
        PROVE  \/ jar.refresh \in lost
               \/ \E c \in Tabs : stage'[c] = "answered" /\ sent'[c].refresh = jar.refresh
               \/ \E q \in Procs : pc'[q] = "issue" /\ token'[q] = jar.refresh
      BY <1>1, <1>3 DEF DeadCookieHasCause
    <2>1. CASE sessions[jar.refresh] = None
      BY <1>1, <1>2, <1>4, <2>1 DEF DeadCookieHasCause, Others
    <2>2. CASE sessions[jar.refresh] # None
      <3>1. jar.refresh = token[p] /\ pc'[p] = "issue"
        BY <1>9, <2>2
      <3> QED BY <1>1, <3>1
    <2> QED BY <2>1, <2>2
  <1>16. LiveSessionsHeld'
    BY <1>1, <1>3, <1>8 DEF LiveSessionsHeld, Live, Underway
  <1> QED BY <1>10, <1>13, <1>14, <1>15, <1>16

LEMMA AnswerTokensKeeps ==
    ASSUME ServerInv, BInv, NEW p \in Procs, AnswerTokens(p)
    PROVE  Related'
  <1> USE BrowserOf DEF BInv, Related
  <1> DEFINE b == serving[p]
             i == Issued
  <1>1. /\ pc[p] = "issue" /\ pc'[p] = "idle" /\ token'[p] = None
        /\ Others(p)
        /\ UNCHANGED old
        /\ i \in Tokens \ used
        /\ used' = used \cup {i}
        /\ sessions'[i] # None
        /\ \A k \in Tokens \ {i} : sessions'[k] = sessions[k]
    BY IssuedEffect DEF AnswerTokens
  <1>2. b \in Tabs /\ stage[b] = "served" /\ token[p] = sent[b].refresh /\ answer[b] = None
    BY <1>1 DEF Served
  <1>3. /\ answer'[b] = i /\ stage'[b] = "answered" /\ serving'[p] = None
        /\ \A c \in Tabs \ {b} : answer'[c] = answer[c] /\ stage'[c] = stage[c]
        /\ \A q \in Procs \ {p} : serving'[q] = serving[q]
        /\ UNCHANGED <<jar, header, sent, stray, lost>>
    BY <1>2 DEF AnswerTokens, Reply
  <1>4. i # None
    BY <1>1, SessionsAssumption
  <1> HIDE DEF b, i
  <1>5. Served'
    BY <1>1, <1>2, <1>3, <1>4, ServedEnds DEF b
  <1>6. i \notin Seen /\ Seen' = Seen
    BY <1>1, <1>3, <1>4 DEF Fresh, Seen
  <1>7. Fresh'
    <2>1. Seen' \ {None} \subseteq used'
      BY <1>1, <1>6 DEF Fresh
    <2>2. ASSUME NEW c \in Tabs, answer'[c] \in Tokens
          PROVE  /\ answer'[c] \in used' \ Seen'
                 /\ sessions'[answer'[c]] # None \/ answer'[c] \in old'
      <3>1. CASE c = b
        BY <1>1, <1>3, <1>6, <3>1
      <3>2. CASE c # b
        BY <1>1, <1>3, <1>6, <2>2, <3>2 DEF Fresh
      <3> QED BY <3>1, <3>2
    <2>3. ASSUME NEW c \in Tabs, NEW d \in Tabs, answer'[c] \in Tokens, answer'[c] = answer'[d]
          PROVE  c = d
      <3>1. \A e \in Tabs \ {b} : answer[e] # i
        BY <1>1 DEF Fresh
      <3> QED BY <1>3, <2>3, <3>1 DEF Fresh
    <2> QED BY <2>1, <2>2, <2>3 DEF Fresh
  <1>8. \A t \in used : sessions'[t] = sessions[t]
    BY <1>1, LocalsOf DEF ServerInv
  <1>9. Spent'
    <2> SUFFICES ASSUME NEW c \in Tabs, stage'[c] = "answered", sent[c].refresh # None
        PROVE  sessions'[sent[c].refresh] = None
      BY <1>3 DEF Spent
    <2>1. sent[c].refresh \in used
      BY DEF Fresh, Seen
    <2>2. CASE c = b
      BY <1>1, <1>2, <1>8, <2>1, <2>2 DEF ServerInv, TokenInv, Rotated
    <2>3. CASE c # b
      BY <1>3, <1>8, <2>1, <2>3 DEF Spent
    <2> QED BY <2>2, <2>3
  <1>10. DeadCookieHasCause'
    <2> SUFFICES ASSUME jar.refresh # None, jar.refresh \notin old, sessions'[jar.refresh] = None
        PROVE  \/ jar.refresh \in lost
               \/ \E c \in Tabs : stage'[c] = "answered" /\ sent[c].refresh = jar.refresh
               \/ \E q \in Procs : pc'[q] = "issue" /\ token'[q] = jar.refresh
      BY <1>1, <1>3 DEF DeadCookieHasCause
    <2>1. sessions[jar.refresh] = None
      BY <1>8 DEF Fresh, Seen
    <2> QED BY <1>1, <1>2, <1>3, <2>1 DEF DeadCookieHasCause, Others
  <1>11. LiveSessionsHeld'
    <2> SUFFICES ASSUME NEW t \in Tokens, t # i, Live(t)'
        PROVE  t = jar.refresh \/ Underway(t)' \/ t \in stray
      BY <1>2, <1>3 DEF LiveSessionsHeld, Underway
    <2>1. Live(t)
      BY <1>1 DEF Live
    <2>2. Underway(t) => Underway(t)'
      BY <1>2, <1>3, SessionsAssumption DEF Underway
    <2> QED BY <2>1, <2>2 DEF LiveSessionsHeld
  <1> QED BY <1>5, <1>7, <1>9, <1>10, <1>11

LEMMA AnswerLogoutKeeps ==
    ASSUME ServerInv, BInv, NEW p \in Procs, AnswerLogout(p)
    PROVE  Related'
  <1> USE BrowserOf DEF BInv, Related
  <1> DEFINE b == serving[p]
  <1>1. /\ pc[p] = "logout" /\ pc'[p] = "idle" /\ token'[p] = None
        /\ token[p] \in Tokens
        /\ Others(p)
        /\ UNCHANGED <<used, old>>
        /\ sessions' = [sessions EXCEPT ![token[p]] = None]
    BY LogoutDeleteEffect DEF AnswerLogout
  <1>2. b \in Tabs /\ stage[b] = "served" /\ token[p] = sent[b].refresh /\ answer[b] = None
    BY <1>1 DEF Served
  <1>3. /\ answer'[b] = "cleared" /\ stage'[b] = "answered" /\ serving'[p] = None
        /\ \A c \in Tabs \ {b} : answer'[c] = answer[c] /\ stage'[c] = stage[c]
        /\ \A q \in Procs \ {p} : serving'[q] = serving[q]
        /\ UNCHANGED <<jar, header, sent, stray, lost>>
    BY <1>2 DEF AnswerLogout, Reply
  <1>4. "cleared" # None /\ "cleared" \notin Tokens
    BY BrowserAssumption DEF Answers
  <1>5. /\ sessions'[token[p]] = None
        /\ \A t \in Tokens \ {token[p]} : sessions'[t] = sessions[t]
    BY <1>1, LocalsOf DEF ServerInv
  <1> HIDE DEF b
  <1>6. Served'
    BY <1>1, <1>2, <1>3, <1>4, ServedEnds DEF b
  <1>7. Seen' = Seen /\ token[p] \in Seen
    BY <1>2, <1>3, SentSeen DEF Seen
  <1>8. Fresh'
    <2>1. Seen' \ {None} \subseteq used'
      BY <1>1, <1>7 DEF Fresh
    <2>2. ASSUME NEW c \in Tabs, answer'[c] \in Tokens
          PROVE  /\ answer'[c] = answer[c]
                 /\ answer'[c] \in used' \ Seen'
                 /\ sessions'[answer'[c]] # None \/ answer'[c] \in old'
      <3>1. answer'[c] = answer[c]
        BY <1>3, <1>4, <2>2
      <3> QED BY <1>1, <1>5, <1>7, <2>2, <3>1 DEF Fresh
    <2> QED BY <1>3, <2>1, <2>2 DEF Fresh
  <1>9. Spent'
    BY <1>2, <1>3, <1>5 DEF Spent
  <1>10. DeadCookieHasCause'
    BY <1>1, <1>2, <1>3, <1>5 DEF DeadCookieHasCause, Others
  <1>11. LiveSessionsHeld'
    <2> SUFFICES ASSUME NEW t \in Tokens, Live(t)'
        PROVE  t = jar.refresh \/ Underway(t)' \/ t \in stray
      BY <1>3 DEF LiveSessionsHeld
    <2>1. Live(t)
      BY <1>1, <1>5 DEF Live
    <2>2. Underway(t) => Underway(t)'
      BY <1>2, <1>3, SessionsAssumption DEF Underway
    <2> QED BY <2>1, <2>2 DEF LiveSessionsHeld
  <1> QED BY <1>6, <1>8, <1>9, <1>10, <1>11

\* What Deliver and LoseAnswer have in common.
LEMMA DoneEffect ==
    ASSUME BInv, NEW b \in Tabs, stage[b] = "answered", Done(b)
    PROVE  /\ stage'[b] = "idle" /\ answer'[b] = None /\ sent'[b].refresh = None
           /\ \A c \in Tabs \ {b} :
                  stage'[c] = stage[c] /\ sent'[c] = sent[c] /\ answer'[c] = answer[c]
           /\ UNCHANGED <<serving, pc, token, sessions, used, old>>
           /\ answer[b] \in Answers
           /\ Served'
  <1> USE BrowserOf DEF BInv, Related
  <1>1. /\ stage'[b] = "idle" /\ answer'[b] = None /\ sent'[b].refresh = None
        /\ \A c \in Tabs \ {b} :
               stage'[c] = stage[c] /\ sent'[c] = sent[c] /\ answer'[c] = answer[c]
        /\ UNCHANGED <<serving, pc, token, sessions, used, old>>
    BY DEF Done, Clear, NoCookies, server
  <1>2. answer[b] \in Answers
    BY DEF Served
  <1>3. Served'
    BY <1>1 DEF Served
  <1> QED BY <1>1, <1>2, <1>3

LEMMA DeliverKeeps ==
    ASSUME ServerInv, BInv, NEW b \in Tabs, Deliver(b)
    PROVE  Related'
  <1> USE BrowserOf DEF BInv, Related
  <1>1. /\ stage[b] = "answered" /\ stage'[b] = "idle" /\ answer'[b] = None
        /\ sent'[b].refresh = None
        /\ \A c \in Tabs \ {b} :
               stage'[c] = stage[c] /\ sent'[c] = sent[c] /\ answer'[c] = answer[c]
        /\ UNCHANGED <<serving, pc, token, sessions, used, old>>
        /\ answer[b] \in Answers
        /\ Served'
    BY DoneEffect DEF Deliver
  <1>2. jar'.refresh = IF answer[b] = "cleared" THEN None ELSE answer[b]
    BY DEF Deliver, Received, NoCookies
  <1>3. stray' = stray \cup ({jar.refresh} \ {None, sent[b].refresh})
    BY DEF Deliver
  <1>4. jar'.refresh # None => jar'.refresh = answer[b] /\ answer[b] \in Tokens
    BY <1>1, <1>2 DEF Answers
  <1>5. Seen' \subseteq Seen \cup {None, jar'.refresh}
    BY <1>1 DEF Seen
  <1>6. Fresh'
    <2>1. Seen' \ {None} \subseteq used'
      BY <1>1, <1>4, <1>5 DEF Fresh
    <2>2. ASSUME NEW c \in Tabs, answer'[c] \in Tokens
          PROVE  /\ answer'[c] = answer[c]
                 /\ answer'[c] \in used' \ Seen'
                 /\ sessions'[answer'[c]] # None \/ answer'[c] \in old'
      <3>1. c # b /\ answer'[c] = answer[c]
        BY <1>1, <2>2, SessionsAssumption
      <3>2. answer[c] # jar'.refresh /\ answer[c] # None
        BY <1>4, <2>2, <3>1, SessionsAssumption DEF Fresh
      <3>3. answer[c] \notin Seen'
        BY <1>5, <2>2, <3>1, <3>2 DEF Fresh
      <3> QED BY <1>1, <2>2, <3>1, <3>3 DEF Fresh
    <2> QED BY <2>1, <2>2 DEF Fresh
  <1>7. Spent'
    BY <1>1 DEF Spent
  <1>8. DeadCookieHasCause'
    BY <1>1, <1>4 DEF DeadCookieHasCause, Fresh
  <1>9. LiveSessionsHeld'
    <2> SUFFICES ASSUME NEW t \in Tokens, Live(t)
        PROVE  t = jar'.refresh \/ Underway(t)' \/ t \in stray'
      BY <1>1 DEF LiveSessionsHeld, Live
    <2>1. CASE t = jar.refresh
      <3>1. t # sent[b].refresh
        BY <1>1, <2>1, SessionsAssumption DEF Live, Spent
      <3> QED BY <1>3, <2>1, <3>1, SessionsAssumption
    <2>2. ASSUME NEW c \in Tabs, answer[c] = t
          PROVE  t = jar'.refresh \/ Underway(t)'
      <3>1. CASE c = b
        BY <1>2, <2>2, <3>1, BrowserAssumption
      <3>2. CASE c # b
        BY <1>1, <2>2, <3>2 DEF Underway
      <3> QED BY <3>1, <3>2
    <2>3. CASE t \in stray
      BY <1>3, <2>3
    <2> QED BY <2>1, <2>2, <2>3 DEF LiveSessionsHeld, Underway
  <1> QED BY <1>1, <1>6, <1>7, <1>8, <1>9

LEMMA LoseAnswerKeeps ==
    ASSUME ServerInv, BInv, NEW b \in Tabs, LoseAnswer(b)
    PROVE  Related'
  <1> USE BrowserOf DEF BInv, Related
  <1>1. /\ stage[b] = "answered" /\ stage'[b] = "idle" /\ answer'[b] = None
        /\ sent'[b].refresh = None
        /\ \A c \in Tabs \ {b} :
               stage'[c] = stage[c] /\ sent'[c] = sent[c] /\ answer'[c] = answer[c]
        /\ UNCHANGED <<serving, pc, token, sessions, used, old>>
        /\ answer[b] \in Answers
        /\ Served'
    BY DoneEffect DEF LoseAnswer
  <1>2. /\ stray' = stray \cup ({answer[b]} \cap Tokens)
        /\ lost' = lost \cup ({sent[b].refresh} \ {None})
        /\ UNCHANGED jar
    BY DEF LoseAnswer
  <1>3. Seen' \subseteq Seen \cup {None}
    BY <1>1, <1>2 DEF Seen
  <1>4. Fresh'
    <2>1. Seen' \ {None} \subseteq used'
      BY <1>1, <1>3 DEF Fresh
    <2>2. ASSUME NEW c \in Tabs, answer'[c] \in Tokens
          PROVE  /\ answer'[c] = answer[c]
                 /\ answer'[c] \in used' \ Seen'
                 /\ sessions'[answer'[c]] # None \/ answer'[c] \in old'
      <3>1. c # b /\ answer'[c] = answer[c] /\ answer[c] # None
        BY <1>1, <2>2, SessionsAssumption
      <3> QED BY <1>1, <1>3, <2>2, <3>1 DEF Fresh
    <2> QED BY <2>1, <2>2 DEF Fresh
  <1>5. Spent'
    BY <1>1 DEF Spent
  <1>6. DeadCookieHasCause'
    BY <1>1, <1>2 DEF DeadCookieHasCause
  <1>7. LiveSessionsHeld'
    <2> SUFFICES ASSUME NEW t \in Tokens, Live(t)
        PROVE  t = jar.refresh \/ Underway(t)' \/ t \in stray'
      BY <1>1, <1>2 DEF LiveSessionsHeld, Live
    <2>1. CASE t = jar.refresh \/ t \in stray
      BY <1>2, <2>1
    <2>2. ASSUME NEW c \in Tabs, answer[c] = t
          PROVE  Underway(t)' \/ t \in stray'
      BY <1>1, <1>2, <2>2 DEF Underway
    <2> QED BY <2>1, <2>2 DEF LiveSessionsHeld, Underway
  <1> QED BY <1>1, <1>4, <1>5, <1>6, <1>7

LEMMA CookiesExpireKeeps ==
    ASSUME ServerInv, BInv, CookiesExpire
    PROVE  Related'
  <1> USE BrowserOf DEF BInv, Related
  <1>1. /\ jar.refresh \in old /\ jar'.refresh = None
        /\ UNCHANGED <<pc, token, sessions, used, old, stage, sent, serving, answer, stray, lost>>
    BY DEF CookiesExpire, NoCookies, server
  <1>2. Served'
    BY <1>1 DEF Served
  <1>3. Seen' \subseteq Seen \cup {None}
    BY <1>1 DEF Seen
  <1>4. Fresh'
    BY <1>1, <1>3, SessionsAssumption DEF Fresh
  <1>5. Spent'
    BY <1>1 DEF Spent
  <1>6. DeadCookieHasCause'
    BY <1>1 DEF DeadCookieHasCause
  <1>7. LiveSessionsHeld'
    BY <1>1 DEF LiveSessionsHeld, Live, Underway
  <1> QED BY <1>2, <1>4, <1>5, <1>6, <1>7

LEMMA TokenExpiresKeeps ==
    ASSUME ServerInv, BInv, NEW t \in Tokens, TokenExpires(t)
    PROVE  Related'
  <1> USE BrowserOf DEF BInv, Related
  <1>1. /\ old' = old \cup {t}
        /\ UNCHANGED <<pc, token, used, jar, stage, sent, serving, answer, stray, lost>>
    BY DEF TokenExpires, Expire, locals, browser
  <1>2. \A k \in Tokens : sessions'[k] = sessions[k] \/ (sessions'[k] = None /\ k = t)
    BY LocalsOf DEF ServerInv, TokenExpires, Expire
  <1>3. Served'
    BY <1>1 DEF Served
  <1>4. Fresh'
    BY <1>1, <1>2 DEF Fresh, Seen
  <1>5. Spent'
    BY <1>1, <1>2 DEF Spent
  <1>6. DeadCookieHasCause'
    BY <1>1, <1>2 DEF DeadCookieHasCause
  <1>7. LiveSessionsHeld'
    BY <1>1, <1>2 DEF LiveSessionsHeld, Live, Underway
  <1> QED BY <1>3, <1>4, <1>5, <1>6, <1>7

----------------------------------------------------------------------------
(***************************************************************************)
(* The theorems.                                                           *)
(***************************************************************************)
LEMMA BInvInit == BrowserInit => ServerInv /\ BInv
  <1> SUFFICES ASSUME BrowserInit PROVE ServerInv /\ BInv
    OBVIOUS
  <1>1. ServerInv
    BY InvInit, TokenInvInit DEF BrowserInit, ServerInv
  <1>2. BrowserType
    BY DEF BrowserInit, BrowserType, Jar, Token, Stages, NoCookies
  <1>3. \A b \in Tabs : sent[b].refresh = None /\ stage[b] = "idle" /\ answer[b] = None
    BY DEF BrowserInit, NoCookies
  <1>4. jar.refresh = None
    BY DEF BrowserInit, NoCookies
  <1>5. Served
    BY <1>3 DEF BrowserInit, Init, Served
  <1>6. Fresh
    BY <1>3, <1>4, SessionsAssumption DEF Fresh, Seen
  <1>7. Spent /\ DeadCookieHasCause
    BY <1>3, <1>4 DEF Spent, DeadCookieHasCause
  <1>8. LiveSessionsHeld
    BY DEF BrowserInit, Init, LiveSessionsHeld, Live
  <1> QED BY <1>1, <1>2, <1>5, <1>6, <1>7, <1>8 DEF BInv, Related

LEMMA BInvNext ==
    ASSUME ServerInv, BInv, ~Faults, [BrowserNext]_browserVars
    PROVE  ServerInv' /\ BInv'
  <1>1. ServerInv' /\ BrowserType'
    BY ServerInvNext, BrowserTypeNext DEF BInv, Related
  <1>2. ASSUME UNCHANGED browserVars PROVE Related'
    <2>1. /\ UNCHANGED <<pc, token, sessions, used, old>>
          /\ UNCHANGED <<jar, stage, sent, serving, answer, stray, lost>>
      BY <1>2 DEF browserVars, browser, server
    <2>2. Served' /\ Spent' /\ DeadCookieHasCause'
      BY <2>1 DEF BInv, Related, Served, Spent, DeadCookieHasCause
    <2>3. Fresh' /\ LiveSessionsHeld'
      BY <2>1 DEF BInv, Related, Fresh, Seen, LiveSessionsHeld, Live, Underway
    <2> QED BY <2>2, <2>3 DEF Related
  <1>3. Related'
    BY <1>2, SendKeeps, EndKeeps, ServeKeeps, WorkKeeps, AnswerTokensKeeps, AnswerLogoutKeeps,
       DeliverKeeps, LoseAnswerKeeps, CookiesExpireKeeps, TokenExpiresKeeps
    DEF BrowserNext, BInv
  <1> QED BY <1>1, <1>3 DEF BInv

\* As long as the stores answer: however many tabs send at once and however their answers
\* overtake each other or get lost, a live session is the browser's, on its way to it, or
\* one that it dropped itself.
THEOREM SessionsAreHeld ==
    ASSUME ~Faults
    PROVE  BrowserSpec => []LiveSessionsHeld
  <1>1. ServerInv /\ BInv /\ [BrowserNext]_browserVars => (ServerInv /\ BInv)'
    BY BInvNext
  <1>2. BInv => LiveSessionsHeld
    BY DEF BInv, Related
  <1> QED BY <1>1, <1>2, BInvInit, PTL DEF BrowserSpec

\* And the refresh cookie is a dead one only while the request that took its token out of
\* use waits for its answer, or if that answer was lost.
THEOREM DeadCookiesWait ==
    ASSUME ~Faults
    PROVE  BrowserSpec => []DeadCookieWaitsForAnswer
  <1>1. ServerInv /\ BInv /\ [BrowserNext]_browserVars => (ServerInv /\ BInv)'
    BY BInvNext
  <1>2. BInv => DeadCookieWaitsForAnswer
    <2> SUFFICES ASSUME BInv, NEW p \in Procs, pc[p] = "issue", token[p] = jar.refresh
        PROVE  \E b \in Tabs : stage[b] \in {"served", "answered"} /\ sent[b].refresh = jar.refresh
      BY DEF BInv, Related, DeadCookieHasCause, DeadCookieWaitsForAnswer
    <2>1. serving[p] \in Tabs /\ stage[serving[p]] = "served" /\ token[p] = sent[serving[p]].refresh
      BY BrowserOf DEF BInv, Related, Served
    <2> QED BY <2>1
  <1> QED BY <1>1, <1>2, BInvInit, PTL DEF BrowserSpec

\* Every variable of the browser keeps its type.
THEOREM BrowserTypeCorrect ==
    ASSUME ~Faults
    PROVE  BrowserSpec => []BrowserTypeOK
  <1>1. ServerInv /\ BInv /\ [BrowserNext]_browserVars => (ServerInv /\ BInv)'
    BY BInvNext
  <1>2. ServerInv /\ BInv => BrowserTypeOK
    BY DEF ServerInv, IInv, DataInv, LocalInv, RowsType, StoreType, TokenType, LocalType, TypeOK,
           BInv, BrowserType, BrowserTypeOK
  <1> QED BY <1>1, <1>2, BInvInit, PTL DEF BrowserSpec
=============================================================================
