------------------------------- MODULE WebAuth -------------------------------
(***************************************************************************)
(* One browser and the backend's authentication: the page load that        *)
(* restores a session, the axios interceptors that renew an expired access *)
(* token once for all the requests that met it, sign-in and sign-out.      *)
(* The server's side is Accounts over the session store; another client's  *)
(* sign-ups run beside it.                                                 *)
(*                                                                         *)
(* A call is sent, served and answered in separate steps, and its answer   *)
(* may be lost.  An access token is its index in tokens.                   *)
(***************************************************************************)
EXTENDS Accounts

CONSTANTS
    Me,         \* the client that is this browser
    Reqs,       \* slots for the page's authenticated requests
    MaxTokens,  \* bound on the access tokens issued to this browser
    MaxLoads    \* bound on page loads

\* The name of hydrateSession's request is no slot's.
ASSUME BrowserAssumption == Me \in Clients /\ "me" \notin Reqs

VARIABLES
    cookie,     \* the session in the refresh cookie, 0 if there is none
    tokens,     \* tokens[t]: the session of access token t
    expired,    \* tokens 1..expired are past their expiry
    tok,        \* accessToken of http.ts, kept in local storage; 0 is null
    signedIn, hydrating,  \* isAuthenticated and isHydrating of the store
    refresh,    \* the calls of refreshAccessToken: hydrateSession's, the shared one
    req,        \* the authenticated requests; "me" is hydrateSession's getCurrentUser
    logout,     \* the call of logout
    loads,
    fault,      \* history: an answer was lost or failed since the page was set up
    out         \* history: logout has returned, and no sign-in was started since

browserVars == <<cookie, tokens, expired, tok, signedIn, hydrating, refresh, req, logout, loads,
                 fault, out>>
vars == <<storeVars, accountVars, browserVars>>

Refreshes == {"hydrate", "shared"}
AllReqs == Reqs \cup {"me"}

NoCall == [pc |-> "idle", cookie |-> 0, tok |-> 0, retry |-> FALSE]
Sent(c, t) == [NoCall EXCEPT !.pc = "sent", !.cookie = c, !.tok = t]

\* A page load, of a browser that never signed in or of one that was left
\* signed in (session 1, access token 1).
Init ==
    /\ AccountsInit /\ granted = {}
    /\ cookie \in (IF users = << >> THEN {0} ELSE {0, 1})
    /\ state = [s \in 1..cookie |-> "live"] /\ tokens = [t \in 1..cookie |-> t] /\ tok = cookie
    /\ expired = 0
    /\ signedIn = FALSE /\ hydrating = TRUE
    /\ refresh = [k \in Refreshes |-> IF k = "hydrate" THEN Sent(cookie, 0) ELSE NoCall]
    /\ req = [r \in AllReqs |-> NoCall]
    /\ logout = NoCall
    /\ loads = 1
    /\ fault = FALSE /\ out = FALSE

\* Bound: the page goes on after its sign-in only if no other client was at
\* work: their handlers share nothing with it but the account collections.
Alone == \A c \in Clients \ {Me} : started[c] = 0

Quiet == \A k \in Refreshes : refresh[k] = NoCall
Settled == Quiet /\ req["me"] = NoCall /\ job[Me] = NoJob

ClearSession == tok' = 0 /\ signedIn' = FALSE /\ hydrating' = FALSE

Authenticated(t) == tok' = t /\ signedIn' = TRUE /\ hydrating' = FALSE

serverVars == <<storeVars, accountVars>>
pageVars == <<cookie, tok, signedIn, hydrating, loads, out>>

-----------------------------------------------------------------------------
(* /auth/refresh and refreshAccessToken.                                   *)

\* Any exception of refreshAccessToken makes the controller clear the cookie.
RefreshServe(k) ==
    LET c == refresh[k].cookie
    IN /\ refresh[k].pc = "sent"
       /\ \/ /\ c = 0
             /\ refresh' = [refresh EXCEPT ![k].pc = "missing"]
             /\ UNCHANGED <<tokens, fault>>
          \/ /\ Live(c) /\ Len(tokens) < MaxTokens
             /\ tokens' = Append(tokens, c)
             /\ refresh' = [refresh EXCEPT ![k].pc = "ok", ![k].tok = Len(tokens')]
             /\ UNCHANGED fault
          \/ /\ c # 0
             /\ refresh' = [refresh EXCEPT ![k].pc = "refused"]
             /\ fault' = (fault \/ Live(c))
             /\ UNCHANGED tokens
       /\ UNCHANGED <<serverVars, pageVars, expired, req, logout>>

\* The answer, with all that awaits it: hydrateSession goes on to getCurrentUser,
\* the requests that share the refresh are retried or given up.
RefreshAnswer(k) ==
    LET waiting(r) == k = "shared" /\ req[r].pc = "waiting"
    IN /\ refresh[k].pc \in {"ok", "refused", "missing", "failed"}
       /\ refresh' = [refresh EXCEPT ![k] = NoCall]
       /\ IF refresh[k].pc = "ok"
            THEN /\ Authenticated(refresh[k].tok)
                 /\ req' = [r \in AllReqs |->
                              IF waiting(r) THEN [Sent(0, tok') EXCEPT !.retry = TRUE]
                              ELSE IF k = "hydrate" /\ r = "me" THEN Sent(0, tok')
                              ELSE req[r]]
                 /\ UNCHANGED cookie
            ELSE /\ ClearSession
                 /\ req' = [r \in AllReqs |-> IF waiting(r) THEN NoCall ELSE req[r]]
                 /\ cookie' = IF refresh[k].pc = "refused" THEN 0 ELSE cookie
       /\ UNCHANGED <<serverVars, tokens, expired, logout, loads, fault, out>>

-----------------------------------------------------------------------------
(* Authenticated requests and the interceptors of http.ts.                 *)

RequestSend(r) ==
    /\ r \in Reqs /\ req[r] = NoCall /\ signedIn /\ Alone
    /\ req' = [req EXCEPT ![r] = Sent(0, tok)]
    /\ UNCHANGED <<serverVars, pageVars, tokens, expired, refresh, logout, fault>>

\* AccessTokenAuthGuard, authenticateAccessToken, then the handler.
RequestServe(r) ==
    LET t == req[r].tok
        bad == t # 0 /\ (t <= expired \/ ~Live(tokens[t]))
        answer(pc) == req' = [req EXCEPT ![r].pc = pc]
    IN /\ req[r].pc = "sent"
       /\ \/ t = 0 /\ answer("failed") /\ UNCHANGED <<storeVars, fault>>
          \/ bad /\ answer("expired") /\ fault' = (fault \/ req[r].retry) /\ UNCHANGED storeVars
          \/ t # 0 /\ ~bad /\ answer("ok") /\ Grant(tokens[t]) /\ UNCHANGED fault
          \/ /\ t # 0 /\ ~bad /\ answer("failed") /\ Grant(tokens[t])
             /\ fault' = (fault \/ req[r].retry \/ r = "me")
       /\ UNCHANGED <<accountVars, pageVars, tokens, expired, refresh, logout>>

\* Mutant: an expired access token ends the session instead of renewing it.
RequestAnswerNoRefresh(r) ==
    /\ req[r].pc \in {"ok", "expired", "failed"}
    /\ req' = [req EXCEPT ![r] = NoCall]
    /\ \/ req[r].pc = "ok" /\ r = "me" /\ Authenticated(tok)
       \/ req[r].pc = "ok" /\ r # "me" /\ UNCHANGED <<tok, signedIn, hydrating>>
       \/ req[r].pc # "ok" /\ ClearSession
    /\ UNCHANGED <<serverVars, cookie, tokens, expired, refresh, logout, loads, fault, out>>

\* An expired token is renewed once per request, and only one renewal runs.
\* Any failure of a request that was retried ends the session.
RequestAnswer(r) ==
    /\ req[r].pc \in {"ok", "expired", "failed"}
    /\ \/ /\ req[r].pc = "ok"
          /\ req' = [req EXCEPT ![r] = NoCall]
          /\ IF r = "me" THEN Authenticated(tok) ELSE UNCHANGED <<tok, signedIn, hydrating>>
          /\ UNCHANGED refresh
       \/ /\ req[r].pc = "expired" /\ ~req[r].retry
          /\ req' = [req EXCEPT ![r].pc = "waiting", ![r].retry = TRUE]
          /\ refresh' = IF refresh["shared"] = NoCall
                          THEN [refresh EXCEPT !["shared"] = Sent(cookie, 0)] ELSE refresh
          /\ UNCHANGED <<tok, signedIn, hydrating>>
       \/ /\ req[r].pc = "failed" \/ (req[r].pc = "expired" /\ req[r].retry)
          /\ req' = [req EXCEPT ![r] = NoCall]
          /\ IF r = "me" \/ req[r].retry THEN ClearSession ELSE UNCHANGED <<tok, signedIn, hydrating>>
          /\ UNCHANGED refresh
    /\ UNCHANGED <<serverVars, cookie, tokens, expired, logout, loads, fault, out>>

\* A call or its answer is lost: axios rejects it without a response.
NetError ==
    /\ fault' = TRUE
    /\ \/ \E k \in Refreshes : /\ refresh[k].pc = "sent"
                               /\ refresh' = [refresh EXCEPT ![k].pc = "failed"]
                               /\ UNCHANGED req
       \/ \E r \in AllReqs : /\ req[r].pc = "sent"
                             /\ req' = [req EXCEPT ![r].pc = "failed"]
                             /\ UNCHANGED refresh
    /\ UNCHANGED <<serverVars, pageVars, tokens, expired, logout>>

-----------------------------------------------------------------------------
(* Sign-out: revokeRefreshToken on the server, then clearSession.          *)

LogoutSend ==
    /\ signedIn /\ Alone /\ logout = NoCall
    /\ logout' = Sent(cookie, 0)
    /\ UNCHANGED <<serverVars, pageVars, tokens, expired, refresh, req, fault>>

\* A lapsed refresh token fails to verify and revokes nothing.
LogoutServe ==
    LET c == logout.cookie
    IN /\ logout.pc \in {"sent", "orphan"}
       /\ IF c # 0 /\ state[c] # "lapsed" THEN Revoke(c) ELSE UNCHANGED storeVars
       /\ logout' = IF logout.pc = "sent" THEN [logout EXCEPT !.pc = "served"] ELSE NoCall
       /\ UNCHANGED <<accountVars, pageVars, tokens, expired, refresh, req, fault>>

LogoutAnswer ==
    /\ logout.pc = "served"
    /\ logout' = NoCall
    /\ cookie' = 0
    /\ ClearSession
    /\ out' = Settled
    /\ UNCHANGED <<serverVars, tokens, expired, refresh, req, loads, fault>>

\* Mutant: the page signs out although the server never answered.
LogoutLostSignsOut ==
    /\ logout.pc \in {"sent", "served", "orphan"}
    /\ logout' = NoCall
    /\ ClearSession
    /\ out' = Settled
    /\ UNCHANGED <<serverVars, cookie, tokens, expired, refresh, req, loads, fault>>

\* The page keeps its session when logout fails.
LogoutLost ==
    /\ logout.pc \in {"sent", "served", "orphan"}
    /\ logout' = NoCall
    /\ UNCHANGED <<serverVars, pageVars, tokens, expired, refresh, req, fault>>

-----------------------------------------------------------------------------
(* Page loads and sign-in.                                                 *)

\* The new page starts hydrateSession with cookie c; the old one's calls are gone.
LoadPage(c) ==
    /\ loads < MaxLoads /\ loads' = loads + 1
    /\ signedIn' = FALSE /\ hydrating' = TRUE
    /\ refresh' = [k \in Refreshes |-> IF k = "hydrate" THEN Sent(c, 0) ELSE NoCall]
    /\ req' = [r \in AllReqs |-> NoCall]
    /\ logout' = IF logout.pc \in {"sent", "orphan"} THEN [logout EXCEPT !.pc = "orphan"] ELSE NoCall
    /\ fault' = FALSE

Reload ==
    /\ job[Me] = NoJob /\ Alone
    /\ LoadPage(cookie)
    /\ UNCHANGED <<serverVars, cookie, tokens, expired, tok, out>>

SignInPage == ~signedIn /\ ~hydrating

SignIn ==
    /\ SignInPage
    /\ \E e \in Emails, w \in Passwords :
          LoginLocalAccount(Me, e, w) \/ \E n \in Names : RegisterLocalAccount(Me, e, n, w)
    /\ out' = FALSE
    /\ UNCHANGED <<cookie, tokens, expired, tok, signedIn, hydrating, refresh, req, logout, loads,
                   fault>>

\* startGoogleLogin leaves the page; the callback's redirect loads it again.
SignInGoogle ==
    /\ SignInPage /\ loads < MaxLoads
    /\ \E profile \in Profiles : GoogleCallback(Me, profile)
    /\ out' = FALSE
    /\ hydrating' = TRUE
    /\ refresh' = [k \in Refreshes |-> NoCall]
    /\ req' = [r \in AllReqs |-> NoCall]
    /\ UNCHANGED <<cookie, tokens, expired, tok, signedIn, logout, loads, fault>>

\* registerLocal, loginLocal: the cookie and the token of the new session.
SignInAnswer ==
    /\ job[Me].pc = "reply" /\ job[Me].op # "google"
    /\ job' = [job EXCEPT ![Me] = NoJob]
    /\ \/ /\ job[Me].sid # 0 /\ Len(tokens) < MaxTokens
          /\ cookie' = job[Me].sid
          /\ tokens' = Append(tokens, cookie')
          /\ Authenticated(Len(tokens'))
          /\ fault' = (~Quiet \/ logout # NoCall \/ \E r \in AllReqs : req[r] # NoCall)
       \/ UNCHANGED <<cookie, tokens, tok, signedIn, hydrating, fault>>
    /\ UNCHANGED <<storeVars, users, attempts, started, aborted, expired, refresh, req, logout,
                   loads, out>>

GoogleRedirect ==
    /\ job[Me].pc = "reply" /\ job[Me].op = "google"
    /\ job' = [job EXCEPT ![Me] = NoJob]
    /\ cookie' = IF job[Me].sid # 0 THEN job[Me].sid ELSE cookie
    /\ LoadPage(cookie')
    /\ UNCHANGED <<storeVars, users, attempts, started, aborted, tokens, expired, tok, out>>

-----------------------------------------------------------------------------
(* Other clients, and time.                                                *)

OtherClient(c) ==
    /\ c # Me /\ tokens = << >>
    /\ \/ \E e \in Emails, n \in Names, w \in Passwords : RegisterLocalAccount(c, e, n, w)
       \/ \E profile \in Profiles : GoogleCallback(c, profile)
       \/ /\ job[c].pc = "reply"
          /\ job' = [job EXCEPT ![c] = NoJob]
          /\ UNCHANGED <<users, attempts, started, aborted, storeVars>>
    /\ UNCHANGED browserVars

TokensExpire ==
    /\ \E n \in expired + 1 .. Len(tokens) : expired' = n
    /\ UNCHANGED <<serverVars, pageVars, tokens, refresh, req, logout, fault>>

SessionsLapse == Lapse /\ UNCHANGED <<accountVars, browserVars>>

Next ==
    \/ \E k \in Refreshes : RefreshServe(k) \/ RefreshAnswer(k)
    \/ \E r \in AllReqs : RequestSend(r) \/ RequestServe(r) \/ RequestAnswer(r)
    \/ NetError
    \/ LogoutSend \/ LogoutServe \/ LogoutAnswer \/ LogoutLost
    \/ Reload \/ SignIn \/ SignInGoogle \/ SignInAnswer \/ GoogleRedirect
    \/ \E c \in Clients : OtherClient(c) \/ (AccountsStep(c) /\ UNCHANGED browserVars)
    \/ TokensExpire \/ SessionsLapse

Spec == Init /\ [][Next]_vars

-----------------------------------------------------------------------------
\* As long as no answer was lost and no retried request failed, a page whose
\* refresh cookie names a live session is signed in: expired access tokens are
\* renewed behind the requests that meet them, however many share the renewal.
KeptSignedIn == cookie # 0 /\ Live(cookie) /\ ~fault /\ ~hydrating => signedIn

\* Once logout has returned, with no renewal or sign-in in flight, the browser
\* stays signed out until the user signs in again: requests that were under way
\* and a reload of the page restore nothing.
SignOutHolds == out => ~signedIn /\ tok = 0
=============================================================================
