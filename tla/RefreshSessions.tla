--------------------------- MODULE RefreshSessions ---------------------------
(***************************************************************************)
(* Login sessions of the web backend: a refresh session is created at      *)
(* login, renewed by /auth/refresh, revoked by /auth/logout and looked up  *)
(* by every authenticated request.  Handlers interleave at their awaits;   *)
(* a mongoose document that was read earlier is saved later, and save()    *)
(* writes only the paths the handler modified.                             *)
(*                                                                         *)
(* JWT signatures are taken to be unforgeable: a token is the session id   *)
(* it carries and its expiry.  The audit records (recordAttempt) are not   *)
(* modelled.                                                               *)
(***************************************************************************)
EXTENDS SessionTimes, Sequences

CONSTANTS
    Procs,        \* slots for handlers in flight
    MaxSessions,  \* bound on the number of logins
    MaxClock      \* bound on the clock

VARIABLES
    sessions,   \* the refreshsessions collection
    tokens,     \* access tokens handed out
    clock,
    call,       \* call[p]: the handler in slot p
    loggedOut,  \* history: the sessions whose logout has returned
    admitted    \* history: the requests that passed authentication

vars == <<sessions, tokens, clock, call, loggedOut, admitted>>

\* revoked: revokedAt is set.
Session == [status : {"active", "expired", "revoked"}, revoked : BOOLEAN, expiresAt : Nat]
AccessToken == [sid : Nat, exp : Nat]

\* dirty: the handler's document has a modified status path.
\* late: the request arrived after the logout of its session had returned.
Call ==
    [op : {"idle", "refresh", "logout", "request"},
     pc : {"idle", "find", "user", "saveUsed", "saveExpired", "saveRevoked"},
     sid : Nat, dirty : BOOLEAN, late : BOOLEAN]

Admission == [sid : Nat, late : BOOLEAN]

Idle == [op |-> "idle", pc |-> "idle", sid |-> 0, dirty |-> FALSE, late |-> FALSE]

TypeOK ==
    /\ sessions \in Seq(Session)
    /\ tokens \subseteq AccessToken
    /\ clock \in Nat
    /\ call \in [Procs -> Call]
    /\ loggedOut \subseteq Nat
    /\ admitted \subseteq Admission

Init ==
    /\ sessions = << >>
    /\ tokens = {}
    /\ clock = 0
    /\ call = [p \in Procs |-> Idle]
    /\ loggedOut = {}
    /\ admitted = {}

NewToken(s) == [sid |-> s, exp |-> clock + AccessTTL]

\* issueTokenPair, at the end of a login.
IssueTokenPair ==
    /\ Len(sessions) < MaxSessions
    /\ sessions' = Append(sessions, [status |-> "active", revoked |-> FALSE,
                                     expiresAt |-> clock + RefreshTTL])
    /\ tokens' = tokens \cup {NewToken(Len(sessions) + 1)}
    /\ UNCHANGED <<clock, call, loggedOut, admitted>>

Begin(p, op, s) ==
    /\ call[p] = Idle
    /\ call' = [call EXCEPT ![p] = [op |-> op, pc |-> "find", sid |-> s, dirty |-> FALSE,
                                    late |-> s \in loggedOut]]
    /\ UNCHANGED <<sessions, tokens, clock, loggedOut, admitted>>

Return(p) == call' = [call EXCEPT ![p] = Idle]

-----------------------------------------------------------------------------
(* /auth/refresh.  verifyRefreshToken rejects an expired token first.      *)

RefreshAccessToken(p) ==
    \E s \in DOMAIN sessions : clock < sessions[s].expiresAt /\ Begin(p, "refresh", s)

\* findById, the checks, and now = new Date().
RefreshFind(p) ==
    LET doc == sessions[call[p].sid]
    IN /\ call[p].op = "refresh" /\ call[p].pc = "find"
       /\ IF doc.revoked \/ doc.status = "revoked" THEN Return(p)
          ELSE IF doc.expiresAt <= clock
                 THEN call' = [call EXCEPT ![p].pc = "saveExpired",
                                           ![p].dirty = (doc.status # "expired")]
                 ELSE call' = [call EXCEPT ![p].pc = "user"]
       /\ UNCHANGED <<sessions, tokens, clock, loggedOut, admitted>>

RefreshSaveExpired(p) ==
    LET c == call[p]
    IN /\ c.op = "refresh" /\ c.pc = "saveExpired"
       /\ sessions' = [sessions EXCEPT ![c.sid].status = IF c.dirty THEN "expired" ELSE @]
       /\ Return(p)
       /\ UNCHANGED <<tokens, clock, loggedOut, admitted>>

\* The user is looked up; accounts are never deleted.
RefreshFindUser(p) ==
    /\ call[p].op = "refresh" /\ call[p].pc = "user"
    /\ call' = [call EXCEPT ![p].pc = "saveUsed"]
    /\ UNCHANGED <<sessions, tokens, clock, loggedOut, admitted>>

\* Mutant: the whole document is written back, as it was read.
RefreshSaveWhole(p) ==
    LET c == call[p]
    IN /\ c.op = "refresh" /\ c.pc = "saveUsed"
       /\ sessions' = [sessions EXCEPT ![c.sid].status = "active", ![c.sid].revoked = FALSE]
       /\ tokens' = tokens \cup {NewToken(c.sid)}
       /\ Return(p)
       /\ UNCHANGED <<clock, loggedOut, admitted>>

\* Only lastUsedAt is modified, so save() writes neither status nor revokedAt.
RefreshSaveUsed(p) ==
    LET c == call[p]
    IN /\ c.op = "refresh" /\ c.pc = "saveUsed"
       /\ tokens' = tokens \cup {NewToken(c.sid)}
       /\ Return(p)
       /\ UNCHANGED <<sessions, clock, loggedOut, admitted>>

-----------------------------------------------------------------------------
(* /auth/logout.  A refresh token that no longer verifies is ignored.      *)

RevokeRefreshToken(p) ==
    \E s \in DOMAIN sessions : clock < sessions[s].expiresAt /\ Begin(p, "logout", s)

RevokeFind(p) ==
    LET c == call[p]
    IN /\ c.op = "logout" /\ c.pc = "find"
       /\ call' = [call EXCEPT ![p].pc = "saveRevoked",
                               ![p].dirty = (sessions[c.sid].status # "revoked")]
       /\ UNCHANGED <<sessions, tokens, clock, loggedOut, admitted>>

RevokeSave(p) ==
    LET c == call[p]
    IN /\ c.op = "logout" /\ c.pc = "saveRevoked"
       /\ sessions' = [sessions EXCEPT ![c.sid].revoked = TRUE,
                                       ![c.sid].status = IF c.dirty THEN "revoked" ELSE @]
       /\ loggedOut' = loggedOut \cup {c.sid}
       /\ Return(p)
       /\ UNCHANGED <<tokens, clock, admitted>>

-----------------------------------------------------------------------------
(* An authenticated request: AccessTokenAuthGuard, the sockets' handshake. *)

\* verifyAccessToken: the signature and the token's own expiry.
AuthenticateAccessToken(p) ==
    \E t \in tokens : clock < t.exp /\ Begin(p, "request", t.sid)

\* Mutant: the expiry of the session is not looked at.
SessionLiveNoExpiry(s) == sessions[s].status = "active" /\ ~sessions[s].revoked

SessionLive(s) ==
    /\ sessions[s].status = "active"
    /\ ~sessions[s].revoked
    /\ clock < sessions[s].expiresAt

AuthenticateFind(p) ==
    LET c == call[p]
    IN /\ c.op = "request" /\ c.pc = "find"
       /\ admitted' = IF SessionLive(c.sid) THEN admitted \cup {[sid |-> c.sid, late |-> c.late]}
                                            ELSE admitted
       /\ Return(p)
       /\ UNCHANGED <<sessions, tokens, clock, loggedOut>>

-----------------------------------------------------------------------------

Tick ==
    /\ clock < MaxClock
    /\ clock' = clock + 1
    /\ UNCHANGED <<sessions, tokens, call, loggedOut, admitted>>

\* An awaited database call is rejected: the handler ends where it is.
Fail(p) ==
    /\ call[p] # Idle
    /\ Return(p)
    /\ UNCHANGED <<sessions, tokens, clock, loggedOut, admitted>>

Handler(p) ==
    \/ RefreshAccessToken(p) \/ RefreshFind(p) \/ RefreshSaveExpired(p)
    \/ RefreshFindUser(p) \/ RefreshSaveUsed(p)
    \/ RevokeRefreshToken(p) \/ RevokeFind(p) \/ RevokeSave(p)
    \/ AuthenticateAccessToken(p) \/ AuthenticateFind(p)
    \/ Fail(p)

\* Nothing is left to do: every session and every token has expired.
Over == clock = MaxClock /\ UNCHANGED vars

Next == IssueTokenPair \/ Tick \/ Over \/ \E p \in Procs : Handler(p)

Spec == Init /\ [][Next]_vars

-----------------------------------------------------------------------------
\* No request that arrives after the logout of its session has returned is
\* admitted, whichever refreshes and logouts of the session are in flight with
\* documents they read before.
NoUseAfterLogout == \A a \in admitted : ~a.late

\* A revoked session stays revoked and never becomes active again: no save of
\* a document read before the revocation undoes it.
RevocationIsPermanent ==
    [][\A s \in DOMAIN sessions : sessions[s].revoked =>
          sessions'[s].revoked /\ sessions'[s].status # "active"]_vars

\* A session nobody revoked keeps the status "active" until it expires, so its
\* user is never signed out early.
LiveStaysActive ==
    \A s \in DOMAIN sessions :
        ~sessions[s].revoked /\ clock < sessions[s].expiresAt => sessions[s].status = "active"

-----------------------------------------------------------------------------
\* The abstract state of a session: revokedAt counts before the expiry.
SessionState(s) ==
    IF sessions[s].revoked THEN "revoked"
    ELSE IF sessions[s].expiresAt <= clock THEN "lapsed" ELSE "live"

SessionStates == [s \in DOMAIN sessions |-> SessionState(s)]
GrantedSessions == {a.sid : a \in admitted}

Store == INSTANCE SessionStore WITH state <- SessionStates, granted <- GrantedSessions

\* The handlers of login, refresh, logout and authentication, interleaved at
\* their awaits, implement the session store: a session lapses or is revoked for
\* good, and authenticateAccessToken lets a request in only while its session is
\* live at that moment, whatever documents other handlers still hold.
ImplementsSessionStore == Store!StoreSpec
=============================================================================
