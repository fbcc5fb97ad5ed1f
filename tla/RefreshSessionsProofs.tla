------------------------ MODULE RefreshSessionsProofs ------------------------
(***************************************************************************)
(* Proofs about the refresh sessions, for any number of handlers, sessions *)
(* and clock values.  Auth is RefreshSessions, as MCWebAuth instantiates   *)
(* it.                                                                     *)
(***************************************************************************)
EXTENDS MCWebAuth, TLAPS

\* What a handler in flight knows: its session exists; if it arrived after the
\* logout, that logout is on record; a session it found expired has expired;
\* a session it found revoked already is not active.
CallInv ==
    \A p \in Procs : call[p].op # "idle" =>
        /\ call[p].sid \in DOMAIN sessions
        /\ call[p].late => call[p].sid \in loggedOut
        /\ call[p].pc = "saveExpired" => sessions[call[p].sid].expiresAt <= clock
        /\ call[p].pc = "saveRevoked" /\ ~call[p].dirty => sessions[call[p].sid].status # "active"

\* A session whose logout has returned is revoked.
LogoutInv == \A s \in loggedOut : s \in DOMAIN sessions /\ sessions[s].revoked

\* A revoked session is not active, and only a revoked or expired one is not.
StatusInv ==
    \A s \in DOMAIN sessions :
        /\ sessions[s].revoked => sessions[s].status # "active"
        /\ sessions[s].status # "active" => sessions[s].revoked \/ sessions[s].expiresAt <= clock

TokenInv == \A t \in issued : t.sid \in DOMAIN sessions

IInv == Auth!TypeOK /\ CallInv /\ LogoutInv /\ StatusInv /\ TokenInv /\ Auth!NoUseAfterLogout

USE TTLAssumption

\* No session, no token, no handler.
LEMMA InitIInv == Auth!Init => IInv
  BY DEF Auth!Init, IInv, Auth!TypeOK, CallInv, LogoutInv, StatusInv, TokenInv,
         Auth!NoUseAfterLogout, Auth!Idle, Auth!Call

\* An empty slot is a Call.
LEMMA IdleTyped == Auth!Idle \in Auth!Call
  BY DEF Auth!Idle, Auth!Call

\* Writing one document of the collection keeps the others.
LEMMA WriteSession ==
    ASSUME Auth!TypeOK, NEW s \in DOMAIN sessions, NEW doc \in Auth!Session,
           sessions' = [sessions EXCEPT ![s] = doc]
    PROVE  /\ sessions' \in Seq(Auth!Session)
           /\ DOMAIN sessions' = DOMAIN sessions
           /\ sessions'[s] = doc
           /\ \A r \in DOMAIN sessions : r # s => sessions'[r] = sessions[r]
  BY DEF Auth!TypeOK

\* The fields of a session have the types Session gives them.
LEMMA SessionTyped ==
    ASSUME Auth!TypeOK, NEW s \in DOMAIN sessions
    PROVE  /\ sessions[s] \in Auth!Session
           /\ sessions[s].status \in {"active", "expired", "revoked"}
           /\ sessions[s].revoked \in BOOLEAN
           /\ sessions[s].expiresAt \in Nat
<1>1. sessions[s] \in Auth!Session
  BY DEF Auth!TypeOK
<1>2. QED
  BY <1>1 DEF Auth!Session

\* Every step of a handler, a login and the clock keep the invariant.
LEMMA StepIInv == IInv /\ [Auth!Next]_(Auth!vars) => IInv'
<1> SUFFICES ASSUME IInv, [Auth!Next]_(Auth!vars) PROVE IInv'
  OBVIOUS
<1> USE IdleTyped DEF IInv
<1>1. CASE Auth!IssueTokenPair
  <2>1. /\ Len(sessions) \in Nat
        /\ DOMAIN sessions = 1..Len(sessions)
        /\ Len(sessions') = Len(sessions) + 1
        /\ DOMAIN sessions' = 1..Len(sessions')
        /\ \A s \in DOMAIN sessions : sessions'[s] = sessions[s]
        /\ sessions'[Len(sessions) + 1] = [status |-> "active", revoked |-> FALSE,
                                           expiresAt |-> clock + RefreshTTL]
    BY <1>1 DEF Auth!IssueTokenPair, Auth!TypeOK, Auth!Session
  <2>2. Auth!TypeOK'
    BY <1>1, <2>1 DEF Auth!IssueTokenPair, Auth!TypeOK, Auth!Session, Auth!NewToken,
                      Auth!AccessToken
  <2>3. CallInv'
    BY <1>1, <2>1 DEF Auth!IssueTokenPair, CallInv
  <2>4. LogoutInv' /\ Auth!NoUseAfterLogout'
    BY <1>1, <2>1 DEF Auth!IssueTokenPair, LogoutInv, Auth!NoUseAfterLogout
  <2>5. StatusInv'
    BY <1>1, <2>1 DEF Auth!IssueTokenPair, StatusInv, Auth!TypeOK
  <2>6. TokenInv'
    BY <1>1, <2>1 DEF Auth!IssueTokenPair, TokenInv, Auth!NewToken
  <2>7. QED BY <2>2, <2>3, <2>4, <2>5, <2>6
<1>2. CASE Auth!Tick
  <2>1. Auth!TypeOK' /\ LogoutInv' /\ TokenInv' /\ Auth!NoUseAfterLogout'
    BY <1>2 DEF Auth!Tick, Auth!TypeOK, LogoutInv, TokenInv, Auth!NoUseAfterLogout
  <2>2. \A s \in DOMAIN sessions : sessions[s].expiresAt <= clock => sessions[s].expiresAt <= clock'
    <3>1. clock \in Nat /\ clock' = clock + 1
      BY <1>2 DEF Auth!Tick, Auth!TypeOK
    <3>2. \A s \in DOMAIN sessions : sessions[s].expiresAt \in Nat
      BY SessionTyped
    <3>3. QED BY <3>1, <3>2
  <2>3. sessions' = sessions /\ call' = call /\ loggedOut' = loggedOut
    BY <1>2 DEF Auth!Tick
  <2>4. CallInv'
    BY <2>2, <2>3 DEF CallInv
  <2>5. StatusInv'
    BY <2>2, <2>3 DEF StatusInv
  <2>6. QED BY <2>1, <2>4, <2>5
<1>3. CASE UNCHANGED Auth!vars
  BY <1>3 DEF Auth!vars, Auth!TypeOK, CallInv, LogoutInv, StatusInv, TokenInv,
              Auth!NoUseAfterLogout
<1>4. ASSUME NEW p \in Procs, Auth!Handler(p) PROVE IInv'
  <2> DEFINE c == call[p]
  <2>0. c \in Auth!Call
    BY DEF Auth!TypeOK
  <2>1. ASSUME NEW s \in DOMAIN sessions, NEW op \in {"refresh", "logout", "request"},
               Auth!Begin(p, op, s)
        PROVE  IInv'
    <3>1. Auth!TypeOK'
      BY <2>1 DEF Auth!Begin, Auth!TypeOK, Auth!Call
    <3>2. CallInv'
      BY <2>1 DEF Auth!Begin, Auth!TypeOK, CallInv, Auth!Call
    <3>3. QED
      BY <2>1, <3>1, <3>2 DEF Auth!Begin, LogoutInv, StatusInv, TokenInv, Auth!NoUseAfterLogout
  <2>2. CASE Auth!RefreshAccessToken(p)
    BY <2>1, <2>2 DEF Auth!RefreshAccessToken
  <2>3. CASE Auth!RevokeRefreshToken(p)
    BY <2>1, <2>3 DEF Auth!RevokeRefreshToken
  <2>4. CASE Auth!AuthenticateAccessToken(p)
    <3>1. PICK t \in issued : Auth!Begin(p, "request", t.sid)
      BY <2>4 DEF Auth!AuthenticateAccessToken
    <3>2. t.sid \in DOMAIN sessions
      BY DEF TokenInv
    <3>3. QED BY <2>1, <3>1, <3>2
  <2>5. CASE Auth!RefreshFind(p)
    <3>1. Auth!TypeOK'
      BY <2>5, <2>0, SMTT(30) DEF Auth!RefreshFind, Auth!Return, Auth!TypeOK, Auth!Call
    <3>2. CallInv'
      BY <2>5, <2>0 DEF Auth!RefreshFind, Auth!Return, Auth!TypeOK, CallInv, Auth!Call, Auth!Idle
    <3>3. QED
      BY <2>5, <3>1, <3>2 DEF Auth!RefreshFind, LogoutInv, StatusInv, TokenInv,
                              Auth!NoUseAfterLogout
  <2>6. CASE Auth!RefreshFindUser(p)
    <3>1. Auth!TypeOK'
      BY <2>6, <2>0 DEF Auth!RefreshFindUser, Auth!TypeOK, Auth!Call
    <3>2. CallInv'
      BY <2>6, <2>0 DEF Auth!RefreshFindUser, Auth!TypeOK, CallInv, Auth!Call
    <3>3. QED
      BY <2>6, <3>1, <3>2 DEF Auth!RefreshFindUser, LogoutInv, StatusInv, TokenInv,
                              Auth!NoUseAfterLogout
  <2>7. CASE Auth!RefreshSaveUsed(p)
    <3>0. c.sid \in DOMAIN sessions
      BY <2>7 DEF Auth!RefreshSaveUsed, CallInv
    <3>1. Auth!TypeOK'
      BY <2>7, <2>0, <3>0 DEF Auth!RefreshSaveUsed, Auth!Return, Auth!TypeOK, Auth!Call,
                              Auth!NewToken, Auth!AccessToken
    <3>2. CallInv'
      BY <2>7, <2>0 DEF Auth!RefreshSaveUsed, Auth!Return, Auth!TypeOK, CallInv, Auth!Call,
                        Auth!Idle
    <3>3. TokenInv'
      BY <2>7, <3>0 DEF Auth!RefreshSaveUsed, TokenInv, Auth!NewToken
    <3>4. QED
      BY <2>7, <3>1, <3>2, <3>3 DEF Auth!RefreshSaveUsed, LogoutInv, StatusInv,
                                    Auth!NoUseAfterLogout
  <2>8. CASE Auth!RefreshSaveExpired(p)
    <3>0. c.sid \in DOMAIN sessions /\ sessions[c.sid].expiresAt <= clock
      BY <2>8 DEF Auth!RefreshSaveExpired, CallInv
    <3> DEFINE doc == [sessions[c.sid] EXCEPT !.status = IF c.dirty THEN "expired" ELSE @]
    <3>a. doc \in Auth!Session /\ doc.expiresAt = sessions[c.sid].expiresAt
          /\ doc.revoked = sessions[c.sid].revoked
          /\ (doc.status # sessions[c.sid].status => doc.status = "expired")
      BY <3>0, SessionTyped DEF Auth!Session
    <3>b. sessions' = [sessions EXCEPT ![c.sid] = doc]
      BY <2>8 DEF Auth!RefreshSaveExpired
    <3> HIDE DEF doc
    <3>1. /\ sessions' \in Seq(Auth!Session)
          /\ DOMAIN sessions' = DOMAIN sessions
          /\ \A s \in DOMAIN sessions :
                /\ sessions'[s].expiresAt = sessions[s].expiresAt
                /\ sessions'[s].revoked = sessions[s].revoked
                /\ sessions'[s].status # sessions[s].status =>
                      s = c.sid /\ sessions'[s].status = "expired"
      BY <3>0, <3>a, <3>b, WriteSession
    <3>2. Auth!TypeOK'
      BY <2>8, <3>1 DEF Auth!RefreshSaveExpired, Auth!Return, Auth!TypeOK
    <3>3. CallInv'
      BY <2>8, <3>1 DEF Auth!RefreshSaveExpired, Auth!Return, Auth!TypeOK, CallInv, Auth!Idle
    <3>4. StatusInv'
      BY <2>8, <3>0, <3>1 DEF Auth!RefreshSaveExpired, StatusInv
    <3>5. QED
      BY <2>8, <3>1, <3>2, <3>3, <3>4
      DEF Auth!RefreshSaveExpired, LogoutInv, TokenInv, Auth!NoUseAfterLogout
  <2>9. CASE Auth!RevokeFind(p)
    <3>1. Auth!TypeOK'
      BY <2>9, <2>0 DEF Auth!RevokeFind, Auth!TypeOK, Auth!Call
    <3>2. CallInv'
      BY <2>9, <2>0 DEF Auth!RevokeFind, Auth!TypeOK, CallInv, Auth!Call
    <3>3. QED
      BY <2>9, <3>1, <3>2 DEF Auth!RevokeFind, LogoutInv, StatusInv, TokenInv,
                              Auth!NoUseAfterLogout
  <2>10. CASE Auth!RevokeSave(p)
    <3>0. /\ c.sid \in DOMAIN sessions
          /\ ~c.dirty => sessions[c.sid].status # "active"
      BY <2>10 DEF Auth!RevokeSave, CallInv
    <3> DEFINE doc == [sessions[c.sid] EXCEPT !.revoked = TRUE,
                                              !.status = IF c.dirty THEN "revoked" ELSE @]
    <3>a. doc \in Auth!Session /\ doc.expiresAt = sessions[c.sid].expiresAt
          /\ doc.revoked /\ doc.status # "active"
      BY <3>0, SessionTyped DEF Auth!Session
    <3>b. sessions' = [sessions EXCEPT ![c.sid] = doc]
      BY <2>10, <3>0, SessionTyped DEF Auth!RevokeSave, Auth!TypeOK, Auth!Session
    <3> HIDE DEF doc
    <3>1. /\ sessions' \in Seq(Auth!Session)
          /\ DOMAIN sessions' = DOMAIN sessions
          /\ \A s \in DOMAIN sessions :
                /\ sessions'[s].expiresAt = sessions[s].expiresAt
                /\ s # c.sid => sessions'[s] = sessions[s]
          /\ sessions'[c.sid].revoked
          /\ sessions'[c.sid].status # "active"
      BY <3>0, <3>a, <3>b, WriteSession
    <3>2. Auth!TypeOK'
      BY <2>10, <3>0, <3>1 DEF Auth!RevokeSave, Auth!Return, Auth!TypeOK
    <3>3. CallInv'
      BY <2>10, <3>1 DEF Auth!RevokeSave, Auth!Return, Auth!TypeOK, CallInv, Auth!Idle
    <3>4. StatusInv' /\ LogoutInv'
      BY <2>10, <3>0, <3>1 DEF Auth!RevokeSave, StatusInv, LogoutInv
    <3>5. QED
      BY <2>10, <3>1, <3>2, <3>3, <3>4 DEF Auth!RevokeSave, TokenInv, Auth!NoUseAfterLogout
  <2>11. CASE Auth!AuthenticateFind(p)
    <3>1. Auth!TypeOK'
      BY <2>11, <2>0 DEF Auth!AuthenticateFind, Auth!Return, Auth!TypeOK, Auth!Call,
                         Auth!Admission
    <3>2. CallInv'
      BY <2>11 DEF Auth!AuthenticateFind, Auth!Return, Auth!TypeOK, CallInv, Auth!Idle
    <3>3. Auth!SessionLive(c.sid) => ~c.late
      BY <2>11 DEF Auth!AuthenticateFind, CallInv, LogoutInv, Auth!SessionLive
    <3>4. Auth!NoUseAfterLogout'
      BY <2>11, <3>3 DEF Auth!AuthenticateFind, Auth!NoUseAfterLogout
    <3>5. QED
      BY <2>11, <3>1, <3>2, <3>4 DEF Auth!AuthenticateFind, LogoutInv, StatusInv, TokenInv
  <2>12. CASE Auth!Fail(p)
    <3>1. Auth!TypeOK' /\ CallInv'
      BY <2>12 DEF Auth!Fail, Auth!Return, Auth!TypeOK, CallInv, Auth!Idle
    <3>2. QED
      BY <2>12, <3>1 DEF Auth!Fail, LogoutInv, StatusInv, TokenInv, Auth!NoUseAfterLogout
  <2>13. QED
    BY <1>4, <2>2, <2>3, <2>4, <2>5, <2>6, <2>7, <2>8, <2>9, <2>10, <2>11, <2>12 DEF Auth!Handler
<1>5. QED
  BY <1>1, <1>2, <1>3, <1>4 DEF Auth!Next, Auth!Over

\* The invariant always holds.
LEMMA Invariance == Auth!Spec => []IInv
  BY InitIInv, StepIInv, PTL DEF Auth!Spec

\* Type correctness of the refresh sessions.
THEOREM TypeCorrect == Auth!Spec => []Auth!TypeOK
  BY Invariance, PTL DEF IInv

\* authenticateAccessToken admits no request that arrives after the logout of
\* its session has returned.
THEOREM LogoutIsEffective == Auth!Spec => []NoUseAfterLogout
  BY Invariance, PTL DEF IInv, NoUseAfterLogout

\* A session that was not revoked keeps the status "active" until it expires.
THEOREM NoEarlySignOut == Auth!Spec => []Auth!LiveStaysActive
<1>1. IInv => Auth!LiveStaysActive
  <2> SUFFICES ASSUME IInv, NEW s \in DOMAIN sessions,
                      ~sessions[s].revoked, clock < sessions[s].expiresAt
               PROVE  sessions[s].status = "active"
    BY DEF Auth!LiveStaysActive
  <2>1. clock \in Nat /\ sessions[s].expiresAt \in Nat
    BY SessionTyped DEF IInv, Auth!TypeOK
  <2>2. ~(sessions[s].expiresAt <= clock)
    BY <2>1
  <2>3. QED BY <2>2 DEF IInv, StatusInv
<1>2. QED BY Invariance, <1>1, PTL

\* No save() of a refresh session, made with a document read before the
\* revocation, undoes the revocation.
THEOREM RevocationStands == Auth!Spec => Auth!RevocationIsPermanent
<1> DEFINE Stands == \A s \in DOMAIN sessions : sessions[s].revoked =>
                        sessions'[s].revoked /\ sessions'[s].status # "active"
<1>1. ASSUME IInv, IInv', [Auth!Next]_(Auth!vars) PROVE Stands
  <2>1. \A s \in DOMAIN sessions : s \in DOMAIN sessions' /\ (sessions[s].revoked => sessions'[s].revoked)
    <3>1. CASE Auth!IssueTokenPair
      BY <1>1, <3>1 DEF Auth!IssueTokenPair, IInv, Auth!TypeOK
    <3>2. CASE UNCHANGED sessions
      BY <3>2
    <3>3. ASSUME NEW p \in Procs, Auth!RefreshSaveExpired(p) \/ Auth!RevokeSave(p)
          PROVE  \A s \in DOMAIN sessions :
                    s \in DOMAIN sessions' /\ (sessions[s].revoked => sessions'[s].revoked)
      <4>1. call[p].sid \in DOMAIN sessions /\ Auth!TypeOK
        BY <1>1, <3>3 DEF Auth!RefreshSaveExpired, Auth!RevokeSave, IInv, CallInv
      <4>2. PICK doc \in Auth!Session :
                /\ sessions' = [sessions EXCEPT ![call[p].sid] = doc]
                /\ sessions[call[p].sid].revoked => doc.revoked
        <5>1. CASE Auth!RefreshSaveExpired(p)
          <6> DEFINE doc == [sessions[call[p].sid] EXCEPT
                               !.status = IF call[p].dirty THEN "expired" ELSE @]
          <6>1. doc \in Auth!Session /\ doc.revoked = sessions[call[p].sid].revoked
            BY <4>1, SessionTyped DEF Auth!Session
          <6>2. sessions' = [sessions EXCEPT ![call[p].sid] = doc]
            BY <5>1 DEF Auth!RefreshSaveExpired
          <6>3. QED BY <6>1, <6>2
        <5>2. CASE Auth!RevokeSave(p)
          <6> DEFINE doc == [sessions[call[p].sid] EXCEPT
                               !.revoked = TRUE,
                               !.status = IF call[p].dirty THEN "revoked" ELSE @]
          <6>1. doc \in Auth!Session /\ doc.revoked
            BY <4>1, SessionTyped DEF Auth!Session
          <6>2. sessions' = [sessions EXCEPT ![call[p].sid] = doc]
            BY <5>2, <4>1, SessionTyped DEF Auth!RevokeSave, Auth!TypeOK, Auth!Session
          <6>3. QED BY <6>1, <6>2
        <5>3. QED BY <3>3, <5>1, <5>2
      <4>3. QED BY <4>1, <4>2, WriteSession
    <3>4. QED
      BY <1>1, <3>1, <3>2, <3>3
      DEF Auth!Next, Auth!Handler, Auth!Tick, Auth!Over, Auth!vars, Auth!Begin,
          Auth!RefreshAccessToken, Auth!RefreshFind, Auth!RefreshFindUser, Auth!RefreshSaveUsed,
          Auth!RevokeRefreshToken, Auth!RevokeFind, Auth!AuthenticateAccessToken,
          Auth!AuthenticateFind, Auth!Fail
  <2>2. QED
    BY <1>1, <2>1 DEF IInv, StatusInv
<1>2. QED
  BY Invariance, <1>1, PTL DEF Auth!Spec, Auth!RevocationIsPermanent

-----------------------------------------------------------------------------
(* The refinement: which step of the session store each handler step is.   *)

\* The abstract state of the sessions is a sequence as long as the collection.
LEMMA StatesTyped ==
    ASSUME Auth!TypeOK
    PROVE  /\ Auth!SessionStates \in Seq({"live", "lapsed", "revoked"})
           /\ DOMAIN Auth!SessionStates = DOMAIN sessions
           /\ Len(Auth!SessionStates) = Len(sessions)
           /\ \A s \in DOMAIN sessions : Auth!SessionStates[s] = Auth!SessionState(s)
<1>1. Len(sessions) \in Nat /\ DOMAIN sessions = 1..Len(sessions)
  BY DEF Auth!TypeOK
<1>2. \A s \in DOMAIN sessions : Auth!SessionState(s) \in {"live", "lapsed", "revoked"}
  BY DEF Auth!SessionState
<1>3. Auth!SessionStates \in [1..Len(sessions) -> {"live", "lapsed", "revoked"}]
  BY <1>1, <1>2 DEF Auth!SessionStates
<1>4. QED
  BY <1>1, <1>3 DEF Auth!SessionStates

\* A step that changes neither the documents nor the clock leaves the abstract
\* state of every session as it was.
LEMMA StatesKept ==
    ASSUME sessions' = sessions, clock' = clock
    PROVE  Auth!SessionStates' = Auth!SessionStates
  BY DEF Auth!SessionStates, Auth!SessionState

\* A login is Issue.
LEMMA IssueRefines ==
    ASSUME IInv, IInv', Auth!IssueTokenPair
    PROVE  Auth!Store!Issue
<1>0. PICK n \in Nat : n = Len(sessions)
  BY DEF IInv, Auth!TypeOK
<1>1. /\ n \in Nat
      /\ DOMAIN sessions = 1..n
      /\ Len(sessions') = n + 1
      /\ DOMAIN sessions' = 1..(n + 1)
      /\ \A s \in 1..n : sessions'[s] = sessions[s]
      /\ sessions'[n + 1] = [status |-> "active", revoked |-> FALSE,
                             expiresAt |-> clock + RefreshTTL]
      /\ clock' = clock /\ clock \in Nat
  BY <1>0 DEF IInv, Auth!IssueTokenPair, Auth!TypeOK, Auth!Session
<1>2. /\ Auth!SessionStates \in Seq({"live", "lapsed", "revoked"})
      /\ Len(Auth!SessionStates) = n
      /\ \A s \in 1..n : Auth!SessionStates[s] = Auth!SessionState(s)
  BY StatesTyped, <1>0, <1>1 DEF IInv
<1>3. /\ Auth!SessionStates' \in Seq({"live", "lapsed", "revoked"})
      /\ Len(Auth!SessionStates') = n + 1
      /\ \A s \in 1..(n + 1) : Auth!SessionStates'[s] = Auth!SessionState(s)'
  <2>1. Auth!TypeOK' BY DEF IInv
  <2>2. ASSUME Auth!TypeOK'
        PROVE  /\ Auth!SessionStates' \in Seq({"live", "lapsed", "revoked"})
               /\ Len(Auth!SessionStates') = Len(sessions')
               /\ \A s \in DOMAIN sessions' : Auth!SessionStates'[s] = Auth!SessionState(s)'
    <3>1. \A s \in DOMAIN sessions' : Auth!SessionState(s)' \in {"live", "lapsed", "revoked"}
      BY DEF Auth!SessionState
    <3>2. Auth!SessionStates' \in [1..Len(sessions') -> {"live", "lapsed", "revoked"}]
      BY <1>1, <3>1 DEF Auth!SessionStates
    <3>3. QED BY <1>1, <3>2 DEF Auth!SessionStates
  <2>3. QED BY <1>1, <2>1, <2>2
<1>4. \A s \in 1..n : Auth!SessionState(s)' = Auth!SessionState(s)
  BY <1>1 DEF Auth!SessionState
<1>5. Auth!SessionState(n + 1)' = "live"
  BY <1>1, TTLAssumption DEF Auth!SessionState
<1>6. Auth!SessionStates' = Append(Auth!SessionStates, "live")
  <2> DEFINE A == Auth!SessionStates
             B == Append(A, "live")
             C == Auth!SessionStates'
  <2>1. /\ B \in Seq({"live", "lapsed", "revoked"}) /\ Len(B) = n + 1
        /\ \A s \in 1..n : B[s] = A[s]
        /\ B[n + 1] = "live"
    BY <1>1, <1>2
  <2>2. C \in Seq({"live", "lapsed", "revoked"}) /\ Len(C) = n + 1
        /\ \A s \in 1..(n + 1) : C[s] = B[s]
    BY <1>1, <1>2, <1>3, <1>4, <1>5, <2>1
  <2> HIDE DEF B, C
  <2>3. B = C
    BY <1>1, <2>1, <2>2
  <2>4. QED BY <2>3 DEF B, C
<1>7. Auth!GrantedSessions' = Auth!GrantedSessions
  BY DEF Auth!IssueTokenPair, Auth!GrantedSessions
<1>8. QED BY <1>6, <1>7 DEF Auth!Store!Issue

\* A tick of the clock is Lapse.
LEMMA TickRefines ==
    ASSUME IInv, Auth!Tick
    PROVE  Auth!Store!Lapse
<1> DEFINE S == {s \in DOMAIN sessions : /\ Auth!SessionState(s) = "live"
                                         /\ Auth!SessionState(s)' = "lapsed"}
<1>0. /\ sessions' = sessions /\ clock' = clock + 1 /\ clock \in Nat
      /\ \A s \in DOMAIN sessions : sessions[s].expiresAt \in Nat
  BY SessionTyped DEF Auth!Tick, IInv, Auth!TypeOK
<1>1. /\ DOMAIN Auth!SessionStates = DOMAIN sessions
      /\ \A s \in DOMAIN sessions : Auth!SessionStates[s] = Auth!SessionState(s)
  BY StatesTyped DEF IInv
<1>2. S \in SUBSET {s \in DOMAIN Auth!SessionStates : Auth!Store!Live(s)}
  BY <1>1 DEF Auth!Store!Live
<1>3. \A s \in DOMAIN sessions :
        Auth!SessionState(s)' = IF s \in S THEN "lapsed" ELSE Auth!SessionState(s)
  BY <1>0 DEF Auth!SessionState
<1>4. Auth!SessionStates' = [s \in DOMAIN Auth!SessionStates |->
                                IF s \in S THEN "lapsed" ELSE Auth!SessionStates[s]]
  BY <1>0, <1>1, <1>3 DEF Auth!SessionStates
<1>5. Auth!GrantedSessions' = Auth!GrantedSessions
  BY DEF Auth!Tick, Auth!GrantedSessions
<1>6. QED BY <1>2, <1>4, <1>5 DEF Auth!Store!Lapse

\* The save at the end of a logout is Revoke.
LEMMA RevokeRefines ==
    ASSUME IInv, NEW p \in Procs, Auth!RevokeSave(p)
    PROVE  Auth!Store!Revoke(call[p].sid)
<1> DEFINE r == call[p].sid
<1>1. r \in DOMAIN sessions
  BY DEF IInv, Auth!RevokeSave, CallInv
<1>2. /\ DOMAIN sessions' = DOMAIN sessions
      /\ clock' = clock
      /\ sessions'[r].revoked
      /\ \A s \in DOMAIN sessions : s # r => sessions'[s] = sessions[s]
  <2> DEFINE doc == [sessions[r] EXCEPT !.revoked = TRUE,
                                        !.status = IF call[p].dirty THEN "revoked" ELSE @]
  <2>1. doc \in Auth!Session /\ doc.revoked
    BY <1>1, SessionTyped DEF IInv, Auth!Session
  <2>2. sessions' = [sessions EXCEPT ![r] = doc]
    BY <1>1, SessionTyped DEF IInv, Auth!RevokeSave, Auth!TypeOK, Auth!Session
  <2> HIDE DEF doc
  <2>3. QED BY <1>1, <2>1, <2>2, WriteSession DEF IInv, Auth!RevokeSave
<1>3. /\ DOMAIN Auth!SessionStates = DOMAIN sessions
      /\ \A s \in DOMAIN sessions : Auth!SessionStates[s] = Auth!SessionState(s)
  BY StatesTyped DEF IInv
<1>4. \A s \in DOMAIN sessions :
        Auth!SessionState(s)' = IF s = r THEN "revoked" ELSE Auth!SessionState(s)
  BY <1>2 DEF Auth!SessionState
<1>5. Auth!SessionStates' = [Auth!SessionStates EXCEPT ![r] = "revoked"]
  BY <1>1, <1>2, <1>3, <1>4 DEF Auth!SessionStates
<1>6. Auth!GrantedSessions' = Auth!GrantedSessions
  BY DEF Auth!RevokeSave, Auth!GrantedSessions
<1>7. QED BY <1>1, <1>3, <1>5, <1>6 DEF Auth!Store!Revoke

\* Marking an expired session expired changes nothing abstractly.
LEMMA ExpireRefines ==
    ASSUME IInv, NEW p \in Procs, Auth!RefreshSaveExpired(p)
    PROVE  UNCHANGED Auth!Store!storeVars
<1> DEFINE r == call[p].sid
<1>1. r \in DOMAIN sessions
  BY DEF IInv, Auth!RefreshSaveExpired, CallInv
<1> DEFINE doc == [sessions[r] EXCEPT !.status = IF call[p].dirty THEN "expired" ELSE @]
<1>2. /\ doc \in Auth!Session
      /\ doc.revoked = sessions[r].revoked
      /\ doc.expiresAt = sessions[r].expiresAt
  BY <1>1, SessionTyped DEF IInv, Auth!Session
<1>3. sessions' = [sessions EXCEPT ![r] = doc]
  BY DEF Auth!RefreshSaveExpired
<1> HIDE DEF doc
<1>4. /\ DOMAIN sessions' = DOMAIN sessions
      /\ clock' = clock
      /\ \A s \in DOMAIN sessions : /\ sessions'[s].revoked = sessions[s].revoked
                                   /\ sessions'[s].expiresAt = sessions[s].expiresAt
  BY <1>1, <1>2, <1>3, WriteSession DEF IInv, Auth!RefreshSaveExpired
<1>5. Auth!SessionStates' = Auth!SessionStates
  BY <1>4 DEF Auth!SessionStates, Auth!SessionState
<1>6. Auth!GrantedSessions' = Auth!GrantedSessions
  BY DEF Auth!RefreshSaveExpired, Auth!GrantedSessions
<1>7. QED BY <1>5, <1>6 DEF Auth!Store!storeVars

\* A request that authenticateAccessToken admits is Grant; one it refuses is a
\* stutter.
LEMMA GrantRefines ==
    ASSUME IInv, NEW p \in Procs, Auth!AuthenticateFind(p)
    PROVE  Auth!Store!Grant(call[p].sid) \/ UNCHANGED Auth!Store!storeVars
<1> DEFINE r == call[p].sid
<1>1. r \in DOMAIN sessions
  BY DEF IInv, Auth!AuthenticateFind, CallInv
<1>2. Auth!SessionStates' = Auth!SessionStates
  BY StatesKept DEF Auth!AuthenticateFind
<1>3. CASE Auth!SessionLive(r)
  <2>1. Auth!SessionState(r) = "live"
    <3>1. clock \in Nat /\ sessions[r].expiresAt \in Nat
      BY <1>1, SessionTyped DEF IInv, Auth!TypeOK
    <3>2. QED BY <1>3, <3>1 DEF Auth!SessionLive, Auth!SessionState
  <2>2. DOMAIN Auth!SessionStates = DOMAIN sessions /\ Auth!SessionStates[r] = Auth!SessionState(r)
    BY <1>1, StatesTyped DEF IInv
  <2>3. admitted' = admitted \cup {[sid |-> r, late |-> call[p].late]}
    BY <1>3 DEF Auth!AuthenticateFind
  <2>4. Auth!GrantedSessions' = Auth!GrantedSessions \cup {r}
    <3> DEFINE b == [sid |-> r, late |-> call[p].late]
    <3>1. b.sid = r
      OBVIOUS
    <3>2. Auth!GrantedSessions' = {a.sid : a \in admitted \cup {b}}
      BY <2>3 DEF Auth!GrantedSessions
    <3> HIDE DEF b
    <3>3. QED BY <3>1, <3>2 DEF Auth!GrantedSessions
  <2>5. QED BY <1>1, <1>2, <2>1, <2>2, <2>4 DEF Auth!Store!Grant, Auth!Store!Live
<1>4. CASE ~Auth!SessionLive(r)
  <2>1. Auth!GrantedSessions' = Auth!GrantedSessions
    BY <1>4 DEF Auth!AuthenticateFind, Auth!GrantedSessions
  <2>2. QED BY <1>2, <2>1 DEF Auth!Store!storeVars
<1>5. QED BY <1>3, <1>4

\* Every step of the handlers is a step of the session store or leaves it alone.
LEMMA StepRefines ==
    ASSUME IInv, IInv', [Auth!Next]_(Auth!vars)
    PROVE  [Auth!Store!StoreNext]_(Auth!Store!storeVars)
<1>1. CASE Auth!IssueTokenPair
  BY <1>1, IssueRefines DEF Auth!Store!StoreNext
<1>2. CASE Auth!Tick
  BY <1>2, TickRefines DEF Auth!Store!StoreNext
<1>3. CASE UNCHANGED <<sessions, clock, admitted>>
  BY <1>3, StatesKept DEF Auth!Store!storeVars, Auth!GrantedSessions
<1>4. ASSUME NEW p \in Procs, Auth!RevokeSave(p)
      PROVE  Auth!Store!StoreNext
  <2>1. call[p].sid \in DOMAIN Auth!SessionStates
    BY <1>4, StatesTyped DEF IInv, Auth!RevokeSave, CallInv
  <2>2. QED BY <1>4, <2>1, RevokeRefines DEF Auth!Store!StoreNext
<1>5. ASSUME NEW p \in Procs, Auth!AuthenticateFind(p)
      PROVE  [Auth!Store!StoreNext]_(Auth!Store!storeVars)
  <2>1. call[p].sid \in DOMAIN Auth!SessionStates
    BY <1>5, StatesTyped DEF IInv, Auth!AuthenticateFind, CallInv
  <2>2. QED BY <1>5, <2>1, GrantRefines DEF Auth!Store!StoreNext
<1>6. ASSUME NEW p \in Procs, Auth!RefreshSaveExpired(p)
      PROVE  UNCHANGED Auth!Store!storeVars
  BY <1>6, ExpireRefines
<1>7. QED
  BY <1>1, <1>2, <1>3, <1>4, <1>5, <1>6
  DEF Auth!Next, Auth!Handler, Auth!Over, Auth!vars, Auth!Begin, Auth!RefreshAccessToken,
      Auth!RefreshFind, Auth!RefreshFindUser, Auth!RefreshSaveUsed, Auth!RevokeRefreshToken,
      Auth!RevokeFind, Auth!AuthenticateAccessToken, Auth!Fail

\* The interleaved handlers of login, refresh, logout and authentication
\* implement the session store.
THEOREM SessionsImplementStore == Auth!Spec => ImplementsSessionStore
<1>1. Auth!Init => Auth!Store!StoreInit
  BY DEF Auth!Init, Auth!Store!StoreInit, Auth!SessionStates, Auth!GrantedSessions
<1>2. IInv /\ IInv' /\ [Auth!Next]_(Auth!vars) => [Auth!Store!StoreNext]_(Auth!Store!storeVars)
  BY StepRefines
<1>3. QED
  BY <1>1, <1>2, Invariance, PTL DEF Auth!Spec, ImplementsSessionStore,
                                     Auth!ImplementsSessionStore, Auth!Store!StoreSpec
=============================================================================
