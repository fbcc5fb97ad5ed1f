---------------------------- MODULE WebAuthProofs ----------------------------
(* Accounts stay unique and attempts accounted for, and the browser stays    *)
(* signed in or out, for any number of clients, addresses, requests and      *)
(* handlers in flight.                                                       *)
EXTENDS WebAuth, FiniteSetTheorems, SequenceTheorems, TLAPS

\* A user document with fields from these sets.
Doc(E, N, G, D) == [email : E, username : N, googleId : G, digest : D]

\* OneAccountPerAddress, of a given collection.
Distinct(us) ==
    \A u, v \in DOMAIN us : u # v =>
        /\ us[u].email # us[v].email
        /\ us[u].username # us[v].username
        /\ us[u].googleId # None => us[u].googleId # us[v].googleId

\* Neither document repeats an indexed field of the other.
Apart(d, e) ==
    /\ d.email # e.email
    /\ d.username # e.username
    /\ d.googleId # None => d.googleId # e.googleId
    /\ e.googleId # None => d.googleId # e.googleId

\* The collection holds documents; which values they hold does not matter.
Documents == \E E, N, G, D : users \in Seq(Doc(E, N, G, D))

Unique == Documents /\ Distinct(users)

-----------------------------------------------------------------------------
\* Sequences over a set are sequences over a larger one.
LEMMA SeqGrows ==
    ASSUME NEW S, NEW T, S \subseteq T, NEW s \in Seq(S)
    PROVE s \in Seq(T)
OBVIOUS

\* An insert that the unique indexes accept.
LEMMA InsertDistinct ==
    ASSUME NEW E, NEW N, NEW G, NEW D, NEW us \in Seq(Doc(E, N, G, D)),
           NEW d \in Doc(E, N, G, D),
           Distinct(us), \A u \in DOMAIN us : Apart(us[u], d)
    PROVE /\ Append(us, d) \in Seq(Doc(E, N, G, D))
          /\ Distinct(Append(us, d))
<1> DEFINE new == Append(us, d)
<1>1. /\ new \in Seq(Doc(E, N, G, D))
      /\ DOMAIN new = DOMAIN us \cup {Len(us) + 1}
      /\ new[Len(us) + 1] = d
      /\ \A u \in DOMAIN us : new[u] = us[u] /\ u # Len(us) + 1
    OBVIOUS
<1>2. ASSUME NEW u \in DOMAIN new, NEW v \in DOMAIN new, u # v
      PROVE /\ new[u].email # new[v].email
            /\ new[u].username # new[v].username
            /\ new[u].googleId # None => new[u].googleId # new[v].googleId
    <2> HIDE DEF new
    <2>1. CASE u \in DOMAIN us /\ v \in DOMAIN us
        BY <1>1, <1>2, <2>1 DEF Distinct
    <2>2. CASE u \in DOMAIN us /\ v = Len(us) + 1
        BY <1>1, <2>2 DEF Apart
    <2>3. CASE u = Len(us) + 1 /\ v \in DOMAIN us
        BY <1>1, <2>3 DEF Apart
    <2>4. QED BY <1>1, <1>2, <2>1, <2>2, <2>3
<1>3. QED BY <1>1, <1>2 DEF Distinct

\* A save that the unique indexes accept.
LEMMA SaveDistinct ==
    ASSUME NEW E, NEW N, NEW G, NEW D, NEW us \in Seq(Doc(E, N, G, D)),
           NEW u \in DOMAIN us, NEW d \in Doc(E, N, G, D),
           Distinct(us), \A v \in DOMAIN us \ {u} : Apart(us[v], d)
    PROVE /\ [us EXCEPT ![u] = d] \in Seq(Doc(E, N, G, D))
          /\ Distinct([us EXCEPT ![u] = d])
<1> DEFINE new == [us EXCEPT ![u] = d]
<1>1. /\ new \in Seq(Doc(E, N, G, D))
      /\ DOMAIN new = DOMAIN us
      /\ new[u] = d
      /\ \A v \in DOMAIN us \ {u} : new[v] = us[v]
    OBVIOUS
<1>2. ASSUME NEW v \in DOMAIN new, NEW w \in DOMAIN new, v # w
      PROVE /\ new[v].email # new[w].email
            /\ new[v].username # new[w].username
            /\ new[v].googleId # None => new[v].googleId # new[w].googleId
    <2> HIDE DEF new
    <2>1. CASE v # u /\ w # u
        BY <1>1, <1>2, <2>1 DEF Distinct
    <2>2. CASE v = u \/ w = u
        BY <1>1, <1>2, <2>2 DEF Apart
    <2>3. QED BY <2>1, <2>2
<1>3. QED BY <1>1, <1>2 DEF Distinct

-----------------------------------------------------------------------------
\* The collections to start from are unique.
LEMMA InitUnique == Init => Unique
<1> SUFFICES ASSUME Init PROVE Unique
    OBVIOUS
<1>1. users \in Seeds
    BY DEF Init, AccountsInit
<1>2. users \in Seq(Doc(Emails, Names \X Nat, {g[1] : g \in Profiles} \cup {None},
                        {Digest[w] : w \in Passwords} \cup {None}))
    BY <1>1, SeedsAssumption DEF Doc, User, Username, GoogleIds
<1>3. Documents
    BY <1>2 DEF Documents
<1>4. Distinct(users)
    BY <1>1, SeedsAssumption DEF Distinct
<1>5. QED BY <1>3, <1>4 DEF Unique

\* Steps that leave the collection alone.
LEMMA UsersUntouched ==
    ASSUME Unique, UNCHANGED users
    PROVE Unique'
BY DEF Unique, Documents, Distinct

\* userModel.create, in registerLocalAccount and in upsertGoogleUser.
LEMMA CreateKeepsUnique ==
    ASSUME NEW c, Unique, CreateUser(c)
    PROVE Unique'
<1>1. PICK E, N, G, D : users \in Seq(Doc(E, N, G, D))
    BY DEF Unique, Documents
<1> DEFINE d == NewUser(c)
           S == Doc(E \cup {job[c].email}, N \cup {job[c].username},
                    G \cup {job[c].googleId}, D \cup {job[c].digest})
<1>2. d \in S
    BY DEF NewUser, Doc
<1>3. users \in Seq(S)
    <2>1. Doc(E, N, G, D) \subseteq S
        BY DEF Doc
    <2>2. QED BY <1>1, <2>1, SeqGrows
<1>4. \A u \in DOMAIN users : Apart(users[u], d)
    <2>1. ~Conflict(d, {})
        BY DEF CreateUser
    <2> HIDE DEF d
    <2>2. QED BY <2>1 DEF Conflict, Apart
<1>5. users' = Append(users, d)
    BY DEF CreateUser
<1>6. users' \in Seq(S) /\ Distinct(users')
    <2> HIDE DEF d
    <2>1. Distinct(users)
        BY DEF Unique
    <2>2. QED BY <1>2, <1>3, <1>4, <1>5, <2>1, InsertDistinct
<1>7. QED BY <1>6 DEF Unique, Documents

\* existingUser.save() in upsertGoogleUser.
LEMMA LinkKeepsUnique ==
    ASSUME NEW c, Unique, LinkGoogle(c)
    PROVE Unique'
<1>1. PICK E, N, G, D : users \in Seq(Doc(E, N, G, D))
    BY DEF Unique, Documents
<1>2. PICK u \in UserWith(job[c].email) :
          /\ ~Conflict([users[u] EXCEPT !.googleId = job[c].googleId], {u})
          /\ users' = [users EXCEPT ![u] = [users[u] EXCEPT !.googleId = job[c].googleId]]
    BY DEF LinkGoogle
<1> DEFINE d == [users[u] EXCEPT !.googleId = job[c].googleId]
           S == Doc(E, N, G \cup {job[c].googleId}, D)
<1>3. u \in DOMAIN users /\ users[u] \in Doc(E, N, G, D)
    BY <1>1, <1>2 DEF UserWith
<1>4. d \in S
    BY <1>3 DEF Doc
<1>5. users \in Seq(S)
    <2>1. Doc(E, N, G, D) \subseteq S
        BY DEF Doc
    <2>2. QED BY <1>1, <2>1, SeqGrows
<1> HIDE DEF d
<1>6. \A v \in DOMAIN users \ {u} : Apart(users[v], d)
    BY <1>2 DEF d, Conflict, Apart
<1>7. users' = [users EXCEPT ![u] = d]
    BY <1>2 DEF d
<1>8. Distinct(users)
    BY DEF Unique
<1>9. users' \in Seq(S) /\ Distinct(users')
    BY <1>3, <1>4, <1>5, <1>6, <1>7, <1>8, SaveDistinct
<1>10. QED BY <1>9 DEF Unique, Documents

\* A step of a handler.
LEMMA HandlerKeepsUnique ==
    ASSUME NEW c, Unique, AccountsStep(c)
    PROVE Unique'
<1>1. CASE CreateUser(c)
    BY <1>1, CreateKeepsUnique
<1>2. CASE LinkGoogle(c)
    BY <1>2, LinkKeepsUnique
<1>3. CASE CheckEmail(c) \/ CheckName(c) \/ FindUser(c) \/ HashPassword(c) \/ ComparePassword(c)
    BY <1>3, UsersUntouched DEF CheckEmail, CheckName, FindUser, HashPassword, ComparePassword
<1>4. CASE FindGoogleUser(c) \/ TryUsername(c)
    BY <1>4, UsersUntouched DEF FindGoogleUser, TryUsername
<1>5. CASE DuplicateKey(c) \/ DatabaseError(c)
    BY <1>5, UsersUntouched DEF DuplicateKey, DatabaseError, Abort
<1>6. CASE IssueTokenPair(c) \/ Succeed(c) \/ Reject(c)
    BY <1>6, UsersUntouched DEF IssueTokenPair, Succeed, Reject
<1>7. QED BY <1>1, <1>2, <1>3, <1>4, <1>5, <1>6 DEF AccountsStep

\* No step of a browser, of another client or of time makes two accounts alike.
LEMMA NextUnique == Unique /\ [Next]_vars => Unique'
<1> SUFFICES ASSUME Unique, [Next]_vars PROVE Unique'
    OBVIOUS
<1> USE UsersUntouched
<1>1. ASSUME NEW k \in Refreshes, RefreshServe(k) \/ RefreshAnswer(k) PROVE Unique'
    BY <1>1 DEF RefreshServe, RefreshAnswer, serverVars, accountVars
<1>2. ASSUME NEW r \in AllReqs, RequestSend(r) \/ RequestServe(r) \/ RequestAnswer(r) PROVE Unique'
    BY <1>2 DEF RequestSend, RequestServe, RequestAnswer, serverVars, accountVars
<1>3. CASE NetError
    BY <1>3 DEF NetError, serverVars, accountVars
<1>4. CASE LogoutSend \/ LogoutServe \/ LogoutAnswer \/ LogoutLost
    BY <1>4 DEF LogoutSend, LogoutServe, LogoutAnswer, LogoutLost, serverVars, accountVars
<1>5. CASE Reload
    BY <1>5 DEF Reload, serverVars, accountVars
<1>6. CASE SignIn \/ SignInGoogle
    BY <1>6 DEF SignIn, SignInGoogle, LoginLocalAccount, RegisterLocalAccount, GoogleCallback
<1>7. CASE SignInAnswer \/ GoogleRedirect
    BY <1>7 DEF SignInAnswer, GoogleRedirect
<1>8. ASSUME NEW c \in Clients, OtherClient(c) PROVE Unique'
    BY <1>8 DEF OtherClient, RegisterLocalAccount, GoogleCallback
<1>9. ASSUME NEW c \in Clients, AccountsStep(c) PROVE Unique'
    BY <1>9, HandlerKeepsUnique
<1>10. CASE TokensExpire \/ SessionsLapse
    BY <1>10 DEF TokensExpire, SessionsLapse, serverVars, accountVars
<1>11. CASE UNCHANGED vars
    BY <1>11 DEF vars, accountVars
<1>12. QED
    BY <1>1, <1>2, <1>3, <1>4, <1>5, <1>6, <1>7, <1>8, <1>9, <1>10, <1>11 DEF Next

\* However sign-ups and Google sign-ins interleave between their checks and their
\* writes, no two accounts share an e-mail, a username or a Google id.
THEOREM AccountsStayUnique == Spec => []OneAccountPerAddress
<1>1. Unique => OneAccountPerAddress
    BY DEF Unique, Distinct, OneAccountPerAddress
<1>2. QED BY InitUnique, NextUnique, <1>1, PTL DEF Spec

-----------------------------------------------------------------------------
(* The handlers, and the attempts that they record.                        *)

JobPcs == {"idle", "email", "name", "hash", "user", "compare", "suffix", "save", "create", "issue",
           "succeed", "reject", "reply"}

JobOK(j) ==
    /\ DOMAIN j = {"op", "pc", "email", "username", "googleId", "digest", "sid"}
    /\ j.op \in Providers \cup {None} /\ j.pc \in JobPcs
    /\ j.pc = "idle" <=> j.op = None
    /\ j.sid \in 0 .. Len(state)

InFlight(op) == {c \in Clients : job[c].op = op /\ job[c].pc # "reply"}

JobsInv ==
    /\ state \in Seq({"live", "lapsed", "revoked"})
    /\ DOMAIN job = Clients /\ \A c \in Clients : JobOK(job[c])
    /\ attempts \in [Providers \X Results -> Nat]
    /\ aborted \in [Providers -> Nat]

Accounted(op) ==
    attempts[<<op, "started">>] =
        attempts[<<op, "succeeded">>] + attempts[<<op, "failed">>] + aborted[op] + Cardinality(InFlight(op))

\* What a step of the handler of c does to its job: it goes on, or ends with a record of
\* its outcome, or dies.
LEMMA HandlerMoves ==
    ASSUME JobsInv, NEW c \in Clients, AccountsStep(c)
    PROVE  /\ \A d \in Clients \ {c} : job'[d] = job[d]
           /\ DOMAIN job' = Clients
           /\ job[c].pc \notin {"idle", "reply"} /\ job'[c].pc # "idle" /\ job'[c].op = job[c].op
           /\ DOMAIN job'[c] = DOMAIN job[c] /\ job'[c].pc \in JobPcs
           /\ job'[c].sid \in {0, job[c].sid} \/ (Issue /\ job'[c].sid = Len(state'))
           /\ UNCHANGED storeVars \/ Issue
           /\ \/ job'[c].pc # "reply" /\ UNCHANGED <<attempts, aborted>>
              \/ /\ job'[c].pc = "reply" /\ UNCHANGED aborted
                 /\ RecordAttempt(job[c].op, "succeeded") \/ RecordAttempt(job[c].op, "failed")
              \/ /\ job'[c].pc = "reply" /\ UNCHANGED attempts
                 /\ aborted' = [aborted EXCEPT ![job[c].op] = @ + 1]
<1>0. DOMAIN job = Clients /\ JobOK(job[c])
  BY DEF JobsInv
<1> USE <1>0 DEF JobOK, Only, Goto, JobPcs
<1>1. CASE CheckEmail(c)
  BY <1>1 DEF CheckEmail
<1>2. CASE CheckName(c)
  BY <1>2 DEF CheckName
<1>3. CASE FindUser(c)
  BY <1>3 DEF FindUser
<1>4. CASE HashPassword(c)
  BY <1>4 DEF HashPassword
<1>5. CASE ComparePassword(c)
  BY <1>5 DEF ComparePassword
<1>6. CASE FindGoogleUser(c)
  BY <1>6 DEF FindGoogleUser
<1>7. CASE TryUsername(c)
  BY <1>7 DEF TryUsername
<1>8. CASE LinkGoogle(c)
  BY <1>8 DEF LinkGoogle
<1>9. CASE CreateUser(c)
  BY <1>9 DEF CreateUser
<1>10. CASE DuplicateKey(c)
  BY <1>10 DEF DuplicateKey, Abort
<1>11. CASE IssueTokenPair(c)
  BY <1>11 DEF IssueTokenPair
<1>12. CASE Succeed(c)
  BY <1>12 DEF Succeed
<1>13. CASE Reject(c)
  BY <1>13 DEF Reject
<1>14. CASE DatabaseError(c)
  BY <1>14 DEF DatabaseError, Abort
<1> QED BY <1>1, <1>2, <1>3, <1>4, <1>5, <1>6, <1>7, <1>8, <1>9, <1>10, <1>11, <1>12, <1>13, <1>14 DEF AccountsStep

\* What the start of a handler for c does to its job.
Starts(c, op) ==
    /\ job[c] = NoJob /\ job'[c].op = op /\ job'[c].pc \in {"email", "user"} /\ job'[c].sid = 0
    /\ DOMAIN job'[c] = DOMAIN NoJob
    /\ \A d \in Clients \ {c} : job'[d] = job[d]
    /\ DOMAIN job' = Clients
    /\ UNCHANGED <<aborted, storeVars>>

\* The handlers of the three ways to sign in start with a record, Google's without one.
LEMMA HandlerStarts ==
    ASSUME JobsInv, NEW c \in Clients
    PROVE  /\ \A e, n, w : RegisterLocalAccount(c, e, n, w) =>
                Starts(c, "register") /\ RecordAttempt("register", "started")
           /\ \A e, w : LoginLocalAccount(c, e, w) =>
                Starts(c, "login") /\ RecordAttempt("login", "started")
           /\ \A g : GoogleCallback(c, g) => Starts(c, "google") /\ UNCHANGED attempts
<1> USE DEF JobsInv, Starts, Start, Free, NoJob
<1>1. ASSUME NEW e, NEW n, NEW w, RegisterLocalAccount(c, e, n, w)
      PROVE  Starts(c, "register") /\ RecordAttempt("register", "started")
  BY <1>1 DEF RegisterLocalAccount
<1>2. ASSUME NEW e, NEW w, LoginLocalAccount(c, e, w)
      PROVE  Starts(c, "login") /\ RecordAttempt("login", "started")
  BY <1>2 DEF LoginLocalAccount
<1>3. ASSUME NEW g, GoogleCallback(c, g) PROVE Starts(c, "google") /\ UNCHANGED attempts
  BY <1>3 DEF GoogleCallback
<1> QED BY <1>1, <1>2, <1>3

\* The steps of the sessions: every live one may lapse, one may be revoked.
LEMMA StoreMoves ==
    ASSUME JobsInv, UNCHANGED state \/ Lapse \/ \E s : Revoke(s)
    PROVE  state' \in Seq({"live", "lapsed", "revoked"}) /\ Len(state') = Len(state)
<1> USE DEF JobsInv
<1>1. CASE UNCHANGED state
  BY <1>1
<1>2. CASE Lapse
  <2>1. PICK S \in SUBSET DOMAIN state :
            state' = [s \in DOMAIN state |-> IF s \in S THEN "lapsed" ELSE state[s]]
    BY <1>2 DEF Lapse
  <2>2. DOMAIN state = 1 .. Len(state) /\ Len(state) \in Nat
    OBVIOUS
  <2>3. \A s \in 1 .. Len(state) : state[s] \in {"live", "lapsed", "revoked"}
    OBVIOUS
  <2>4. state' \in [1 .. Len(state) -> {"live", "lapsed", "revoked"}]
    BY <2>1, <2>2, <2>3
  <2>5. state' \in Seq({"live", "lapsed", "revoked"})
    BY <2>2, <2>4, SeqDef, SMTT(30)
  <2>6. DOMAIN state' = 1 .. Len(state') /\ Len(state') \in Nat
    BY <2>5, LenProperties
  <2>7. DOMAIN state' = 1 .. Len(state)
    BY <2>4
  <2>8. \A m, n \in Nat : 1 .. m = 1 .. n => m <= n
    <3> TAKE m, n \in Nat
    <3>1. CASE m = 0
      BY <3>1
    <3>2. CASE m # 0
      <4>1. m \in 1 .. m
        BY <3>2
      <4> QED BY <4>1
    <3> QED BY <3>1, <3>2
  <2>9. Len(state') <= Len(state) /\ Len(state) <= Len(state')
    BY <2>2, <2>6, <2>7, <2>8
  <2>10. \A m, n \in Nat : m <= n /\ n <= m => m = n
    OBVIOUS
  <2>11. Len(state') = Len(state)
    <3> HIDE DEF JobsInv
    <3> QED BY ONLY <2>2, <2>6, <2>9, <2>10
  <2> QED BY <2>5, <2>11
<1>3. ASSUME NEW s, Revoke(s)
      PROVE  state' \in Seq({"live", "lapsed", "revoked"}) /\ Len(state') = Len(state)
  BY <1>3 DEF Revoke
<1> QED BY <1>1, <1>2, <1>3

\* The answer to c takes its job away.
Answered(c) ==
    /\ job[c].pc = "reply" /\ job' = [job EXCEPT ![c] = NoJob]
    /\ UNCHANGED <<attempts, aborted, storeVars>>

\* What a step may do to the handlers.
LEMMA StepsOfJobs ==
    ASSUME JobsInv, [Next]_vars
    PROVE  \/ UNCHANGED <<job, attempts, aborted>> /\ (UNCHANGED state \/ Lapse \/ \E s : Revoke(s))
           \/ \E c \in Clients : AccountsStep(c)
           \/ \E c \in Clients : Answered(c)
           \/ \E c \in Clients : Starts(c, "register") /\ RecordAttempt("register", "started")
           \/ \E c \in Clients : Starts(c, "login") /\ RecordAttempt("login", "started")
           \/ \E c \in Clients : Starts(c, "google") /\ UNCHANGED attempts
<1> USE DEF serverVars, accountVars, storeVars
<1>1. CASE UNCHANGED vars
  BY <1>1 DEF vars
<1>2. ASSUME NEW k \in Refreshes, RefreshServe(k) \/ RefreshAnswer(k)
      PROVE  UNCHANGED <<job, attempts, aborted, state>>
  BY <1>2 DEF RefreshServe, RefreshAnswer
<1>3. ASSUME NEW r \in AllReqs, RequestSend(r) \/ RequestServe(r) \/ RequestAnswer(r)
      PROVE  UNCHANGED <<job, attempts, aborted, state>>
  BY <1>3 DEF RequestSend, RequestServe, RequestAnswer, Grant
<1>4. CASE NetError \/ LogoutSend \/ LogoutAnswer \/ LogoutLost \/ Reload \/ TokensExpire
  BY <1>4 DEF NetError, LogoutSend, LogoutAnswer, LogoutLost, Reload, TokensExpire
<1>5. CASE LogoutServe \/ SessionsLapse
  BY <1>5 DEF LogoutServe, SessionsLapse
<1>6. CASE SignIn
  BY <1>6, HandlerStarts, BrowserAssumption DEF SignIn
<1>7. CASE SignInGoogle
  BY <1>7, HandlerStarts, BrowserAssumption DEF SignInGoogle
<1>8. CASE SignInAnswer \/ GoogleRedirect
  BY <1>8, BrowserAssumption DEF SignInAnswer, GoogleRedirect, Answered
<1>9. ASSUME NEW c \in Clients, OtherClient(c)
      PROVE  \/ Starts(c, "register") /\ RecordAttempt("register", "started")
             \/ Starts(c, "google") /\ UNCHANGED attempts
             \/ Answered(c)
  BY <1>9, HandlerStarts DEF OtherClient, Answered
<1> QED BY <1>1, <1>2, <1>3, <1>4, <1>5, <1>6, <1>7, <1>8, <1>9 DEF Next

\* A record adds one to its own count and leaves the others.
LEMMA Recorded ==
    ASSUME JobsInv, NEW op \in Providers, NEW result \in Results, RecordAttempt(op, result)
    PROVE  /\ attempts' \in [Providers \X Results -> Nat]
           /\ \A o \in Providers, q \in Results :
                 attempts'[<<o, q>>] = attempts[<<o, q>>] + (IF o = op /\ q = result THEN 1 ELSE 0)
<1>1. <<op, result>> \in Providers \X Results
  OBVIOUS
<1>2. attempts[<<op, result>>] \in Nat
  BY <1>1 DEF JobsInv
<1>3. attempts' \in [Providers \X Results -> Nat]
  BY <1>2 DEF JobsInv, RecordAttempt
<1>4. ASSUME NEW o \in Providers, NEW q \in Results
      PROVE  attempts'[<<o, q>>] = attempts[<<o, q>>] + (IF o = op /\ q = result THEN 1 ELSE 0)
  <2>1. <<o, q>> \in Providers \X Results /\ attempts[<<o, q>>] \in Nat
    BY DEF JobsInv
  <2>2. CASE o = op /\ q = result
    BY <1>1, <1>2, <2>2 DEF JobsInv, RecordAttempt
  <2>3. CASE ~(o = op /\ q = result)
    <3>1. <<o, q>> # <<op, result>>
      BY <2>3
    <3> QED BY <2>1, <2>3, <3>1 DEF JobsInv, RecordAttempt
  <2> QED BY <2>2, <2>3
<1> QED BY <1>3, <1>4

\* The handlers stay well typed.
LEMMA JobsStep == JobsInv /\ [Next]_vars => JobsInv'
<1> SUFFICES ASSUME JobsInv, [Next]_vars PROVE JobsInv'
  OBVIOUS
<1>0. Len(state) \in Nat
  BY DEF JobsInv
<1>1. CASE UNCHANGED <<job, attempts, aborted>> /\ (UNCHANGED state \/ Lapse \/ \E s : Revoke(s))
  BY <1>1, StoreMoves DEF JobsInv, JobOK
<1>2. ASSUME NEW c \in Clients, AccountsStep(c) PROVE JobsInv'
  <2>1. state' \in Seq({"live", "lapsed", "revoked"}) /\ Len(state') \in {Len(state), Len(state) + 1}
    <3>1. CASE UNCHANGED storeVars
      BY <3>1, <1>0 DEF JobsInv, storeVars
    <3>2. CASE Issue
      <4>1. state' = Append(state, "live")
        BY <3>2 DEF Issue
      <4> QED BY <4>1, AppendProperties DEF JobsInv
    <3> QED BY <1>2, <3>1, <3>2, HandlerMoves
  <2>2. \A d \in Clients : JobOK(job[d])'
    <3>1. \A d \in Clients \ {c} : JobOK(job[d])'
      BY <1>0, <1>2, <2>1, HandlerMoves DEF JobsInv, JobOK
    <3>2. job'[c].sid \in 0 .. Len(state')
      BY <1>0, <1>2, <2>1, HandlerMoves DEF JobsInv, JobOK
    <3>3. JobOK(job[c])'
      BY <1>2, <3>2, HandlerMoves DEF JobsInv, JobOK
    <3> QED BY <3>1, <3>3
  <2>3. attempts' \in [Providers \X Results -> Nat] /\ aborted' \in [Providers -> Nat]
    <3>1. job[c].op \in Providers
      BY <1>2, HandlerMoves DEF JobsInv, JobOK
    <3>2. PICK op \in Providers : op = job[c].op
      BY <3>1
    <3>3. \/ UNCHANGED <<attempts, aborted>>
          \/ UNCHANGED aborted /\ (RecordAttempt(op, "succeeded") \/ RecordAttempt(op, "failed"))
          \/ UNCHANGED attempts /\ aborted' = [aborted EXCEPT ![op] = @ + 1]
      BY <1>2, <3>2, HandlerMoves
    <3>4. CASE UNCHANGED <<attempts, aborted>>
      BY <3>4 DEF JobsInv
    <3>5. CASE UNCHANGED aborted /\ (RecordAttempt(op, "succeeded") \/ RecordAttempt(op, "failed"))
      BY <3>5, Recorded DEF Results, JobsInv
    <3>6. CASE UNCHANGED attempts /\ aborted' = [aborted EXCEPT ![op] = @ + 1]
      BY <3>6 DEF JobsInv
    <3> QED BY <3>3, <3>4, <3>5, <3>6
  <2> QED BY <1>2, <2>1, <2>2, <2>3, HandlerMoves DEF JobsInv
<1>3. ASSUME NEW c \in Clients, Answered(c) PROVE JobsInv'
  <2>1. JobOK(NoJob)'
    BY <1>0, <1>3 DEF JobOK, NoJob, JobPcs, Answered, storeVars
  <2> QED BY <1>3, <2>1 DEF JobsInv, JobOK, Answered, storeVars
<1>4. ASSUME NEW c \in Clients, NEW op \in Providers, Starts(c, op),
             RecordAttempt(op, "started") \/ UNCHANGED attempts
      PROVE  JobsInv'
  <2>1. JobOK(job[c])'
    BY <1>0, <1>4 DEF Starts, JobOK, NoJob, JobPcs, storeVars, Providers, None
  <2>2. \A d \in Clients \ {c} : JobOK(job[d])'
    BY <1>4 DEF Starts, JobOK, JobsInv, storeVars
  <2>3. attempts' \in [Providers \X Results -> Nat]
    <3>1. CASE UNCHANGED attempts
      BY <3>1 DEF JobsInv
    <3>2. CASE RecordAttempt(op, "started")
      BY <3>2, Recorded DEF Results
    <3> QED BY <1>4, <3>1, <3>2
  <2> QED BY <1>4, <2>1, <2>2, <2>3 DEF Starts, JobsInv, storeVars
<1> QED BY <1>1, <1>2, <1>3, <1>4, StepsOfJobs DEF Providers

\* No handler runs at first.
LEMMA JobsInit == Init => JobsInv
<1> SUFFICES ASSUME Init PROVE JobsInv
  OBVIOUS
<1>1. cookie \in {0, 1}
  BY DEF Init
<1>2. state \in Seq({"live", "lapsed", "revoked"})
  BY <1>1 DEF Init
<1>3. JobOK(NoJob)
  BY <1>2 DEF JobOK, NoJob, JobPcs
<1> QED BY <1>2, <1>3 DEF Init, AccountsInit, JobsInv, Providers, Results

\* A set that gains one element, or loses one, has one more or one less.
LEMMA OneMore ==
    ASSUME NEW S, NEW x, x \notin S, IsFiniteSet(S)
    PROVE  Cardinality(S \cup {x}) = Cardinality(S) + 1
BY FS_AddElement

\* The handlers in flight are finitely many.
LEMMA InFlightFinite ==
    ASSUME NEW op
    PROVE  IsFiniteSet(InFlight(op)) /\ Cardinality(InFlight(op)) \in Nat
BY ClientsAssumption, FS_Subset, FS_CardinalityType DEF InFlight

\* Every local attempt on record as started is accounted for.
LEMMA AccountedStep ==
    ASSUME JobsInv, [Next]_vars, NEW op \in {"register", "login"}, Accounted(op)
    PROVE  Accounted(op)'
<1> DEFINE S == InFlight(op)
           T == InFlight(op)'
<1>0. /\ op \in Providers /\ \A q \in Results : attempts[<<op, q>>] \in Nat
      /\ aborted[op] \in Nat /\ Cardinality(S) \in Nat /\ IsFiniteSet(S) /\ IsFiniteSet(T)
      /\ Cardinality(T) \in Nat
  <2>1. T \subseteq Clients
    BY DEF InFlight
  <2>2. IsFiniteSet(T) /\ Cardinality(T) \in Nat
    BY <2>1, ClientsAssumption, FS_Subset, FS_CardinalityType
  <2>3. op \in Providers /\ \A q \in Results : <<op, q>> \in Providers \X Results
    BY DEF Providers
  <2> QED BY <2>2, <2>3, InFlightFinite DEF JobsInv
<1>00. {"started", "succeeded", "failed"} = Results
  BY DEF Results
<1>1. ASSUME UNCHANGED <<attempts, aborted>>, T = S PROVE Accounted(op)'
  BY <1>1 DEF Accounted
<1>2. CASE UNCHANGED <<job, attempts, aborted>> /\ (UNCHANGED state \/ Lapse \/ \E s : Revoke(s))
  BY <1>1, <1>2 DEF InFlight
<1>3. ASSUME NEW c \in Clients, Answered(c) PROVE Accounted(op)'
  <2>1. \A d \in Clients : d \in T <=> d \in S
    BY <1>3 DEF InFlight, Answered, NoJob, JobsInv, None
  <2>2. T = S
    BY <2>1 DEF InFlight
  <2> QED BY <1>1, <1>3, <2>2 DEF Answered
<1>4. ASSUME NEW c \in Clients, NEW o \in Providers, Starts(c, o), o # op,
             RecordAttempt(o, "started") \/ UNCHANGED attempts
      PROVE  Accounted(op)'
  <2>1. \A d \in Clients : d \in T <=> d \in S
    BY <1>4 DEF InFlight, Starts, NoJob, None
  <2>2. T = S
    BY <2>1 DEF InFlight
  <2>3. \A q \in Results : attempts'[<<op, q>>] = attempts[<<op, q>>]
    <3>1. CASE UNCHANGED attempts
      BY <3>1
    <3>2. CASE RecordAttempt(o, "started")
      BY <1>0, <1>4, <3>2, Recorded DEF Results
    <3> QED BY <1>4, <3>1, <3>2
  <2>4. aborted'[op] = aborted[op]
    BY <1>4 DEF Starts
  <2> HIDE DEF S, T
  <2>5. Accounted(op)' <=> attempts'[<<op, "started">>] = attempts'[<<op, "succeeded">>]
           + attempts'[<<op, "failed">>] + aborted'[op] + Cardinality(T)
    BY DEF Accounted, T
  <2>6. Accounted(op) <=> attempts[<<op, "started">>] = attempts[<<op, "succeeded">>]
           + attempts[<<op, "failed">>] + aborted[op] + Cardinality(S)
    BY DEF Accounted, S
  <2> QED BY <1>00, <2>2, <2>3, <2>4, <2>5, <2>6
<1>5. ASSUME NEW c \in Clients, Starts(c, op), RecordAttempt(op, "started") PROVE Accounted(op)'
  <2>1. \A d \in Clients : d \in T <=> d \in S \cup {c}
    BY <1>5 DEF InFlight, Starts, NoJob, None
  <2>2. T = S \cup {c} /\ c \notin S
    BY <1>5, <2>1 DEF InFlight, Starts, NoJob, None
  <2>3. Cardinality(T) = Cardinality(S) + 1
    BY <1>0, <2>2, OneMore
  <2>4. \A q \in Results : attempts'[<<op, q>>] = attempts[<<op, q>>] + (IF q = "started" THEN 1 ELSE 0)
    BY <1>0, <1>00, <1>5, Recorded
  <2>5. aborted'[op] = aborted[op]
    BY <1>5 DEF Starts
  <2> HIDE DEF S, T
  <2>6. Accounted(op)' <=> attempts'[<<op, "started">>] = attempts'[<<op, "succeeded">>]
           + attempts'[<<op, "failed">>] + aborted'[op] + Cardinality(T)
    BY DEF Accounted, T
  <2>7. Accounted(op) <=> attempts[<<op, "started">>] = attempts[<<op, "succeeded">>]
           + attempts[<<op, "failed">>] + aborted[op] + Cardinality(S)
    BY DEF Accounted, S
  <2> QED BY <1>0, <1>00, <2>3, <2>4, <2>5, <2>6, <2>7
<1>6. ASSUME NEW c \in Clients, AccountsStep(c) PROVE Accounted(op)'
  <2>1. PICK o \in Providers : o = job[c].op
    BY <1>6, HandlerMoves DEF JobsInv, JobOK
  <2>2. /\ \A d \in Clients \ {c} : job'[d] = job[d]
        /\ job[c].pc # "reply" /\ job'[c].op = o
    BY <1>6, <2>1, HandlerMoves
  <2>3. CASE job'[c].pc # "reply" /\ UNCHANGED <<attempts, aborted>>
    <3>1. \A d \in Clients : d \in T <=> d \in S
      BY <2>1, <2>2, <2>3 DEF InFlight
    <3>2. T = S
      BY <3>1 DEF InFlight
    <3> QED BY <1>1, <2>3, <3>2
  <2>4. ASSUME job'[c].pc = "reply", o # op,
               \/ UNCHANGED aborted /\ (RecordAttempt(o, "succeeded") \/ RecordAttempt(o, "failed"))
               \/ UNCHANGED attempts /\ aborted' = [aborted EXCEPT ![o] = @ + 1]
        PROVE  Accounted(op)'
    <3>1. \A d \in Clients : d \in T <=> d \in S
      BY <2>1, <2>2, <2>4 DEF InFlight
    <3>2. T = S
      BY <3>1 DEF InFlight
    <3>3. aborted'[op] = aborted[op]
      BY <1>0, <2>4 DEF JobsInv
    <3>4. \A q \in Results : attempts'[<<op, q>>] = attempts[<<op, q>>]
      <4>1. CASE UNCHANGED attempts
        BY <4>1
      <4>2. CASE RecordAttempt(o, "succeeded") \/ RecordAttempt(o, "failed")
        BY <1>0, <1>00, <2>4, <4>2, Recorded
      <4> QED BY <2>4, <4>1, <4>2
    <3> HIDE DEF S, T
    <3>5. Accounted(op)' <=> attempts'[<<op, "started">>] = attempts'[<<op, "succeeded">>]
             + attempts'[<<op, "failed">>] + aborted'[op] + Cardinality(T)
      BY DEF Accounted, T
    <3>6. Accounted(op) <=> attempts[<<op, "started">>] = attempts[<<op, "succeeded">>]
             + attempts[<<op, "failed">>] + aborted[op] + Cardinality(S)
      BY DEF Accounted, S
    <3> QED BY <1>00, <3>2, <3>3, <3>4, <3>5, <3>6
  <2>5. ASSUME job'[c].pc = "reply", o = op,
               \/ UNCHANGED aborted /\ (RecordAttempt(o, "succeeded") \/ RecordAttempt(o, "failed"))
               \/ UNCHANGED attempts /\ aborted' = [aborted EXCEPT ![o] = @ + 1]
        PROVE  Accounted(op)'
    <3>1. \A d \in Clients : d \in S <=> d \in T \cup {c}
      BY <2>1, <2>2, <2>5 DEF InFlight
    <3>2. S = T \cup {c} /\ c \notin T
      BY <2>2, <2>5, <3>1 DEF InFlight
    <3>3. Cardinality(S) = Cardinality(T) + 1
      BY <1>0, <3>2, OneMore
    <3> HIDE DEF S, T
    <3>4. Accounted(op)' <=> attempts'[<<op, "started">>] = attempts'[<<op, "succeeded">>]
             + attempts'[<<op, "failed">>] + aborted'[op] + Cardinality(T)
      BY DEF Accounted, T
    <3>5. Accounted(op) <=> attempts[<<op, "started">>] = attempts[<<op, "succeeded">>]
             + attempts[<<op, "failed">>] + aborted[op] + Cardinality(S)
      BY DEF Accounted, S
    <3>6. CASE UNCHANGED aborted /\ RecordAttempt(op, "succeeded")
      <4>1. \A q \in Results : attempts'[<<op, q>>] = attempts[<<op, q>>] + (IF q = "succeeded" THEN 1 ELSE 0)
        BY <1>0, <1>00, <3>6, Recorded
      <4> QED BY <1>0, <1>00, <3>3, <3>4, <3>5, <3>6, <4>1
    <3>7. CASE UNCHANGED aborted /\ RecordAttempt(op, "failed")
      <4>1. \A q \in Results : attempts'[<<op, q>>] = attempts[<<op, q>>] + (IF q = "failed" THEN 1 ELSE 0)
        BY <1>0, <1>00, <3>7, Recorded
      <4> QED BY <1>0, <1>00, <3>3, <3>4, <3>5, <3>7, <4>1
    <3>8. CASE UNCHANGED attempts /\ aborted' = [aborted EXCEPT ![op] = @ + 1]
      <4>1. aborted'[op] = aborted[op] + 1
        BY <1>0, <3>8 DEF JobsInv
      <4> QED BY <1>0, <1>00, <3>3, <3>4, <3>5, <3>8, <4>1
    <3> QED BY <2>5, <3>6, <3>7, <3>8
  <2> QED BY <1>6, <2>1, <2>3, <2>4, <2>5, HandlerMoves
<1> QED BY <1>2, <1>3, <1>4, <1>5, <1>6, StepsOfJobs DEF Providers

\* Every local sign-up or sign-in on record as started is still in flight, has exactly one
\* outcome on record, or died of a rejected database call: the audit of registerLocalAccount
\* and loginLocalAccount loses and doubles nothing, however many handlers interleave.
THEOREM AttemptsAreAccounted == Spec => []AttemptsAccounted
<1> DEFINE Inv == JobsInv /\ \A op \in {"register", "login"} : Accounted(op)
<1>1. Init => Inv
  <2> SUFFICES ASSUME Init PROVE Inv
    OBVIOUS
  <2>1. ASSUME NEW op \in {"register", "login"} PROVE Accounted(op)
    <3>1. \A c \in Clients : job[c].op = None
      BY DEF Init, AccountsInit, NoJob
    <3>2. InFlight(op) = {}
      BY <3>1 DEF InFlight, None
    <3>3. \A q \in Results : <<op, q>> \in Providers \X Results /\ op \in Providers
      BY DEF Providers
    <3>4. (\A q \in Results : attempts[<<op, q>>] = 0) /\ aborted[op] = 0
      BY <3>3 DEF Init, AccountsInit, Results
    <3> QED BY <3>2, <3>4, FS_EmptySet DEF Accounted, Results
  <2> QED BY <2>1, JobsInit
<1>2. Inv /\ [Next]_vars => Inv'
  BY JobsStep, AccountedStep
<1>3. Inv => AttemptsAccounted
  BY DEF Accounted, InFlight, AttemptsAccounted
<1> QED BY <1>1, <1>2, <1>3, PTL DEF Spec

-----------------------------------------------------------------------------
(* The browser's session.                                                  *)

Call == [pc : {"idle", "sent", "ok", "refused", "missing", "failed", "expired", "waiting"},
         cookie : Nat, tok : Nat, retry : BOOLEAN]

PageTypes ==
    /\ cookie \in 0 .. Len(state) /\ tok \in Nat /\ Len(tokens) \in Nat
    /\ signedIn \in BOOLEAN /\ hydrating \in BOOLEAN /\ fault \in BOOLEAN /\ out \in BOOLEAN
    /\ refresh \in [Refreshes -> Call] /\ req \in [AllReqs -> Call]

\* After a sign-out nothing in the browser can bring a session back: no cookie, no sign-in
\* in flight, and renewals, which requests still under way may start, without a cookie.
SignedOut ==
    /\ ~signedIn /\ tok = 0 /\ cookie = 0 /\ job[Me] = NoJob /\ req["me"] = NoCall
    /\ \A k \in Refreshes : refresh[k].cookie = 0 /\ refresh[k].pc # "ok"

\* A renewal in flight carries the browser's cookie c, unless an answer was lost.
RenewalOK(f, c, lost) ==
    /\ f # NoCall /\ c # 0 /\ ~lost => f.cookie = c
    /\ f.pc = "ok" => f.tok # 0
    /\ f.pc = "missing" => f.cookie = 0
    /\ f.pc = "failed" => lost

\* The failures that end the session are those on account of which fault is set.
RequestOK(r, q, lost) ==
    /\ q.pc = "sent" /\ (q.retry \/ r = "me") => q.tok # 0
    /\ q.pc = "expired" /\ q.retry => lost
    /\ q.pc = "failed" /\ (q.retry \/ r = "me") => lost

CallsOK ==
    /\ \A k \in Refreshes : RenewalOK(refresh[k], cookie, fault)
    /\ \A r \in AllReqs : RequestOK(r, req[r], fault)

PageInv == PageTypes /\ (out => SignedOut) /\ CallsOK /\ KeptSignedIn

\* Sessions are only added, and none comes back to life.
LEMMA SessionsAge ==
    ASSUME JobsInv, [Next]_vars
    PROVE  /\ state' \in Seq({"live", "lapsed", "revoked"}) /\ Len(state) <= Len(state')
           /\ \A s \in 1 .. Len(state) : state'[s] = "live" => state[s] = "live"
<1> DEFINE Aged == /\ Len(state) <= Len(state')
                   /\ \A s \in 1 .. Len(state) : state'[s] = "live" => state[s] = "live"
<1>0. DOMAIN state = 1 .. Len(state) /\ Len(state) \in Nat
  BY DEF JobsInv
<1>1. CASE UNCHANGED state
  BY <1>0, <1>1 DEF JobsInv
<1>2. CASE Lapse
  BY <1>0, <1>2, StoreMoves DEF Lapse, Live
<1>3. ASSUME NEW s, Revoke(s) PROVE Aged
  BY <1>0, <1>3, StoreMoves DEF Revoke
<1>4. CASE Issue
  <2>1. state' = Append(state, "live")
    BY <1>4 DEF Issue
  <2> QED BY <1>0, <2>1, AppendProperties DEF JobsInv
<1>5. UNCHANGED state \/ Lapse \/ Issue \/ \E s : Revoke(s)
  <2>1. \A c \in Clients : AccountsStep(c) => UNCHANGED state \/ Issue
    BY HandlerMoves DEF storeVars
  <2> QED BY <2>1, StepsOfJobs DEF Starts, Answered, storeVars
<1>6. Aged
  BY <1>1, <1>2, <1>3, <1>4, <1>5
<1> QED BY <1>6, JobsStep DEF JobsInv

\* Steps that change neither the cookie nor the calls of the page.
LEMMA PageUntouched ==
    ASSUME JobsInv, [Next]_vars, PageInv, job[Me] = NoJob => job'[Me] = NoJob,
           UNCHANGED <<cookie, tokens, tok, signedIn, hydrating, refresh, req, fault, out>>
    PROVE  PageInv'
<1>0. Len(state) \in Nat /\ Len(state') \in Nat /\ Len(state) <= Len(state')
  BY SessionsAge DEF JobsInv
<1>1. PageTypes'
  BY <1>0 DEF PageInv, PageTypes
<1>2. (out => SignedOut)'
  BY DEF PageInv, SignedOut
<1>3. CallsOK'
  BY DEF PageInv, CallsOK
<1>4. KeptSignedIn'
  <2>1. SUFFICES ASSUME cookie # 0, Live(cookie)', ~fault, ~hydrating PROVE signedIn
    BY DEF KeptSignedIn
  <2>2. cookie \in 1 .. Len(state) /\ DOMAIN state = 1 .. Len(state)
    BY <1>0, <2>1 DEF PageInv, PageTypes, JobsInv
  <2>3. Live(cookie)
    BY <2>1, <2>2, SessionsAge DEF Live
  <2> QED BY <2>1, <2>3 DEF PageInv, KeptSignedIn
<1> QED BY <1>1, <1>2, <1>3, <1>4 DEF PageInv

\* Steps of handlers and of time leave the browser as it is.
LEMMA OthersKeepPage ==
    ASSUME JobsInv, [Next]_vars, PageInv,
           \/ LogoutSend \/ LogoutServe \/ LogoutLost \/ TokensExpire \/ SessionsLapse
           \/ \E c \in Clients : OtherClient(c) \/ (AccountsStep(c) /\ UNCHANGED browserVars)
           \/ UNCHANGED vars
    PROVE  PageInv'
<1> USE DEF serverVars, accountVars, storeVars, pageVars, browserVars
<1>1. CASE LogoutSend \/ LogoutServe \/ LogoutLost \/ TokensExpire \/ SessionsLapse
  BY <1>1, PageUntouched DEF LogoutSend, LogoutServe, LogoutLost, TokensExpire, SessionsLapse
<1>2. ASSUME NEW c \in Clients, OtherClient(c) PROVE PageInv'
  <2>1. job'[Me] = job[Me]
    <3>1. c # Me
      BY <1>2 DEF OtherClient
    <3>2. CASE Answered(c)
      BY <3>1, <3>2, BrowserAssumption DEF Answered, JobsInv
    <3>3. CASE Starts(c, "register") \/ Starts(c, "google")
      BY <3>1, <3>3, BrowserAssumption DEF Starts
    <3>4. Answered(c) \/ Starts(c, "register") \/ Starts(c, "google")
      BY <1>2, HandlerStarts DEF OtherClient, Answered
    <3> QED BY <3>2, <3>3, <3>4
  <2>2. UNCHANGED browserVars
    BY <1>2 DEF OtherClient
  <2> QED BY <2>1, <2>2, PageUntouched
<1>3. ASSUME NEW c \in Clients, AccountsStep(c), UNCHANGED browserVars PROVE PageInv'
  <2>1. job[Me] = NoJob => job'[Me] = NoJob
    BY <1>3, HandlerMoves, BrowserAssumption DEF NoJob
  <2> QED BY <1>3, <2>1, PageUntouched
<1>4. CASE UNCHANGED vars
  BY <1>4, PageUntouched DEF vars
<1> QED BY <1>1, <1>2, <1>3, <1>4

\* POST /auth/refresh, on the server: only a live session gets a token, never the session 0.
LEMMA RefreshServeKeepsPage ==
    ASSUME JobsInv, PageInv, NEW k \in Refreshes, RefreshServe(k)
    PROVE  PageInv'
<1> USE DEF serverVars, accountVars, storeVars, pageVars
<1>0. refresh[k] \in Call /\ refresh[k].pc = "sent" /\ refresh[k] # NoCall
  BY DEF PageInv, PageTypes, RefreshServe, NoCall
<1>1. PICK pc \in {"missing", "ok", "refused"}, t \in Nat :
          /\ refresh' = [refresh EXCEPT ![k] = [@ EXCEPT !.pc = pc, !.tok = t]]
          /\ pc = "missing" => refresh[k].cookie = 0
          /\ pc = "ok" => t # 0 /\ refresh[k].cookie # 0
          /\ Len(tokens') \in Nat /\ fault' \in BOOLEAN /\ (fault => fault')
  <2>1. Len(tokens) \in Nat /\ fault \in BOOLEAN /\ refresh[k].tok \in Nat
    BY <1>0 DEF PageInv, PageTypes, Call
  <2>2. CASE /\ refresh[k].cookie = 0 /\ refresh' = [refresh EXCEPT ![k].pc = "missing"]
             /\ UNCHANGED <<tokens, fault>>
    <3>1. refresh' = [refresh EXCEPT ![k] = [@ EXCEPT !.pc = "missing", !.tok = refresh[k].tok]]
      BY <1>0, <2>2 DEF PageInv, PageTypes, Call
    <3> QED BY <2>1, <2>2, <3>1
  <2>3. CASE /\ Live(refresh[k].cookie) /\ tokens' = Append(tokens, refresh[k].cookie)
             /\ refresh' = [refresh EXCEPT ![k].pc = "ok", ![k].tok = Len(tokens')]
             /\ UNCHANGED fault
    <3>1. Len(tokens') \in Nat /\ Len(tokens') # 0
      BY <2>1, <2>3
    <3>2. refresh[k].cookie # 0
      BY <2>3 DEF Live, JobsInv
    <3> QED BY <2>1, <2>3, <3>1, <3>2
  <2>4. CASE /\ refresh' = [refresh EXCEPT ![k].pc = "refused"] /\ UNCHANGED tokens
             /\ fault' = (fault \/ Live(refresh[k].cookie))
    <3>1. refresh' = [refresh EXCEPT ![k] = [@ EXCEPT !.pc = "refused", !.tok = refresh[k].tok]]
      BY <1>0, <2>4 DEF PageInv, PageTypes, Call
    <3> QED BY <2>1, <2>4, <3>1
  <2> QED BY <2>2, <2>3, <2>4 DEF RefreshServe
<1>2. UNCHANGED <<state, job, cookie, tok, signedIn, hydrating, out, req>>
  BY DEF RefreshServe
<1>3. refresh' \in [Refreshes -> Call]
  BY <1>0, <1>1 DEF PageInv, PageTypes, Call
<1>4. PageTypes'
  BY <1>1, <1>2, <1>3 DEF PageInv, PageTypes
<1>5. (out => SignedOut)'
  <2> SUFFICES ASSUME out PROVE SignedOut'
    BY <1>2
  <2>1. SignedOut
    BY DEF PageInv
  <2>2. \A j \in Refreshes : refresh'[j].cookie = 0 /\ refresh'[j].pc # "ok"
    BY <1>0, <1>1, <2>1 DEF SignedOut, PageInv, PageTypes, Call
  <2> QED BY <1>2, <2>1, <2>2 DEF SignedOut
<1>6. CallsOK'
  <2>1. \A j \in Refreshes : RenewalOK(refresh'[j], cookie, fault')
    <3> SUFFICES ASSUME NEW j \in Refreshes PROVE RenewalOK(refresh'[j], cookie, fault')
      OBVIOUS
    <3>1. RenewalOK(refresh[j], cookie, fault)
      BY DEF PageInv, CallsOK
    <3>2. CASE j = k
      BY <1>0, <1>1, <3>1, <3>2 DEF PageInv, PageTypes, Call, RenewalOK
    <3>3. CASE j # k
      BY <1>1, <3>1, <3>3 DEF PageInv, PageTypes, RenewalOK
    <3> QED BY <3>2, <3>3
  <2>2. \A r \in AllReqs : RequestOK(r, req[r], fault')
    BY <1>1 DEF PageInv, CallsOK, RequestOK
  <2> QED BY <1>2, <2>1, <2>2 DEF CallsOK
<1>7. KeptSignedIn'
  BY <1>1, <1>2 DEF PageInv, KeptSignedIn, Live
<1> QED BY <1>4, <1>5, <1>6, <1>7 DEF PageInv

\* The answer to a renewal, and the requests that waited for it.
LEMMA RefreshAnswerKeepsPage ==
    ASSUME JobsInv, PageInv, NEW k \in Refreshes, RefreshAnswer(k)
    PROVE  PageInv'
<1> USE DEF serverVars, accountVars, storeVars
<1>0. /\ refresh[k] \in Call /\ refresh[k] # NoCall /\ NoCall \in Call
      /\ refresh[k].pc \in {"ok", "refused", "missing", "failed"}
      /\ refresh[k].cookie \in Nat /\ refresh[k].tok \in Nat
  BY DEF PageInv, PageTypes, RefreshAnswer, NoCall, Call
<1>1. /\ refresh' = [refresh EXCEPT ![k] = NoCall]
      /\ UNCHANGED <<state, job, tokens, fault, out>>
  BY DEF RefreshAnswer
<1>2. RenewalOK(refresh[k], cookie, fault)
  BY DEF PageInv, CallsOK
<1>3. \A j \in Refreshes : refresh'[j] = IF j = k THEN NoCall ELSE refresh[j]
  BY <1>1 DEF PageInv, PageTypes
<1>4. CASE refresh[k].pc = "ok"
  <2>1. PICK t \in Nat : t = refresh[k].tok /\ t # 0
    BY <1>0, <1>2, <1>4 DEF RenewalOK
  <2>2. tok' = t /\ signedIn' = TRUE /\ hydrating' = FALSE /\ UNCHANGED cookie
    BY <1>4, <2>1 DEF RefreshAnswer, Authenticated
  <2>3. Sent(0, t) \in Call /\ [Sent(0, t) EXCEPT !.retry = TRUE] \in Call
    BY DEF Sent, NoCall, Call
  <2>4. /\ DOMAIN req' = AllReqs
        /\ \A r \in AllReqs : req'[r] \in {req[r], Sent(0, t), [Sent(0, t) EXCEPT !.retry = TRUE]}
    BY <1>4, <2>2 DEF RefreshAnswer
  <2>5. req' \in [AllReqs -> Call]
    <3>1. \A r \in AllReqs : req'[r] \in Call
      BY <2>3, <2>4 DEF PageInv, PageTypes
    <3>2. req' = [r \in AllReqs |-> req'[r]]
      BY <1>4, <2>2 DEF RefreshAnswer
    <3> QED BY <3>1, <3>2
  <2>6. PageTypes'
    BY <1>0, <1>1, <2>2, <2>5 DEF PageInv, PageTypes
  <2>7. ~out
    BY <1>4 DEF PageInv, SignedOut
  <2>8. CallsOK'
    <3>1. \A j \in Refreshes : RenewalOK(refresh'[j], cookie, fault)
      BY <1>3 DEF PageInv, CallsOK, RenewalOK, NoCall
    <3>2. \A r \in AllReqs : RequestOK(r, req'[r], fault)
      <4> SUFFICES ASSUME NEW r \in AllReqs PROVE RequestOK(r, req'[r], fault)
        OBVIOUS
      <4>1. RequestOK(r, req[r], fault)
        BY DEF PageInv, CallsOK
      <4>2. RequestOK(r, Sent(0, t), fault) /\ RequestOK(r, [Sent(0, t) EXCEPT !.retry = TRUE], fault)
        BY <2>1 DEF RequestOK, Sent, NoCall
      <4> QED BY <2>4, <4>1, <4>2
    <3> QED BY <1>1, <2>2, <3>1, <3>2 DEF CallsOK
  <2>9. KeptSignedIn'
    BY <2>2 DEF KeptSignedIn
  <2> QED BY <1>1, <2>6, <2>7, <2>8, <2>9 DEF PageInv
<1>5. CASE refresh[k].pc # "ok"
  <2>1. /\ tok' = 0 /\ signedIn' = FALSE /\ hydrating' = FALSE
        /\ cookie' = IF refresh[k].pc = "refused" THEN 0 ELSE cookie
    BY <1>5 DEF RefreshAnswer, ClearSession
  <2>2. /\ req' = [r \in AllReqs |-> req'[r]]
        /\ \A r \in AllReqs : req'[r] = req[r] \/ req'[r] = NoCall
    BY <1>5 DEF RefreshAnswer
  <2>3. req' \in [AllReqs -> Call]
    BY <1>0, <2>2 DEF PageInv, PageTypes
  <2>4. PageTypes'
    <3>1. cookie' \in 0 .. Len(state')
      BY <1>1, <2>1 DEF PageInv, PageTypes, JobsInv
    <3> QED BY <1>0, <1>1, <2>1, <2>3, <3>1 DEF PageInv, PageTypes
  <2>5. (out => SignedOut)'
    <3> SUFFICES ASSUME out PROVE SignedOut'
      BY <1>1
    <3>1. SignedOut
      BY DEF PageInv
    <3>2. req'["me"] = NoCall
      BY <2>2, <3>1 DEF SignedOut, AllReqs
    <3> QED BY <1>1, <1>3, <2>1, <3>1, <3>2 DEF SignedOut, NoCall
  <2>6. CallsOK'
    <3>1. \A j \in Refreshes : RenewalOK(refresh'[j], cookie', fault)
      BY <1>3, <2>1 DEF PageInv, CallsOK, RenewalOK, NoCall
    <3>2. \A r \in AllReqs : RequestOK(r, req'[r], fault)
      BY <2>2 DEF PageInv, CallsOK, RequestOK, NoCall
    <3> QED BY <1>1, <3>1, <3>2 DEF CallsOK
  <2>7. KeptSignedIn'
    <3>1. cookie' = 0 \/ fault
      BY <1>0, <1>2, <1>5, <2>1 DEF RenewalOK
    <3> QED BY <1>1, <3>1 DEF KeptSignedIn
  <2> QED BY <2>4, <2>5, <2>6, <2>7 DEF PageInv
<1> QED BY <1>4, <1>5

\* Steps that change one request of the page and perhaps record a fault.
LEMMA RequestMoves ==
    ASSUME PageInv, NEW r \in AllReqs, NEW q \in Call, out => r # "me",
           req' = [req EXCEPT ![r] = q], fault' \in BOOLEAN, fault => fault',
           RequestOK(r, q, fault'),
           UNCHANGED <<state, job, cookie, tokens, tok, signedIn, hydrating, refresh, out>>
    PROVE  PageInv'
<1>1. PageTypes'
  BY DEF PageInv, PageTypes
<1>2. (out => SignedOut)'
  BY DEF PageInv, PageTypes, SignedOut, AllReqs
<1>3. CallsOK'
  <2>1. \A k \in Refreshes : RenewalOK(refresh[k], cookie, fault')
    BY DEF PageInv, CallsOK, RenewalOK
  <2>2. \A j \in AllReqs : RequestOK(j, req'[j], fault')
    BY DEF PageInv, PageTypes, CallsOK, RequestOK
  <2> QED BY <2>1, <2>2 DEF CallsOK
<1>4. KeptSignedIn'
  BY DEF PageInv, KeptSignedIn, Live
<1> QED BY <1>1, <1>2, <1>3, <1>4 DEF PageInv

\* A request that the page sends, and the server's answer to one.
LEMMA RequestsKeepPage ==
    ASSUME PageInv, NEW r \in AllReqs, RequestSend(r) \/ RequestServe(r)
    PROVE  PageInv'
<1> USE DEF serverVars, accountVars, storeVars, pageVars
<1>0. tok \in Nat /\ req[r] \in Call /\ fault \in BOOLEAN /\ RequestOK(r, req[r], fault)
  BY DEF PageInv, PageTypes, CallsOK
<1>1. CASE RequestSend(r)
  <2>1. Sent(0, tok) \in Call /\ r # "me" /\ RequestOK(r, Sent(0, tok), fault)
    BY <1>0, <1>1, BrowserAssumption DEF Sent, NoCall, Call, RequestSend, RequestOK
  <2> QED BY <1>0, <1>1, <2>1, RequestMoves DEF RequestSend
<1>2. CASE RequestServe(r)
  <2>1. out => r # "me"
    BY <1>2 DEF RequestServe, PageInv, SignedOut, NoCall
  <2>2. PICK pc \in {"ok", "expired", "failed"} :
            /\ req' = [req EXCEPT ![r].pc = pc] /\ req[r].pc = "sent"
            /\ fault' \in BOOLEAN /\ (fault => fault')
            /\ pc = "expired" /\ req[r].retry => fault'
            /\ pc = "failed" /\ (req[r].retry \/ r = "me") => fault'
    BY <1>0, <1>2 DEF RequestServe, RequestOK
  <2> DEFINE q == [req[r] EXCEPT !.pc = pc]
  <2>3. q \in Call /\ RequestOK(r, q, fault')
    BY <1>0, <2>2 DEF Call, RequestOK
  <2>4. req' = [req EXCEPT ![r] = q]
    BY <2>2
  <2>5. UNCHANGED <<state, job, cookie, tokens, tok, signedIn, hydrating, refresh, out>>
    BY <1>2 DEF RequestServe, Grant
  <2> HIDE DEF q
  <2> QED BY <2>1, <2>2, <2>3, <2>4, <2>5, RequestMoves
<1> QED BY <1>1, <1>2

\* The response interceptor of http.ts.
LEMMA RequestAnswerKeepsPage ==
    ASSUME JobsInv, PageInv, NEW r \in AllReqs, RequestAnswer(r)
    PROVE  PageInv'
<1> USE DEF serverVars, accountVars, storeVars
<1>0. /\ req[r] \in Call /\ RequestOK(r, req[r], fault) /\ NoCall \in Call
      /\ fault \in BOOLEAN /\ tok \in Nat /\ cookie \in Nat /\ req \in [AllReqs -> Call]
      /\ refresh \in [Refreshes -> Call] /\ req[r] # NoCall
  BY DEF PageInv, PageTypes, CallsOK, NoCall, Call, RequestAnswer, JobsInv
<1>1. UNCHANGED <<state, job, cookie, tokens, fault, out>>
  BY DEF RequestAnswer
<1>2. out => r # "me"
  BY <1>0 DEF PageInv, SignedOut
<1>3. ASSUME req' = [req EXCEPT ![r] = NoCall], UNCHANGED <<tok, signedIn, hydrating, refresh>>
      PROVE  PageInv'
  BY <1>0, <1>1, <1>2, <1>3, RequestMoves DEF RequestOK, NoCall
<1>4. ASSUME req' = [req EXCEPT ![r] = NoCall], r = "me", Authenticated(tok), UNCHANGED refresh
      PROVE  PageInv'
  <2>1. PageTypes'
    BY <1>0, <1>1, <1>4 DEF PageInv, PageTypes, Authenticated
  <2>2. CallsOK'
    BY <1>0, <1>1, <1>4 DEF PageInv, CallsOK, RequestOK, NoCall
  <2> QED BY <1>1, <1>2, <1>4, <2>1, <2>2 DEF PageInv, KeptSignedIn, Authenticated
<1>5. ASSUME req' = [req EXCEPT ![r] = NoCall], ClearSession, UNCHANGED refresh,
             req[r].pc \in {"failed", "expired"}, r = "me" \/ req[r].retry,
             req[r].pc = "failed" \/ req[r].retry
      PROVE  PageInv'
  <2>1. PageTypes'
    BY <1>0, <1>1, <1>5 DEF PageInv, PageTypes, ClearSession
  <2>2. CallsOK'
    BY <1>0, <1>1, <1>5 DEF PageInv, CallsOK, RequestOK, NoCall
  <2>3. (out => SignedOut)'
    BY <1>0, <1>1, <1>2, <1>5 DEF PageInv, SignedOut, ClearSession, AllReqs
  <2>4. fault
    BY <1>0, <1>5 DEF RequestOK
  <2> QED BY <1>1, <2>1, <2>2, <2>3, <2>4 DEF PageInv, KeptSignedIn
<1>6. ASSUME req[r].pc = "expired", ~req[r].retry,
             req' = [req EXCEPT ![r].pc = "waiting", ![r].retry = TRUE],
             refresh' = IF refresh["shared"] = NoCall
                          THEN [refresh EXCEPT !["shared"] = Sent(cookie, 0)] ELSE refresh,
             UNCHANGED <<tok, signedIn, hydrating>>
      PROVE  PageInv'
  <2>1. Sent(cookie, 0) \in Call /\ Sent(cookie, 0).cookie = cookie /\ Sent(cookie, 0).pc = "sent"
    BY <1>0 DEF Sent, NoCall, Call
  <2>2. \A k \in Refreshes : refresh'[k] = refresh[k] \/ refresh'[k] = Sent(cookie, 0)
    BY <1>0, <1>6
  <2>3. refresh' \in [Refreshes -> Call]
    BY <1>0, <1>6, <2>1
  <2>4. req' \in [AllReqs -> Call]
    BY <1>0, <1>6 DEF Call
  <2>5. PageTypes'
    BY <1>1, <1>6, <2>3, <2>4 DEF PageInv, PageTypes
  <2>6. (out => SignedOut)'
    BY <1>0, <1>1, <1>2, <1>6, <2>1, <2>2 DEF PageInv, SignedOut, AllReqs
  <2>7. \A k \in Refreshes : RenewalOK(refresh'[k], cookie, fault)
    BY <2>1, <2>2 DEF PageInv, CallsOK, RenewalOK
  <2>8. \A j \in AllReqs : RequestOK(j, req'[j], fault)
    <3>1. req'[r].pc = "waiting"
      BY <1>0, <1>6 DEF Call
    <3>2. \A j \in AllReqs \ {r} : req'[j] = req[j]
      BY <1>0, <1>6
    <3> QED BY <3>1, <3>2 DEF PageInv, CallsOK, RequestOK
  <2> QED BY <1>1, <1>6, <2>5, <2>6, <2>7, <2>8 DEF PageInv, CallsOK, KeptSignedIn, Live
<1> QED BY <1>3, <1>4, <1>5, <1>6 DEF RequestAnswer

\* An answer that never arrives.
LEMMA NetErrorKeepsPage ==
    ASSUME PageInv, NetError
    PROVE  PageInv'
<1> USE DEF serverVars, accountVars, storeVars, pageVars
<1>1. ASSUME NEW r \in AllReqs, req[r].pc = "sent", req' = [req EXCEPT ![r].pc = "failed"],
             UNCHANGED refresh
      PROVE  PageInv'
  <2>1. req[r] \in Call /\ (out => r # "me")
    BY <1>1 DEF PageInv, PageTypes, SignedOut, NoCall
  <2> DEFINE q == [req[r] EXCEPT !.pc = "failed"]
  <2>2. q \in Call /\ RequestOK(r, q, TRUE) /\ req' = [req EXCEPT ![r] = q]
    BY <1>1, <2>1 DEF Call, RequestOK
  <2>3. fault' = TRUE
    BY DEF NetError
  <2>4. UNCHANGED <<state, job, cookie, tokens, tok, signedIn, hydrating, refresh, out>>
    BY <1>1 DEF NetError
  <2> HIDE DEF q
  <2> QED BY <2>1, <2>2, <2>3, <2>4, RequestMoves
<1>2. ASSUME NEW k \in Refreshes, refresh[k].pc = "sent",
             refresh' = [refresh EXCEPT ![k].pc = "failed"], UNCHANGED req
      PROVE  PageInv'
  <2>1. refresh \in [Refreshes -> Call] /\ refresh[k] \in Call
    BY DEF PageInv, PageTypes
  <2>2. UNCHANGED <<state, job, cookie, tokens, tok, signedIn, hydrating, req, out>> /\ fault' = TRUE
    BY <1>2 DEF NetError
  <2>3. refresh' \in [Refreshes -> Call]
    BY <1>2, <2>1 DEF Call
  <2>4. /\ refresh'[k].pc = "failed" /\ refresh'[k].cookie = refresh[k].cookie
        /\ \A j \in Refreshes \ {k} : refresh'[j] = refresh[j]
    BY <1>2, <2>1 DEF Call
  <2>5. PageTypes'
    BY <2>2, <2>3 DEF PageInv, PageTypes
  <2>6. (out => SignedOut)'
    BY <2>2, <2>4 DEF PageInv, SignedOut
  <2>7. CallsOK'
    BY <2>2, <2>4 DEF PageInv, CallsOK, RenewalOK, RequestOK
  <2> QED BY <2>2, <2>5, <2>6, <2>7 DEF PageInv, KeptSignedIn
<1> QED BY <1>1, <1>2 DEF NetError

\* What a page that is set up afresh with cookie c has in flight.
LEMMA FreshPage ==
    ASSUME NEW c \in Nat
    PROVE  /\ [k \in Refreshes |-> IF k = "hydrate" THEN Sent(c, 0) ELSE NoCall] \in [Refreshes -> Call]
           /\ [r \in AllReqs |-> NoCall] \in [AllReqs -> Call]
           /\ RenewalOK(Sent(c, 0), c, FALSE)
           /\ \A d, lost : RenewalOK(NoCall, d, lost)
           /\ \A r, lost : RequestOK(r, NoCall, lost)
           /\ Sent(c, 0).cookie = c /\ Sent(c, 0).pc = "sent"
<1>1. NoCall \in Call /\ Sent(c, 0) \in Call
  BY DEF Sent, NoCall, Call
<1> QED BY <1>1 DEF Sent, NoCall, RenewalOK, RequestOK

\* A page load: hydrateSession has not returned.
LEMMA LoadKeepsPage ==
    ASSUME JobsInv, PageInv, UNCHANGED <<state, tokens, tok, out>>,
           cookie' \in 0 .. Len(state), LoadPage(cookie'),
           out => job'[Me] = NoJob /\ cookie' = cookie
    PROVE  PageInv'
<1>1. cookie' \in Nat /\ Len(state) \in Nat
  BY DEF JobsInv
<1>2. PICK c \in Nat : c = cookie'
  BY <1>1
<1>3. /\ signedIn' = FALSE /\ hydrating' = TRUE /\ fault' = FALSE
      /\ refresh' = [k \in Refreshes |-> IF k = "hydrate" THEN Sent(c, 0) ELSE NoCall]
      /\ req' = [r \in AllReqs |-> NoCall]
  BY <1>2 DEF LoadPage
<1>4. PageTypes'
  BY <1>3, FreshPage DEF PageInv, PageTypes
<1>5. (out => SignedOut)'
  BY <1>2, <1>3, FreshPage DEF PageInv, SignedOut, AllReqs, NoCall
<1>6. CallsOK'
  <2>1. \A k \in Refreshes : RenewalOK(refresh'[k], c, FALSE)
    BY <1>3, FreshPage
  <2>2. \A r \in AllReqs : RequestOK(r, req'[r], FALSE)
    BY <1>3, FreshPage
  <2> QED BY <1>2, <1>3, <2>1, <2>2 DEF CallsOK
<1> QED BY <1>3, <1>4, <1>5, <1>6 DEF PageInv, KeptSignedIn

\* Reloads, and the redirect after Google's callback.
LEMMA LoadsKeepPage ==
    ASSUME JobsInv, PageInv, Reload \/ GoogleRedirect
    PROVE  PageInv'
<1> USE DEF serverVars, accountVars, storeVars
<1>1. CASE Reload
  BY <1>1, LoadKeepsPage DEF Reload, PageInv, PageTypes, SignedOut
<1>2. CASE GoogleRedirect
  <2>1. JobOK(job[Me]) /\ job[Me].pc = "reply"
    BY <1>2, BrowserAssumption DEF JobsInv, GoogleRedirect
  <2>2. ~out
    BY <2>1 DEF PageInv, SignedOut, NoJob
  <2>3. cookie' \in 0 .. Len(state)
    BY <1>2, <2>1 DEF GoogleRedirect, JobOK, PageInv, PageTypes
  <2> QED BY <1>2, <2>2, <2>3, LoadKeepsPage DEF GoogleRedirect
<1> QED BY <1>1, <1>2

\* The answer to a sign-out.
LEMMA LogoutKeepsPage ==
    ASSUME JobsInv, PageInv, LogoutAnswer
    PROVE  PageInv'
<1> USE DEF serverVars, accountVars, storeVars
<1>1. /\ UNCHANGED <<state, job, tokens, refresh, req, fault>> /\ cookie' = 0 /\ tok' = 0
      /\ signedIn' = FALSE /\ hydrating' = FALSE /\ out' = Settled
  BY DEF LogoutAnswer, ClearSession
<1>2. PageTypes'
  <2>1. Settled \in BOOLEAN
    BY Zenon DEF Settled, Quiet
  <2>2. cookie' \in 0 .. Len(state')
    BY <1>1 DEF JobsInv
  <2> QED BY <1>1, <2>1, <2>2 DEF PageInv, PageTypes
<1>3. (out => SignedOut)'
  <2> SUFFICES ASSUME out' PROVE SignedOut'
    OBVIOUS
  <2>1. Settled
    BY <1>1
  <2>2. job[Me] = NoJob /\ req["me"] = NoCall /\ \A k \in Refreshes : refresh[k] = NoCall
    BY <2>1 DEF Settled, Quiet
  <2> QED BY <1>1, <2>2 DEF SignedOut, NoCall
<1>4. CallsOK'
  BY <1>1 DEF PageInv, CallsOK, RenewalOK
<1> QED BY <1>1, <1>2, <1>3, <1>4 DEF PageInv, KeptSignedIn

\* The start of a sign-in.
LEMMA SignInKeepsPage ==
    ASSUME JobsInv, PageInv, SignIn \/ SignInGoogle
    PROVE  PageInv'
<1>1. UNCHANGED state
  BY HandlerStarts, BrowserAssumption DEF SignIn, SignInGoogle, Starts, storeVars
<1>2. CASE SignIn
  <2>1. /\ UNCHANGED <<cookie, tokens, tok, signedIn, hydrating, refresh, req, fault>>
        /\ out' = FALSE
    BY <1>2 DEF SignIn
  <2> QED BY <1>1, <2>1 DEF PageInv, PageTypes, CallsOK, KeptSignedIn, Live
<1>3. CASE SignInGoogle
  <2>1. /\ UNCHANGED <<cookie, tokens, tok, signedIn, fault>> /\ out' = FALSE /\ hydrating' = TRUE
        /\ refresh' = [k \in Refreshes |-> NoCall] /\ req' = [r \in AllReqs |-> NoCall]
    BY <1>3 DEF SignInGoogle
  <2>2. NoCall \in Call
    BY DEF NoCall, Call
  <2>3. PageTypes'
    BY <1>1, <2>1, <2>2 DEF PageInv, PageTypes
  <2>4. CallsOK'
    BY <2>1, FreshPage DEF CallsOK, RenewalOK, RequestOK, NoCall
  <2> QED BY <2>1, <2>3, <2>4 DEF PageInv, KeptSignedIn
<1> QED BY <1>2, <1>3

\* The answer to a sign-in.
LEMMA SignInAnswerKeepsPage ==
    ASSUME JobsInv, PageInv, SignInAnswer
    PROVE  PageInv'
<1> USE DEF storeVars
<1>0. /\ job[Me].pc = "reply" /\ JobOK(job[Me]) /\ ~out
      /\ UNCHANGED <<state, refresh, req, out>>
  BY BrowserAssumption DEF SignInAnswer, JobsInv, PageInv, SignedOut, NoJob
<1>1. CASE UNCHANGED <<cookie, tokens, tok, signedIn, hydrating, fault>>
  BY <1>0, <1>1 DEF PageInv, PageTypes, CallsOK, KeptSignedIn, Live
<1>2. CASE /\ cookie' = job[Me].sid /\ tokens' = Append(tokens, cookie')
           /\ Authenticated(Len(tokens'))
           /\ fault' = (~Quiet \/ logout # NoCall \/ \E r \in AllReqs : req[r] # NoCall)
  <2>1. cookie' \in 0 .. Len(state') /\ Len(tokens') \in Nat /\ fault' \in BOOLEAN
    BY <1>0, <1>2 DEF JobOK, PageInv, PageTypes
  <2>2. tok' = Len(tokens') /\ signedIn' = TRUE /\ hydrating' = FALSE
    BY <1>2 DEF Authenticated
  <2>3. PageTypes'
    BY <1>0, <2>1, <2>2 DEF PageInv, PageTypes
  <2>4. CallsOK'
    <3>1. CASE fault'
      BY <1>0, <3>1 DEF PageInv, CallsOK, RenewalOK, RequestOK
    <3>2. CASE ~fault'
      <4>1. (\A k \in Refreshes : refresh[k] = NoCall) /\ (\A r \in AllReqs : req[r] = NoCall)
        BY <1>2, <3>2 DEF Quiet
      <4> QED BY <1>0, <4>1 DEF CallsOK, RenewalOK, RequestOK, NoCall
    <3> QED BY <2>1, <3>1, <3>2
  <2> QED BY <1>0, <2>2, <2>3, <2>4 DEF PageInv, KeptSignedIn
<1> QED BY <1>1, <1>2 DEF SignInAnswer

\* A page load of a browser that was left signed in, or of a new one.
LEMMA PageInit == Init => PageInv
<1> SUFFICES ASSUME Init PROVE PageInv
  OBVIOUS
<1>1. cookie \in {0, 1}
  BY DEF Init
<1>2. PICK c \in Nat : c = cookie
  BY <1>1
<1>3. /\ refresh = [k \in Refreshes |-> IF k = "hydrate" THEN Sent(c, 0) ELSE NoCall]
      /\ req = [r \in AllReqs |-> NoCall] /\ tok = c /\ state = [s \in 1 .. c |-> "live"]
      /\ tokens = [t \in 1 .. c |-> t]
      /\ signedIn = FALSE /\ hydrating = TRUE /\ fault = FALSE /\ out = FALSE
  BY <1>2 DEF Init
<1>4. cookie \in 0 .. Len(state) /\ Len(tokens) \in Nat
  BY <1>1, <1>2, <1>3
<1>5. PageTypes
  BY <1>2, <1>3, <1>4, FreshPage DEF PageTypes
<1>6. CallsOK
  <2>1. \A k \in Refreshes : RenewalOK(refresh[k], c, FALSE)
    BY <1>3, FreshPage
  <2>2. \A r \in AllReqs : RequestOK(r, req[r], FALSE)
    BY <1>3, FreshPage
  <2> QED BY <1>2, <1>3, <2>1, <2>2 DEF CallsOK
<1> QED BY <1>3, <1>5, <1>6 DEF PageInv, KeptSignedIn

\* Every step keeps the browser's session invariant.
LEMMA PageStep == JobsInv /\ PageInv /\ [Next]_vars => PageInv'
<1> SUFFICES ASSUME JobsInv, PageInv, [Next]_vars PROVE PageInv'
  OBVIOUS
<1>1. ASSUME NEW k \in Refreshes, RefreshServe(k) \/ RefreshAnswer(k) PROVE PageInv'
  BY <1>1, RefreshServeKeepsPage, RefreshAnswerKeepsPage
<1>2. ASSUME NEW r \in AllReqs, RequestSend(r) \/ RequestServe(r) \/ RequestAnswer(r) PROVE PageInv'
  BY <1>2, RequestsKeepPage, RequestAnswerKeepsPage
<1>3. CASE NetError \/ LogoutAnswer
  BY <1>3, NetErrorKeepsPage, LogoutKeepsPage
<1>4. CASE Reload \/ GoogleRedirect
  BY <1>4, LoadsKeepPage
<1>5. CASE SignIn \/ SignInGoogle \/ SignInAnswer
  BY <1>5, SignInKeepsPage, SignInAnswerKeepsPage
<1>6. CASE \/ LogoutSend \/ LogoutServe \/ LogoutLost \/ TokensExpire \/ SessionsLapse
           \/ \E c \in Clients : OtherClient(c) \/ (AccountsStep(c) /\ UNCHANGED browserVars)
           \/ UNCHANGED vars
  BY <1>6, OthersKeepPage
<1> QED BY <1>1, <1>2, <1>3, <1>4, <1>5, <1>6 DEF Next

\* The invariant of the browser and of the handlers it talks to.
LEMMA PageInvariant == Spec => [](JobsInv /\ PageInv)
BY JobsInit, JobsStep, PageInit, PageStep, PTL DEF Spec

\* While no answer was lost and no retried request failed, a page whose refresh cookie names a
\* live session is signed in, however many requests meet an expired access token and share
\* the one renewal of http.ts.
THEOREM SessionIsKept == Spec => []KeptSignedIn
<1>1. JobsInv /\ PageInv => KeptSignedIn
  BY DEF PageInv
<1> QED BY PageInvariant, <1>1, PTL

\* Once logout has returned, with no renewal or sign-in in flight, requests that were under
\* way, renewals that they start and reloads of the page restore no session.
THEOREM SignOutIsFinal == Spec => []SignOutHolds
<1>1. JobsInv /\ PageInv => SignOutHolds
  BY DEF PageInv, SignedOut, SignOutHolds
<1> QED BY PageInvariant, <1>1, PTL
=============================================================================
