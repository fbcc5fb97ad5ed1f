------------------------------ MODULE Accounts ------------------------------
(***************************************************************************)
(* Accounts of the web backend: local sign-up and sign-in, sign-in through *)
(* Google, and the audit records they leave.  A handler runs from one      *)
(* await to the next; the collection's unique indexes refuse an insert or  *)
(* a save that repeats an e-mail, a username or a Google id.               *)
(*                                                                         *)
(* Payloads have passed validateRegisterLocalAuthDto / validateLogin-      *)
(* LocalAuthDto and are normalised.  No code disables an account.  The     *)
(* processor's digest of a password is the operator Digest: it sees the    *)
(* first 63 bytes only, so two passwords may share a digest.               *)
(***************************************************************************)
EXTENDS SessionStore, FiniteSets

CONSTANTS
    Clients,    \* one handler in flight for each
    Emails, Names, Passwords,
    BaseName,   \* [Emails -> Names]: the part of the address before the @
    Digest,     \* [Passwords -> digests]
    Profiles,   \* the Google accounts that sign in: <<Google id, e-mail>>
    Seeds,      \* the account collections to start from
    MaxJobs,    \* [Clients -> Nat]: bound on the handlers each client starts
    MaxSessions \* bound on the sessions issued

None == "none"

\* A username is a name and the suffix resolveUsernameCollision gave it.
Username == Names \X Nat
GoogleIds == {g[1] : g \in Profiles}

User == [email : Emails, username : Username, googleId : GoogleIds \cup {None},
         digest : {Digest[w] : w \in Passwords} \cup {None}]

\* The unique indexes hold of the collections to start from.
ASSUME SeedsAssumption ==
    /\ Seeds \subseteq Seq(User)
    /\ \A us \in Seeds : \A u, v \in DOMAIN us : u # v =>
          /\ us[u].email # us[v].email
          /\ us[u].username # us[v].username
          /\ us[u].googleId # None => us[u].googleId # us[v].googleId

ASSUME ClientsAssumption == IsFiniteSet(Clients)

VARIABLES
    users,     \* the users collection
    attempts,  \* the authattempts collection: how many of each kind
    job,       \* job[c]: the handler serving client c
    started,   \* started[c]: the handlers client c has started
    aborted    \* history: how many handlers of each provider died of an exception

accountVars == <<users, attempts, job, started, aborted>>

Providers == {"register", "login", "google"}
Results == {"started", "succeeded", "failed"}

NoJob == [op |-> None, pc |-> "idle", email |-> None, username |-> None, googleId |-> None,
          digest |-> None, sid |-> 0]

AccountsInit ==
    /\ users \in Seeds
    /\ attempts = [k \in Providers \X Results |-> 0]
    /\ job = [c \in Clients |-> NoJob]
    /\ started = [c \in Clients |-> 0]
    /\ aborted = [o \in Providers |-> 0]

RecordAttempt(op, result) == attempts' = [attempts EXCEPT ![<<op, result>>] = @ + 1]

UserWith(email) == {u \in DOMAIN users : users[u].email = email}
NameTaken(name) == \E u \in DOMAIN users : users[u].username = name

\* The unique indexes on e-mail, username and (sparse) Google id.
Conflict(doc, self) ==
    \E u \in DOMAIN users \ self :
        \/ users[u].email = doc.email
        \/ users[u].username = doc.username
        \/ doc.googleId # None /\ users[u].googleId = doc.googleId

Goto(c, pc) == job' = [job EXCEPT ![c].pc = pc]

Free(c) == job[c] = NoJob /\ started[c] < MaxJobs[c]

Start(c, new) ==
    /\ Free(c)
    /\ job' = [job EXCEPT ![c] = new]
    /\ started' = [started EXCEPT ![c] = @ + 1]

Only(c, op, pc) ==
    /\ job[c].op \in op /\ job[c].pc = pc
    /\ UNCHANGED <<started, storeVars>>

-----------------------------------------------------------------------------
(* registerLocalAccount and loginLocalAccount.  Until it is hashed, the    *)
(* password travels in the field digest.                                   *)

RegisterLocalAccount(c, email, name, password) ==
    /\ Start(c, [NoJob EXCEPT !.op = "register", !.pc = "email", !.email = email,
                              !.username = <<name, 0>>, !.digest = password])
    /\ RecordAttempt("register", "started")
    /\ UNCHANGED <<users, aborted, storeVars>>

CheckEmail(c) ==
    /\ Only(c, {"register"}, "email")
    /\ Goto(c, IF UserWith(job[c].email) # {} THEN "reject" ELSE "name")
    /\ UNCHANGED <<users, attempts, aborted>>

CheckName(c) ==
    /\ Only(c, {"register"}, "name")
    /\ Goto(c, IF NameTaken(job[c].username) THEN "reject" ELSE "hash")
    /\ UNCHANGED <<users, attempts, aborted>>

LoginLocalAccount(c, email, password) ==
    /\ Start(c, [NoJob EXCEPT !.op = "login", !.pc = "user", !.email = email, !.digest = password])
    /\ RecordAttempt("login", "started")
    /\ UNCHANGED <<users, aborted, storeVars>>

\* Unknown address, or an account without a password of its own.
FindUser(c) ==
    /\ Only(c, {"login"}, "user")
    /\ Goto(c, IF \E u \in UserWith(job[c].email) : users[u].digest # None
                 THEN "hash" ELSE "reject")
    /\ UNCHANGED <<users, attempts, aborted>>

\* Mutant: a processor failure is reported without an audit record.
HashPasswordSilent(c) ==
    /\ Only(c, {"register", "login"}, "hash")
    /\ \/ job' = [job EXCEPT ![c].digest = Digest[@],
                             ![c].pc = IF job[c].op = "login" THEN "compare" ELSE "create"]
       \/ job' = [job EXCEPT ![c].pc = "reply", ![c].digest = None]
    /\ UNCHANGED <<users, attempts, aborted>>

\* hashPasswordWithSha1: the processor answers, or it does not.
HashPassword(c) ==
    /\ Only(c, {"register", "login"}, "hash")
    /\ \/ job' = [job EXCEPT ![c].digest = Digest[@],
                             ![c].pc = IF job[c].op = "login" THEN "compare" ELSE "create"]
       \/ job' = [job EXCEPT ![c].pc = "reject", ![c].digest = None]
    /\ UNCHANGED <<users, attempts, aborted>>

\* The document was read before the password was hashed.
ComparePassword(c) ==
    /\ Only(c, {"login"}, "compare")
    /\ Goto(c, IF \E u \in UserWith(job[c].email) : users[u].digest = job[c].digest
                 THEN "issue" ELSE "reject")
    /\ UNCHANGED <<users, attempts, aborted>>

-----------------------------------------------------------------------------
(* upsertGoogleUser, from the callback of the Google strategy.             *)

GoogleCallback(c, profile) ==
    /\ Start(c, [NoJob EXCEPT !.op = "google", !.pc = "user", !.googleId = profile[1],
                              !.email = profile[2]])
    /\ UNCHANGED <<users, attempts, aborted, storeVars>>

FindGoogleUser(c) ==
    /\ Only(c, {"google"}, "user")
    /\ job' = IF UserWith(job[c].email) # {}
                THEN [job EXCEPT ![c].pc = "save"]
                ELSE [job EXCEPT ![c].pc = "suffix", ![c].username = <<BaseName[job[c].email], 0>>]
    /\ UNCHANGED <<users, attempts, aborted>>

\* resolveUsernameCollision: one exists() per candidate.
TryUsername(c) ==
    LET name == job[c].username
    IN /\ Only(c, {"google"}, "suffix")
       /\ job' = IF NameTaken(name) THEN [job EXCEPT ![c].username = <<name[1], name[2] + 1>>]
                                    ELSE [job EXCEPT ![c].pc = "create"]
       /\ UNCHANGED <<users, attempts, aborted>>

\* An exception ends the handler; no outcome is recorded.
Abort(c) ==
    /\ aborted' = [aborted EXCEPT ![job[c].op] = @ + 1]
    /\ job' = [job EXCEPT ![c] = [@ EXCEPT !.pc = "reply", !.sid = 0]]
    /\ UNCHANGED <<users, attempts, started, storeVars>>

\* The existing account is linked; save() writes the modified paths only.
LinkGoogle(c) ==
    /\ Only(c, {"google"}, "save")
    /\ \E u \in UserWith(job[c].email) :
          LET doc == [users[u] EXCEPT !.googleId = job[c].googleId]
          IN /\ ~Conflict(doc, {u})
             /\ users' = [users EXCEPT ![u] = doc]
    /\ Goto(c, "issue")
    /\ UNCHANGED <<attempts, aborted>>

NewUser(c) ==
    [email |-> job[c].email, username |-> job[c].username, googleId |-> job[c].googleId,
     digest |-> job[c].digest]

\* Mutant: the schema loses its unique indexes.
CreateUserUnindexed(c) ==
    /\ Only(c, {"register", "google"}, "create")
    /\ users' = Append(users, NewUser(c))
    /\ Goto(c, "issue")
    /\ UNCHANGED <<attempts, aborted>>

CreateUser(c) ==
    /\ Only(c, {"register", "google"}, "create")
    /\ ~Conflict(NewUser(c), {})
    /\ users' = Append(users, NewUser(c))
    /\ Goto(c, "issue")
    /\ UNCHANGED <<attempts, aborted>>

\* E11000: another handler took the address, the name or the Google id.
DuplicateKey(c) ==
    \/ /\ Only(c, {"register", "google"}, "create")
       /\ Conflict(NewUser(c), {})
       /\ Abort(c)
    \/ /\ Only(c, {"google"}, "save")
       /\ \E u \in UserWith(job[c].email) :
             Conflict([users[u] EXCEPT !.googleId = job[c].googleId], {u})
       /\ Abort(c)

-----------------------------------------------------------------------------
(* The common end.                                                         *)

IssueTokenPair(c) ==
    /\ job[c].pc = "issue" /\ Len(state) < MaxSessions
    /\ Issue
    /\ job' = [job EXCEPT ![c].pc = "succeed", ![c].sid = Len(state')]
    /\ UNCHANGED <<users, attempts, started, aborted>>

Succeed(c) ==
    /\ Only(c, Providers, "succeed")
    /\ RecordAttempt(job[c].op, "succeeded")
    /\ Goto(c, "reply")
    /\ UNCHANGED <<users, aborted>>

Reject(c) ==
    /\ Only(c, Providers, "reject")
    /\ RecordAttempt(job[c].op, "failed")
    /\ Goto(c, "reply")
    /\ UNCHANGED <<users, aborted>>

\* An awaited database call is rejected.
DatabaseError(c) ==
    /\ job[c].pc \notin {"idle", "reply", "hash", "compare"}
    /\ Abort(c)

AccountsStep(c) ==
    \/ CheckEmail(c) \/ CheckName(c) \/ FindUser(c) \/ HashPassword(c) \/ ComparePassword(c)
    \/ FindGoogleUser(c) \/ TryUsername(c) \/ LinkGoogle(c) \/ CreateUser(c) \/ DuplicateKey(c)
    \/ IssueTokenPair(c) \/ Succeed(c) \/ Reject(c) \/ DatabaseError(c)

-----------------------------------------------------------------------------
\* However sign-ups and Google sign-ins interleave between their checks and
\* their inserts, no two accounts share an e-mail, a username or a Google id.
OneAccountPerAddress ==
    \A u, v \in DOMAIN users : u # v =>
        /\ users[u].email # users[v].email
        /\ users[u].username # users[v].username
        /\ users[u].googleId # None => users[u].googleId # users[v].googleId

\* Every local attempt on record as started is still in flight, has exactly one
\* outcome on record, or died of a rejected database call.
AttemptsAccounted ==
    \A op \in {"register", "login"} :
        LET inFlight == {c \in Clients : job[c].op = op /\ job[c].pc # "reply"}
        IN attempts[<<op, "started">>] =
              attempts[<<op, "succeeded">>] + attempts[<<op, "failed">>] + aborted[op]
              + Cardinality(inFlight)
=============================================================================
