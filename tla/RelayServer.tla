----------------------------- MODULE RelayServer -----------------------------
(***************************************************************************)
(* The C chat relay (app/server): one thread per connection, the table of  *)
(* online users behind a mutex, the account file behind another.           *)
(*                                                                         *)
(* A step is what a thread does under one lock, or one system call that    *)
(* other threads can notice.  Socket descriptors are numbers the kernel    *)
(* hands out again once they are closed.  Message contents and passwords   *)
(* are abstracted: a login request carries the right password or not.      *)
(* handle_select_peer_request changes only selected_peer, which acks echo  *)
(* and nothing reads; it is left out.                                      *)
(***************************************************************************)
EXTENDS Naturals, FiniteSets

CONSTANTS
    Users,      \* user names
    None,       \* the empty user name
    Conns,      \* connections that may be open at the same time
    MaxOnline   \* CHAT_MAX_ONLINE_USERS

ASSUME NoneAssumption == None \notin Users
ASSUME MaxOnlineAssumption == MaxOnline \in Nat
ASSUME ConnsAssumption == IsFiniteSet(Conns)

VARIABLES
    accounts,   \* the names in the user database file
    table,      \* g_online_users
    session,    \* session[t]: what the thread of connection t holds
    switched    \* history: a session gave up its user name without leaving

vars == <<accounts, table, session, switched>>

Slots == 1..MaxOnline
Fds == 1..Cardinality(Conns)

\* user = None: the slot is not active.
Entry == [user : Users \cup {None}, fd : Nat]
Free == [user |-> None, fd |-> 0]

(* pc    gone: no connection; run: waiting for a request; register, write:  *)
(*       in the middle of a login, of a delivery; close: unregistered, the  *)
(*       descriptor still open.                                             *)
(* name  the user a request is about; dest  the descriptor looked up for it *)
(* hung  the client has closed its end.                                     *)
Session ==
    [pc : {"gone", "run", "register", "write", "close"}, fd : Nat, auth : BOOLEAN,
     user : Users \cup {None}, name : Users \cup {None}, dest : Nat, hung : BOOLEAN]

Gone ==
    [pc |-> "gone", fd |-> 0, auth |-> FALSE, user |-> None, name |-> None, dest |-> 0,
     hung |-> FALSE]

TypeOK ==
    /\ accounts \subseteq Users
    /\ table \in [Slots -> Entry]
    /\ session \in [Conns -> Session]
    /\ switched \in BOOLEAN

Init ==
    /\ accounts = {}
    /\ table = [i \in Slots |-> Free]
    /\ session = [t \in Conns |-> Gone]
    /\ switched = FALSE

Open(t) == session[t].pc # "gone"
OpenFds == {session[t].fd : t \in {c \in Conns : Open(c)}}

\* find_online_user_index
SlotsOf(u) == {i \in Slots : table[i].user = u}
Online(u) == u # None /\ SlotsOf(u) # {}

\* The first slot that is not active.
FirstFree == {i \in Slots : table[i] = Free /\ \A j \in Slots : table[j] = Free => i <= j}

Put(t, s) == session' = [session EXCEPT ![t] = s]

-----------------------------------------------------------------------------
(* main: accept() returns the lowest free descriptor and a thread starts.  *)
Accept(t) ==
    \E fd \in Fds \ OpenFds :
        /\ ~Open(t)
        /\ \A g \in Fds \ OpenFds : fd <= g
        /\ Put(t, [Gone EXCEPT !.pc = "run", !.fd = fd])
        /\ UNCHANGED <<accounts, table, switched>>

\* The client closes its connection, or dies, at any time.
HangUp(t) ==
    /\ Open(t) /\ ~session[t].hung
    /\ session' = [session EXCEPT ![t].hung = TRUE]
    /\ UNCHANGED <<accounts, table, switched>>

\* A thread takes a request (it may have been sent before the client left).
Ready(t) == session[t].pc = "run"

\* handle_register_request: server_register_user appends a new name.
HandleRegister(t) ==
    \E u \in Users \ accounts :
        /\ Ready(t)
        /\ accounts' = accounts \cup {u}
        /\ UNCHANGED <<table, session, switched>>

\* Mutant: a failed login leaves the session authenticated.
LoginRefusedKeepsAuth(t) ==
    /\ Ready(t)
    /\ session' = [session EXCEPT ![t].user = None]
    /\ switched' = (switched \/ session[t].user # None)
    /\ UNCHANGED <<accounts, table>>

\* handle_login_request, refused (unknown user or wrong password): the session
\* forgets its user; the table of online users is not touched.
LoginRefused(t) ==
    /\ Ready(t)
    /\ session' = [session EXCEPT ![t].auth = FALSE, ![t].user = None]
    /\ switched' = (switched \/ session[t].user # None)
    /\ UNCHANGED <<accounts, table>>

\* server_validate_login accepted the password of u.
LoginAccepted(t) ==
    \E u \in accounts :
        /\ Ready(t)
        /\ session' = [session EXCEPT ![t].pc = "register", ![t].name = u]
        /\ UNCHANGED <<accounts, table, switched>>

\* Mutant: the look-up of the name under the lock is dropped.
LoginRegisterAgain(t) ==
    LET s == session[t]
    IN /\ s.pc = "register"
       /\ IF FirstFree = {}
            THEN /\ Put(t, [s EXCEPT !.pc = "run", !.name = None])
                 /\ UNCHANGED <<table, switched>>
            ELSE /\ \E i \in FirstFree : table' = [table EXCEPT ![i] = [user |-> s.name, fd |-> s.fd]]
                 /\ Put(t, [s EXCEPT !.pc = "run", !.name = None, !.auth = TRUE, !.user = s.name])
                 /\ switched' = (switched \/ s.user # None)
       /\ UNCHANGED accounts

\* register_online_user, then the session: refused if the name is online or
\* the table is full, and then the session stays as it was.
LoginRegister(t) ==
    LET s == session[t]
    IN /\ s.pc = "register"
       /\ IF Online(s.name) \/ FirstFree = {}
            THEN /\ Put(t, [s EXCEPT !.pc = "run", !.name = None])
                 /\ UNCHANGED <<table, switched>>
            ELSE /\ \E i \in FirstFree : table' = [table EXCEPT ![i] = [user |-> s.name, fd |-> s.fd]]
                 /\ Put(t, [s EXCEPT !.pc = "run", !.name = None, !.auth = TRUE, !.user = s.name])
                 /\ switched' = (switched \/ s.user # None)
       /\ UNCHANGED accounts

\* handle_chat_request up to get_online_user_fd; refusals only send an ack.
ChatLookup(t) ==
    \E u \in Users : \E i \in SlotsOf(u) :
        /\ Ready(t)
        /\ session[t].auth
        /\ session' = [session EXCEPT ![t].pc = "write", ![t].name = u, ![t].dest = table[i].fd]
        /\ UNCHANGED <<accounts, table, switched>>

\* write_full to the descriptor that was looked up, and the ack, with no lock
\* held: the descriptor may have been closed or given to someone else.
ChatWrite(t) ==
    /\ session[t].pc = "write"
    /\ session' = [session EXCEPT ![t].pc = "run", ![t].name = None, ![t].dest = 0]
    /\ UNCHANGED <<accounts, table, switched>>

\* Mutant: the descriptor is closed first and the entry is left behind.
UnregisterNothing(t) ==
    /\ Ready(t)
    /\ session' = [session EXCEPT ![t].pc = "close"]
    /\ UNCHANGED <<accounts, table, switched>>

\* Mutant: a connection that never logged in is not cleaned up.
UnregisterNamedOnly(t) ==
    LET u == session[t].user
    IN /\ Ready(t)
       /\ u # None
       /\ \/ Online(u) /\ \E i \in SlotsOf(u) : table' = [table EXCEPT ![i] = Free]
          \/ ~Online(u) /\ UNCHANGED table
       /\ session' = [session EXCEPT ![t].pc = "close"]
       /\ UNCHANGED <<accounts, switched>>

\* A logout request or the end of the stream: unregister_online_user on the
\* name the session has now, if it has one.
Unregister(t) ==
    LET u == session[t].user
    IN /\ Ready(t)
       /\ \/ Online(u) /\ \E i \in SlotsOf(u) : table' = [table EXCEPT ![i] = Free]
          \/ ~Online(u) /\ UNCHANGED table
       /\ session' = [session EXCEPT ![t].pc = "close"]
       /\ UNCHANGED <<accounts, switched>>

Close(t) ==
    /\ session[t].pc = "close"
    /\ Put(t, Gone)
    /\ UNCHANGED <<accounts, table, switched>>

\* A thread writes to a connection whose client has left: SIGPIPE is not
\* handled, so the process dies; it is started again with the same file.
Killed(t) ==
    /\ Open(t) /\ session[t].hung
    /\ table' = [i \in Slots |-> Free]
    /\ session' = [c \in Conns |-> Gone]
    /\ switched' = FALSE
    /\ UNCHANGED accounts

\* The steps of a thread that do not wait for its client.
ThreadStep(t) == LoginRegister(t) \/ ChatWrite(t) \/ Close(t)

\* read_full meets the end of the stream.
EndOfStream(t) == session[t].hung /\ Unregister(t)

Next ==
    \E t \in Conns :
        \/ Accept(t) \/ HangUp(t) \/ HandleRegister(t)
        \/ LoginRefused(t) \/ LoginAccepted(t) \/ LoginRegister(t)
        \/ ChatLookup(t) \/ ChatWrite(t)
        \/ Unregister(t) \/ Close(t) \/ Killed(t)

\* Threads are scheduled; and as a client that has left sends nothing more, only
\* finitely many requests come before the end of its stream.
Fairness == \A t \in Conns : WF_vars(ThreadStep(t)) /\ SF_vars(EndOfStream(t))

Spec == Init /\ [][Next]_vars /\ Fairness

-----------------------------------------------------------------------------
\* The session of t still stands for its connection.
Serving(t) == session[t].pc \in {"run", "register", "write"}

\* Two connections are never logged in under the same name, however logins,
\* failed logins, logouts and disconnections of both interleave.
OneSessionPerUser ==
    \A s, t \in Conns :
        /\ Serving(s) /\ Serving(t)
        /\ session[s].user # None /\ session[s].user = session[t].user
        => s = t

\* A session that is authenticated can be reached: the table of online users
\* leads from its name to its own descriptor.
AuthenticatedReachable ==
    \A t \in Conns : Serving(t) /\ session[t].auth =>
        /\ session[t].user # None
        /\ \E i \in Slots : table[i] = [user |-> session[t].user, fd |-> session[t].fd]

\* As long as no connection logs in twice, every entry of the table belongs to
\* a connection that is being served under that name: a client that leaves
\* takes its entry along, and its name is free again.
EntriesOwned ==
    ~switched => \A i \in Slots : table[i] # Free =>
        \E t \in Conns : /\ Serving(t)
                         /\ table[i] = [user |-> session[t].user, fd |-> session[t].fd]

\* A connection whose client has left is eventually closed.
HungUpIsClosed == \A t \in Conns : session[t].hung ~> session[t].pc = "gone"
=============================================================================
