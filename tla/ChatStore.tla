------------------------------ MODULE ChatStore ------------------------------
(***************************************************************************)
(* The MongoDB collections the chat backend keeps, and the handlers that   *)
(* are in flight on it.                                                    *)
(*                                                                         *)
(* The backend is one Node.js process: a handler runs without interruption *)
(* between two awaits, and every awaited MongoDB call is atomic on the     *)
(* documents it touches.  So one step of a handler is one awaited call     *)
(* together with the synchronous code around it, and any other handler may *)
(* run between two steps.  No call is made inside a transaction.           *)
(*                                                                         *)
(* A collection is a sequence of documents, a document's id its index.     *)
(* Documents are inserted and updated, never deleted.                      *)
(***************************************************************************)
EXTENDS Naturals, Sequences, FiniteSets

CONSTANTS
    Users,        \* accounts
    None,         \* "no user": an actorUserId that is left undefined
    Procs,        \* slots for handlers that may be in flight together
    Seeds,        \* the stores the instance starts from
    Ops,          \* the requests clients issue ("bot": sends that address the chatbot)
    MaxRequests,  \* bound on the number of requests
    MaxFailures,  \* bound on the number of handlers cut short by an error
    MaxClock      \* bound on the millisecond clock

OpNames == {"create", "add", "remove", "leave", "send", "read", "presign", "confirm", "bot"}

ASSUME NoneAssumption == None \notin Users
ASSUME SeedsAssumption == Seeds \subseteq {"empty", "direct", "group"}
ASSUME OpsAssumption == Ops \subseteq OpNames
ASSUME BoundsAssumption ==
    MaxRequests \in Nat /\ MaxFailures \in Nat /\ MaxClock \in Nat

VARIABLES
    convs,     \* conversations
    rows,      \* conversationparticipants
    events,    \* membershipevents
    msgs,      \* messages
    files,     \* chatattachments
    clock,     \* new Date(), in milliseconds
    call,      \* call[p]: the handler in slot p with the values it holds
    started,   \* requests issued so far
    failures,  \* handlers cut short so far
    overlap,   \* history: two handlers were in flight together
    opened     \* history: the reads that markConversationRead recorded

store == <<convs, rows, events, msgs, files>>
world == <<clock, started, failures, overlap>>
vars == <<store, world, call, opened>>

-----------------------------------------------------------------------------
(* Documents. *)

Conversation == [type : {"direct", "group"}, createdBy : Users, lastMessageAt : Nat]

\* joined is the creation point of the row among the messages (joinedAt).
Participant ==
    [conv : Nat, user : Users, role : {"member", "admin", "owner"},
     status : {"active", "left", "removed"}, unread : Nat, lastRead : Nat, joined : Nat]

MembershipEvent ==
    [conv : Nat, type : {"joined", "added", "left", "removed"},
     target : Users, actor : Users \cup {None}]

\* file is the id of the attachment the message carries, 0 if it has none.
Message == [conv : Nat, sender : Users, sentAt : Nat, seen : BOOLEAN, file : Nat]

\* msg is the messageId written when the attachment is sent, 0 before.
Attachment ==
    [conv : Nat, uploader : Users, status : {"draft", "uploaded", "attached"}, msg : Nat]

\* A read that was recorded: user had fetched a latest message sent at time at.
ReadRecord == [conv : Nat, user : Users, at : Nat]

-----------------------------------------------------------------------------
(* Handlers in flight. *)

Pcs == {"idle", "guard", "find", "check", "insert", "insertRow", "insertEvent", "update",
        "event", "restore", "restoreRow", "file", "stamp", "saveFile", "touch", "own",
        "unread", "bot", "botInsert", "botTouch", "botUnread", "latest", "zero", "others",
        "seen"}

(* What a handler holds between two awaits:                                *)
(*   user the caller, peer the user acted on, conv the conversation,       *)
(*   row the participant document it fetched for the caller,               *)
(*   who the users of a new conversation, todo those still to be handled,  *)
(*   ids fetched row or conversation ids still to be handled,              *)
(*   file the attachment, msg the message written or fetched, at its       *)
(*   timestamp, flag: the chatbot is addressed (send), the document is a   *)
(*   group (create) or the status path is modified (confirm).              *)
Call ==
    [op : OpNames \cup {"idle"}, pc : Pcs, user : Users \cup {None},
     peer : Users \cup {None}, conv : Nat, row : Nat, who : SUBSET Users,
     todo : SUBSET Users, ids : SUBSET Nat, file : Nat, msg : Nat, at : Nat,
     flag : BOOLEAN]

Idle ==
    [op |-> "idle", pc |-> "idle", user |-> None, peer |-> None, conv |-> 0, row |-> 0,
     who |-> {}, todo |-> {}, ids |-> {}, file |-> 0, msg |-> 0, at |-> 0, flag |-> FALSE]

TypeOK ==
    /\ convs \in Seq(Conversation)
    /\ rows \in Seq(Participant)
    /\ events \in Seq(MembershipEvent)
    /\ msgs \in Seq(Message)
    /\ files \in Seq(Attachment)
    /\ clock \in Nat
    /\ call \in [Procs -> Call]
    /\ started \in Nat
    /\ failures \in Nat
    /\ overlap \in BOOLEAN
    /\ opened \subseteq ReadRecord

\* The store before the first request, or the one that a completed
\* createConversation by u for u and v leaves behind.
Seed(s, u, v) ==
    /\ convs = IF s = "empty" THEN << >>
               ELSE <<[type |-> s, createdBy |-> u, lastMessageAt |-> 0]>>
    /\ rows = IF s = "empty" THEN << >>
              ELSE <<[conv |-> 1, user |-> u, role |-> "owner", status |-> "active",
                      unread |-> 0, lastRead |-> 0, joined |-> 0],
                     [conv |-> 1, user |-> v, role |-> "member", status |-> "active",
                      unread |-> 0, lastRead |-> 0, joined |-> 0]>>
    /\ events = IF s = "empty" THEN << >>
                ELSE <<[conv |-> 1, type |-> "joined", target |-> u, actor |-> None],
                       [conv |-> 1, type |-> "added", target |-> v, actor |-> u]>>

Init ==
    /\ \E s \in Seeds, u, v \in Users : u # v /\ Seed(s, u, v)
    /\ msgs = << >>
    /\ files = << >>
    /\ clock = 1
    /\ call = [p \in Procs |-> Idle]
    /\ started = 0
    /\ failures = 0
    /\ overlap = FALSE
    /\ opened = {}

At(p, op, pc) == call[p].op = op /\ call[p].pc = pc

\* The handler moves on to the await labelled pc.
Goto(p, pc) == call' = [call EXCEPT ![p].pc = pc]

\* The handler returns to its client, with a result or with an error.
Return(p) == call' = [call EXCEPT ![p] = Idle]

\* A request arrives and its handler starts; rejections made before the
\* first await (validation of the body) change nothing and are not listed.
Begin(p, op, request) ==
    /\ op \in Ops
    /\ started < MaxRequests
    /\ call[p] = Idle
    /\ call' = [call EXCEPT ![p] = request]
    /\ started' = started + 1
    /\ overlap' = (overlap \/ \E q \in Procs : call[q] # Idle)
    /\ UNCHANGED <<store, clock, failures, opened>>

\* The awaited call of the handler is rejected (or the process is restarted):
\* the exception leaves the handler and nothing already written is undone.
Fail(p) ==
    /\ call[p] # Idle
    /\ failures < MaxFailures
    /\ failures' = failures + 1
    /\ Return(p)
    /\ UNCHANGED <<store, clock, started, overlap, opened>>

Tick ==
    /\ clock < MaxClock
    /\ clock' = clock + 1
    /\ UNCHANGED <<store, started, failures, overlap, call, opened>>

-----------------------------------------------------------------------------
(* Queries. *)

RowsOf(c) == {i \in DOMAIN rows : rows[i].conv = c}

\* getActiveParticipant: the documents findOne may return.
ActiveRows(c, u) ==
    {i \in DOMAIN rows : rows[i].conv = c /\ rows[i].user = u /\ rows[i].status = "active"}

\* getActiveParticipants, by user.
ActiveUsers(c) == {u \in Users : ActiveRows(c, u) # {}}

MessagesOf(c) == {i \in DOMAIN msgs : msgs[i].conv = c}

\* findOne(...).sort({ sentAt: -1 }): ties are broken by the database.
LatestMessages(c) ==
    {i \in MessagesOf(c) : \A j \in MessagesOf(c) : msgs[j].sentAt <= msgs[i].sentAt}

Quiescent == \A p \in Procs : call[p] = Idle
=============================================================================
