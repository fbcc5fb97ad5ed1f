------------------------------- MODULE Messages -------------------------------
(***************************************************************************)
(* Messages, unread counters and seen state: sendMessage with the          *)
(* restoration of a direct conversation's members and the attachment it    *)
(* may carry, the chatbot's reply (sendAiBotMessage), markConversationRead.*)
(***************************************************************************)
EXTENDS Conversations

NewMessage(c, u, at, file) ==
    [conv |-> c, sender |-> u, sentAt |-> at, seen |-> FALSE, file |-> file]

\* Message content is abstracted; an empty message is refused before the
\* first await.  flag: the content addresses the chatbot.
SendMessage(p) ==
    \E u \in Users, k \in DOMAIN convs, f \in 0..Len(files), ai \in BOOLEAN :
        /\ ai => "bot" \in Ops
        /\ Begin(p, "send", [Idle EXCEPT !.op = "send", !.pc = "guard", !.user = u, !.conv = k,
                                         !.file = f, !.flag = ai])

\* What follows the restoration: the attachment's checks, if there is one.
AfterRestore(p) == IF call[p].file = 0 THEN "stamp" ELSE "file"

\* Mutant: restoration is not limited to direct conversations.
RestoreReadAnyType(p) ==
    LET c == call[p]
        gone == {i \in RowsOf(c.conv) : rows[i].user # c.user /\ rows[i].status = "left"}
    IN /\ At(p, "send", "restore")
       /\ call' = [call EXCEPT ![p].ids = gone,
                               ![p].pc = IF gone = {} THEN AfterRestore(p) ELSE "restoreRow"]
       /\ UNCHANGED <<store, world, opened>>

\* restoreDirectParticipantsIfNeeded, the reads: in a direct conversation, the
\* rows of the others that are "left".
RestoreRead(p) ==
    LET c == call[p]
        gone == {i \in RowsOf(c.conv) : /\ convs[c.conv].type = "direct"
                                        /\ rows[i].user # c.user
                                        /\ rows[i].status = "left"}
    IN /\ At(p, "send", "restore")
       /\ call' = [call EXCEPT ![p].ids = gone,
                               ![p].pc = IF gone = {} THEN AfterRestore(p) ELSE "restoreRow"]
       /\ UNCHANGED <<store, world, opened>>

\* Mutant: a restored row is restored again.
RestoreRowAgain(p) ==
    \E i \in call[p].ids :
        /\ At(p, "send", "restoreRow")
        /\ rows' = [rows EXCEPT ![i].status = "active"]
        /\ UNCHANGED <<convs, events, msgs, files, world, call, opened>>

\* The updates, sent together, each by the _id of the row: whatever the
\* status has become meanwhile.
RestoreRow(p) ==
    \E i \in call[p].ids :
        LET left == call[p].ids \ {i}
        IN /\ At(p, "send", "restoreRow")
           /\ rows' = [rows EXCEPT ![i].status = "active"]
           /\ call' = [call EXCEPT ![p].ids = left,
                                   ![p].pc = IF left = {} THEN AfterRestore(p) ELSE "restoreRow"]
           /\ UNCHANGED <<convs, events, msgs, files, world, opened>>

\* Mutant: the uploader is not compared with the sender.
CheckFileNotOwner(p) ==
    LET f == files[call[p].file]
    IN /\ At(p, "send", "file")
       /\ IF f.conv = call[p].conv /\ f.status = "uploaded" THEN Goto(p, "stamp") ELSE Return(p)
       /\ UNCHANGED <<store, world, opened>>

\* The attachment must exist in this conversation, be the sender's and be
\* uploaded; otherwise the handler throws (after the restoration).
CheckFile(p) ==
    LET f == files[call[p].file]
    IN /\ At(p, "send", "file")
       /\ IF f.conv = call[p].conv /\ f.uploader = call[p].user /\ f.status = "uploaded"
            THEN Goto(p, "stamp")
            ELSE Return(p)
       /\ UNCHANGED <<store, world, opened>>

\* The content is encrypted remotely; when the answer is there the document is
\* built, with sentAt = new Date(), and handed to the driver.
Stamp(p) ==
    /\ At(p, "send", "stamp")
    /\ call' = [call EXCEPT ![p].at = clock, ![p].pc = "insert"]
    /\ UNCHANGED <<store, world, opened>>

InsertMessage(p) ==
    LET c == call[p]
    IN /\ At(p, "send", "insert")
       /\ msgs' = Append(msgs, NewMessage(c.conv, c.user, c.at, c.file))
       /\ call' = [call EXCEPT ![p].msg = Len(msgs) + 1,
                               ![p].pc = IF c.file = 0 THEN "touch" ELSE "saveFile"]
       /\ UNCHANGED <<convs, rows, events, files, world, opened>>

\* Mutant: the messageId is saved but the status is not.
SaveFileKeepsStatus(p) ==
    LET c == call[p]
    IN /\ At(p, "send", "saveFile")
       /\ files' = [files EXCEPT ![c.file].msg = c.msg]
       /\ Goto(p, "touch")
       /\ UNCHANGED <<convs, rows, events, msgs, world, opened>>

\* attachmentDocument.save() writes the modified paths by _id.
SaveFile(p) ==
    LET c == call[p]
    IN /\ At(p, "send", "saveFile")
       /\ files' = [files EXCEPT ![c.file].msg = c.msg, ![c.file].status = "attached"]
       /\ Goto(p, "touch")
       /\ UNCHANGED <<convs, rows, events, msgs, world, opened>>

TouchConversation(p) ==
    /\ At(p, "send", "touch")
    /\ convs' = [convs EXCEPT ![call[p].conv].lastMessageAt = call[p].at]
    /\ Goto(p, "own")
    /\ UNCHANGED <<rows, events, msgs, files, world, opened>>

\* Mutant: the sender's own counter is not cleared.
OwnRowKeepsUnread(p) ==
    LET c == call[p]
    IN /\ At(p, "send", "own")
       /\ rows' = [rows EXCEPT ![c.row].lastRead = c.msg]
       /\ Goto(p, "unread")
       /\ UNCHANGED <<convs, events, msgs, files, world, opened>>

\* The sender has read up to its own message.
OwnRow(p) ==
    LET c == call[p]
    IN /\ At(p, "send", "own")
       /\ rows' = [rows EXCEPT ![c.row].lastRead = c.msg, ![c.row].unread = 0]
       /\ Goto(p, "unread")
       /\ UNCHANGED <<convs, events, msgs, files, world, opened>>

\* incrementUnreadForOtherParticipants: one updateMany.
IncrementOthers(c, u) ==
    [i \in DOMAIN rows |-> IF rows[i].conv = c /\ rows[i].user # u /\ rows[i].status = "active"
                             THEN [rows[i] EXCEPT !.unread = @ + 1]
                             ELSE rows[i]]

\* The send is complete; a chatbot command goes on in the background.
IncrementUnread(p) ==
    LET c == call[p]
    IN /\ At(p, "send", "unread")
       /\ rows' = IncrementOthers(c.conv, c.user)
       /\ IF c.flag THEN Goto(p, "bot") ELSE Return(p)
       /\ UNCHANGED <<convs, events, msgs, files, world, opened>>

-----------------------------------------------------------------------------
(* The chatbot's answer is posted in the requester's name, with no check.  *)

\* The model answers; an empty answer ends the job.
BotAnswer(p) ==
    /\ At(p, "send", "bot")
    /\ \/ Return(p)
       \/ call' = [call EXCEPT ![p].at = clock, ![p].pc = "botInsert"]
    /\ UNCHANGED <<store, world, opened>>

BotInsert(p) ==
    LET c == call[p]
    IN /\ At(p, "send", "botInsert")
       /\ msgs' = Append(msgs, NewMessage(c.conv, c.user, c.at, 0))
       /\ Goto(p, "botTouch")
       /\ UNCHANGED <<convs, rows, events, files, world, opened>>

BotTouch(p) ==
    /\ At(p, "send", "botTouch")
    /\ convs' = [convs EXCEPT ![call[p].conv].lastMessageAt = call[p].at]
    /\ Goto(p, "botUnread")
    /\ UNCHANGED <<rows, events, msgs, files, world, opened>>

BotUnread(p) ==
    LET c == call[p]
    IN /\ At(p, "send", "botUnread")
       /\ rows' = IncrementOthers(c.conv, c.user)
       /\ Return(p)
       /\ UNCHANGED <<convs, events, msgs, files, world, opened>>

-----------------------------------------------------------------------------
(* markConversationRead *)

MarkConversationRead(p) ==
    \E u \in Users, k \in DOMAIN convs :
        Begin(p, "read", [Idle EXCEPT !.op = "read", !.pc = "guard", !.user = u, !.conv = k])

ReadLatest(p) ==
    LET latest == LatestMessages(call[p].conv)
    IN /\ At(p, "read", "latest")
       /\ \/ latest = {} /\ Goto(p, "zero")
          \/ \E m \in latest :
                call' = [call EXCEPT ![p].msg = m, ![p].at = msgs[m].sentAt, ![p].pc = "own"]
       /\ UNCHANGED <<store, world, opened>>

ReadZero(p) ==
    /\ At(p, "read", "zero")
    /\ rows' = [rows EXCEPT ![call[p].row].unread = 0]
    /\ Return(p)
    /\ UNCHANGED <<convs, events, msgs, files, world, opened>>

ReadOwn(p) ==
    LET c == call[p]
    IN /\ At(p, "read", "own")
       /\ rows' = [rows EXCEPT ![c.row].lastRead = c.msg, ![c.row].unread = 0]
       /\ opened' = opened \cup {[conv |-> c.conv, user |-> c.user, at |-> c.at]}
       /\ Goto(p, "others")
       /\ UNCHANGED <<convs, events, msgs, files, world>>

ReadOthers(p) ==
    LET others == ActiveUsers(call[p].conv) \ {call[p].user}
    IN /\ At(p, "read", "others")
       /\ IF others = {} THEN Return(p)
                         ELSE call' = [call EXCEPT ![p].todo = others, ![p].pc = "seen"]
       /\ UNCHANGED <<store, world, opened>>

\* Mutant: the bound on sentAt is dropped.
SeenAll(c) ==
    [i \in DOMAIN msgs |-> IF msgs[i].conv = c.conv /\ msgs[i].sender \in c.todo
                             THEN [msgs[i] EXCEPT !.seen = TRUE]
                             ELSE msgs[i]]

\* updateMany: the others' messages up to the latest one that was fetched.
SeenUpTo(c) ==
    [i \in DOMAIN msgs |->
        IF msgs[i].conv = c.conv /\ msgs[i].sender \in c.todo /\ msgs[i].sentAt <= c.at
          THEN [msgs[i] EXCEPT !.seen = TRUE]
          ELSE msgs[i]]

ReadSeen(p) ==
    /\ At(p, "read", "seen")
    /\ msgs' = SeenUpTo(call[p])
    /\ Return(p)
    /\ UNCHANGED <<convs, rows, events, files, world, opened>>

MessageRequest(p) == SendMessage(p) \/ MarkConversationRead(p)

MessageStep(p) ==
    \/ RestoreRead(p) \/ RestoreRow(p) \/ CheckFile(p) \/ Stamp(p) \/ InsertMessage(p)
    \/ SaveFile(p) \/ TouchConversation(p) \/ OwnRow(p) \/ IncrementUnread(p)
    \/ BotAnswer(p) \/ BotInsert(p) \/ BotTouch(p) \/ BotUnread(p)
    \/ ReadLatest(p) \/ ReadZero(p) \/ ReadOwn(p) \/ ReadOthers(p) \/ ReadSeen(p)
=============================================================================
