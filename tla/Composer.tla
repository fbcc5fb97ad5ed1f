------------------------------- MODULE Composer -------------------------------
(***************************************************************************)
(* The composer of the chat page: the draft attachment, the upload that    *)
(* handleSend makes of it, and the message that refers to the upload.      *)
(* handleSend runs from one await to the next on what it captured when it  *)
(* was called, while the user, and messages of Me that arrive from         *)
(* elsewhere (another tab, the chatbot's reply, which is stored under its  *)
(* requester), change the page.                                            *)
(*                                                                         *)
(* A file is known by the number of the choice that made it the draft.     *)
(* The routes for attachments are one step each here; Attachments has      *)
(* them await by await.  Me may be removed from a conversation, or leave   *)
(* it, and be added again at any time.                                     *)
(***************************************************************************)
EXTENDS Naturals, Sequences

CONSTANTS
    Convs,
    Slots,     \* bound: calls of handleSend that are under way at a time
    MaxFiles, MaxMsgs, MaxMoves  \* bounds

None == "none"
NoFile == 0
NoAtt == 0

VARIABLES
    atts,      \* chatattachments: conv, file (the object stored for it), status
    msgs,      \* Me's messages: conv, att, and, as a ghost, the file that was sent
    active,    \* conversations Me is an active participant of
    inbox,     \* message_delivered with Me's messages, on their way: msg, first (copy)
    selected,
    text,      \* the input is not empty
    draft,     \* draftAttachment: file, att (attachmentId), status
    sending,   \* sendingMessage
    files,     \* files chosen so far
    send,      \* calls of handleSend
    moves,
    missed,    \* ghost: Me's messages that were delivered to Me's pages through no
               \* user's room: Me was no active participant any more
    alone      \* ghost: no message of Me came from elsewhere, no call failed that may
               \* have stored its message, no second copy came to a composer in use, and
               \* no other call's error unlocked the composer

pageVars == <<selected, text, draft, sending, files>>
serverVars == <<atts, msgs, active, missed>>
vars == <<serverVars, inbox, pageVars, send, moves, alone>>

NoDraft == [file |-> NoFile, att |-> NoAtt, status |-> None]
Idle == [pc |-> "idle", conv |-> None, file |-> NoFile, att |-> NoAtt, msg |-> 0]
Running(s) == send[s].pc \notin {"idle", "late"}
Spend == moves > 0 /\ moves' = moves - 1

Init ==
    /\ atts = <<>> /\ msgs = <<>> /\ active = Convs /\ missed = {} /\ inbox = <<>>
    /\ selected = None /\ text = FALSE /\ draft = NoDraft /\ sending = FALSE /\ files = 0
    /\ send = [s \in Slots |-> Idle]
    /\ moves = MaxMoves /\ alone = TRUE

-----------------------------------------------------------------------------
(* The user.                                                               *)

\* Selecting another conversation, or leaving it, keeps text and draft, and
\* interrupts nothing.
Select(c) ==
    /\ c # selected /\ selected' = c
    /\ Spend
    /\ UNCHANGED <<serverVars, inbox, text, draft, sending, files, send, alone>>

\* The text area is disabled while sending; a suggestion can be taken at any time.
Type(t) ==
    /\ selected # None /\ t # text /\ text' = t
    /\ t \/ ~sending
    /\ UNCHANGED <<serverVars, inbox, selected, draft, sending, files, send, moves, alone>>

\* Mutant: a file can be chosen while a message is sent.
ChooseAnyTime ==
    /\ selected # None /\ draft = NoDraft
    /\ files < MaxFiles /\ files' = files + 1
    /\ draft' = [file |-> files', att |-> NoAtt, status |-> "pending"]
    /\ UNCHANGED <<serverVars, inbox, selected, text, sending, send, moves, alone>>

\* handleFileChange and handleUploadFile, for a file that is not refused.
ChooseFile ==
    /\ selected # None /\ ~sending /\ draft = NoDraft
    /\ files < MaxFiles /\ files' = files + 1
    /\ draft' = [file |-> files', att |-> NoAtt, status |-> "pending"]
    /\ UNCHANGED <<serverVars, inbox, selected, text, sending, send, moves, alone>>

\* onRemoveDraftAttachment: the button is there before the upload and after a failure.
RemoveDraft ==
    /\ draft.status \in {"pending", "failed"}
    /\ draft' = NoDraft
    /\ UNCHANGED <<serverVars, inbox, selected, text, sending, files, send, moves, alone>>

\* handleSend up to the first await.
Send(s) ==
    /\ send[s] = Idle
    /\ text \/ draft # NoDraft
    /\ selected # None /\ ~sending
    /\ sending' = TRUE
    /\ send' = [send EXCEPT ![s] = [pc |-> IF draft = NoDraft THEN "message" ELSE "presign",
                                    conv |-> selected, file |-> draft.file, att |-> NoAtt, msg |-> 0]]
    /\ Spend
    /\ UNCHANGED <<serverVars, inbox, selected, text, draft, files, alone>>

-----------------------------------------------------------------------------
(* The upload.  What a call reports is written on whatever draft there is. *)

OnDraft(status, att) ==
    draft' = IF draft = NoDraft THEN NoDraft ELSE [draft EXCEPT !.status = status, !.att = att]

\* getPresignedUploadUrl: a new attachment document.
Presign(s) ==
    /\ send[s].pc = "presign"
    /\ atts' = Append(atts, [conv |-> send[s].conv, file |-> NoFile, status |-> "draft"])
    /\ send' = [send EXCEPT ![s].pc = "put", ![s].att = Len(atts')]
    /\ OnDraft("uploading", Len(atts'))
    /\ UNCHANGED <<msgs, active, missed, inbox, selected, text, sending, files, moves, alone>>

\* onUploadProgress.
Progress(s) ==
    /\ send[s].pc = "put" /\ draft.status # "uploading"
    /\ OnDraft("uploading", draft.att)
    /\ UNCHANGED <<serverVars, inbox, selected, text, sending, files, send, moves, alone>>

\* uploadFileToPresignedUrl: the object store has the file.
Put(s) ==
    /\ send[s].pc = "put"
    /\ atts' = [atts EXCEPT ![send[s].att].file = send[s].file]
    /\ send' = [send EXCEPT ![s].pc = "mark"]
    /\ UNCHANGED <<msgs, active, missed, inbox, pageVars, moves, alone>>

\* markAttachmentUploaded.
Mark(s) ==
    /\ send[s].pc = "mark"
    /\ atts[send[s].att].status # "attached"
    /\ atts' = [atts EXCEPT ![send[s].att].status = "uploaded"]
    /\ send' = [send EXCEPT ![s].pc = "status"]
    /\ UNCHANGED <<msgs, active, missed, inbox, pageVars, moves, alone>>

\* getAttachmentStatus.
Status(s) ==
    /\ send[s].pc = "status"
    /\ OnDraft("uploaded", send[s].att)
    /\ send' = [send EXCEPT ![s].pc = "message"]
    /\ UNCHANGED <<serverVars, inbox, selected, text, sending, files, moves, alone>>

\* Mutant: the id is taken from the draft on display.
IdOfDraft(s) == IF send[s].file = NoFile THEN NoAtt ELSE draft.att

\* const attachmentId.
AttachmentId(s) == send[s].att

\* Mutant: only to the conversation's room.
CopiesRoomOnly(c, m, inRoom) == IF inRoom THEN <<[msg |-> m, first |-> TRUE]>> ELSE <<>>

\* emitRealtimeMessage: a copy by the conversation's room, if the page's socket is in
\* it, and one by the user's own room, if Me is still an active participant.
Copies(c, m, inRoom) ==
    LET copy(first) == [msg |-> m, first |-> first]
    IN IF c \notin active THEN IF inRoom THEN <<copy(TRUE)>> ELSE <<>>
       ELSE IF inRoom THEN <<copy(TRUE), copy(FALSE)>> ELSE <<copy(TRUE)>>

\* Rooms are joined and left behind the selection (ChatGateway has them): here the
\* socket is in the conversation's room or not.
Deliver(c, m) ==
    /\ \E inRoom \in BOOLEAN : inbox' = inbox \o Copies(c, m, inRoom)
    /\ missed' = IF c \in active THEN missed ELSE missed \cup {m}

\* The server has a request that it has not answered; "late": nobody waits for it.
Asked(s) == send[s].pc \in {"message", "late"}

\* sendMessage of the backend, for an active participant; the attachment is this
\* conversation's, uploaded and not in a message yet.  Me may be removed between the
\* check and the write, which is the same as right after the write.
Store(s) ==
    LET id == AttachmentId(s)
    IN /\ Asked(s) /\ send[s].msg = 0
       /\ send[s].conv \in active
       /\ Len(msgs) < MaxMsgs
       /\ id # NoAtt => atts[id].conv = send[s].conv /\ atts[id].status = "uploaded"
       /\ msgs' = Append(msgs, [conv |-> send[s].conv, att |-> id, file |-> send[s].file])
       /\ atts' = IF id = NoAtt THEN atts ELSE [atts EXCEPT ![id].status = "attached"]
       /\ send' = [send EXCEPT ![s].msg = Len(msgs')]
       /\ UNCHANGED <<active, missed, inbox, pageVars, moves, alone>>

\* The participants are read, the message is delivered to all of Me's pages, and the
\* call acknowledged, if it still waits.
Publish(s) ==
    /\ Asked(s) /\ send[s].msg # 0
    /\ Deliver(send[s].conv, send[s].msg)
    /\ send' = [send EXCEPT ![s] = IF @.pc = "late" THEN Idle ELSE [@ EXCEPT !.pc = "ack"]]
    /\ UNCHANGED <<atts, msgs, active, pageVars, moves, alone>>

\* The acknowledgement comes on the same connection.
Ack(s) ==
    /\ send[s].pc = "ack" /\ \A k \in DOMAIN inbox : inbox[k].msg # send[s].msg
    /\ send' = [send EXCEPT ![s].pc = "typing"]
    /\ UNCHANGED <<serverVars, inbox, pageVars, moves, alone>>

\* updateTypingPresence ends the call.
Done(s) ==
    /\ send[s].pc = "typing"
    /\ send' = [send EXCEPT ![s] = Idle]
    /\ UNCHANGED <<serverVars, inbox, pageVars, moves, alone>>

\* catch, for the draft on display.
Failed == IF draft = NoDraft THEN NoDraft ELSE [draft EXCEPT !.status = "failed"]

\* catch: an await of the call failed, was refused, or was not answered in time.
Fail(s) ==
    /\ Running(s)
    /\ send' = [send EXCEPT ![s] = Idle]
    /\ sending' = FALSE /\ draft' = Failed
    /\ alone' = (alone /\ send[s].msg = 0)
    /\ Spend
    /\ UNCHANGED <<serverVars, inbox, selected, text, files>>

\* emitWithAck gives up after 5 s, and the server goes on with the request ...
Timeout(s) ==
    /\ send[s].pc = "message"
    /\ send' = [send EXCEPT ![s].pc = "late"]
    /\ sending' = FALSE /\ draft' = Failed /\ alone' = FALSE
    /\ Spend
    /\ UNCHANGED <<serverVars, inbox, selected, text, files>>

\* ... unless an await of its own fails.
Abandon(s) ==
    /\ send[s].pc = "late"
    /\ send' = [send EXCEPT ![s] = Idle]
    /\ UNCHANGED <<serverVars, inbox, pageVars, moves, alone>>

-----------------------------------------------------------------------------
\* removeMember by somebody else, leaveConversation of Me, addMember.
Member(c) ==
    /\ active' = IF c \in active THEN active \ {c} ELSE active \cup {c}
    /\ Spend
    /\ UNCHANGED <<atts, msgs, missed, inbox, pageVars, send, alone>>

\* Another tab of Me, or the chatbot that answers Me.
Elsewhere(c) ==
    /\ Len(msgs) < MaxMsgs
    /\ msgs' = Append(msgs, [conv |-> c, att |-> NoAtt, file |-> NoFile])
    /\ Deliver(c, Len(msgs'))
    /\ alone' = FALSE
    /\ Spend
    /\ UNCHANGED <<atts, active, pageVars, send>>

\* A lost connection takes the events and the acknowledgements with it.
Disconnect ==
    /\ inbox # <<>> /\ inbox' = <<>>
    /\ send' = [s \in Slots |-> IF send[s].pc = "ack" THEN [send[s] EXCEPT !.pc = "unacked"] ELSE send[s]]
    /\ Spend
    /\ UNCHANGED <<serverVars, pageVars, alone>>

\* handleSocketError: the socket could not connect, or another call was refused.
SocketError ==
    /\ sending /\ sending' = FALSE /\ alone' = FALSE
    /\ Spend
    /\ UNCHANGED <<serverVars, inbox, selected, text, draft, files, send>>

\* handleIncomingMessage of a message of Me, whichever it is.
OwnDelivered ==
    /\ inbox # <<>> /\ inbox' = Tail(inbox)
    /\ text' = FALSE /\ sending' = FALSE /\ draft' = NoDraft
    /\ alone' = (alone /\ (Head(inbox).first \/ (draft = NoDraft /\ ~sending)))
    /\ UNCHANGED <<serverVars, selected, files, send, moves>>

Next ==
    \/ \E c \in Convs : Select(c) \/ Elsewhere(c) \/ Member(c)
    \/ Select(None)
    \/ \E t \in BOOLEAN : Type(t)
    \/ ChooseFile \/ RemoveDraft \/ OwnDelivered \/ Disconnect \/ SocketError
    \/ \E s \in Slots : \/ Send(s) \/ Presign(s) \/ Progress(s) \/ Put(s) \/ Mark(s)
                        \/ Status(s) \/ Store(s) \/ Publish(s) \/ Ack(s) \/ Done(s)
                        \/ Fail(s) \/ Timeout(s) \/ Abandon(s)

Spec == Init /\ [][Next]_vars

-----------------------------------------------------------------------------
\* A message carries the file that was the draft when its send button was
\* pressed, stored for its own conversation, and no other message carries the
\* same attachment - although drafts are replaced, calls overlap, and
\* conversations are switched while the upload runs.
FileAsChosen ==
    /\ \A m \in DOMAIN msgs :
          IF msgs[m].att = NoAtt THEN msgs[m].file = NoFile
          ELSE atts[msgs[m].att].file = msgs[m].file /\ atts[msgs[m].att].conv = msgs[m].conv
    /\ \A m, n \in DOMAIN msgs : m # n /\ msgs[m].att # NoAtt => msgs[m].att # msgs[n].att

\* A draft that is shown as being uploaded, which can neither be removed nor
\* replaced, has a call of handleSend behind it, or a message whose arrival will
\* clear it - unless it went out with a message whose sender was removed from the
\* conversation, or left it, before the participants were read for its delivery.
DraftNotStuck ==
    draft.status \in {"uploading", "uploaded"} =>
        \/ inbox # <<>> \/ \E s \in Slots : Running(s)
        \/ \E m \in missed : msgs[m].att = draft.att

\* While all of Me's messages come from this page, no call fails after its
\* message may have been stored, no second copy of a message comes to a
\* composer that is in use again, and no error of another call unlocks the
\* composer during a send, a message that arrives clears no draft but its
\* own: what is chosen while the message before it is on its way is kept.
DraftKept ==
    [][alone' /\ inbox # <<>> /\ inbox' = Tail(inbox) /\ draft # NoDraft /\ draft' = NoDraft
         => draft.file = msgs[Head(inbox).msg].file]_vars
=============================================================================
