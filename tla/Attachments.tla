----------------------------- MODULE Attachments -----------------------------
(***************************************************************************)
(* The life of an attachment before it is sent: a draft is created with a  *)
(* presigned URL, the client uploads to the object store and reports it,   *)
(* and sendMessage attaches it (module Messages).                          *)
(***************************************************************************)
EXTENDS Messages

\* File names, MIME types and sizes are checked before anything is read.
GeneratePresignedUploadUrl(p) ==
    \E u \in Users, k \in DOMAIN convs :
        Begin(p, "presign", [Idle EXCEPT !.op = "presign", !.pc = "guard", !.user = u, !.conv = k])

InsertDraft(p) ==
    LET c == call[p]
    IN /\ At(p, "presign", "insert")
       /\ files' = Append(files, [conv |-> c.conv, uploader |-> c.user, status |-> "draft",
                                  msg |-> 0])
       /\ Return(p)
       /\ UNCHANGED <<convs, rows, events, msgs, world, opened>>

MarkAttachmentUploaded(p) ==
    \E u \in Users, k \in DOMAIN convs, f \in DOMAIN files :
        Begin(p, "confirm", [Idle EXCEPT !.op = "confirm", !.pc = "guard", !.user = u,
                                         !.conv = k, !.file = f])

\* The document is read and checked; flag tells whether assigning "uploaded"
\* modifies its status path.
FindFile(p) ==
    LET c == call[p]
        f == files[c.file]
    IN /\ At(p, "confirm", "file")
       /\ IF f.conv = c.conv /\ f.uploader = c.user /\ f.status # "attached"
            THEN call' = [call EXCEPT ![p].flag = (f.status # "uploaded"), ![p].pc = "saveFile"]
            ELSE Return(p)
       /\ UNCHANGED <<store, world, opened>>

\* save() writes the modified paths by _id, whatever they are by now.
SaveUploaded(p) ==
    LET c == call[p]
    IN /\ At(p, "confirm", "saveFile")
       /\ files' = [files EXCEPT ![c.file].status = IF c.flag THEN "uploaded" ELSE @]
       /\ Return(p)
       /\ UNCHANGED <<convs, rows, events, msgs, world, opened>>

\* generatePresignedDownloadUrl grants the file to u.
Downloadable(f, u) == files[f].status = "attached" /\ ActiveRows(files[f].conv, u) # {}

AttachmentRequest(p) == GeneratePresignedUploadUrl(p) \/ MarkAttachmentUploaded(p)

AttachmentStep(p) == InsertDraft(p) \/ FindFile(p) \/ SaveUploaded(p)
=============================================================================
