-------------------------------- MODULE Uploads --------------------------------
(***************************************************************************)
(* The dialogs that upload a post's files to the user's Google Drive and   *)
(* answer a Google comment from its notification: handleFileUpload,        *)
(* handleAllFilesUpload, openCommentReplyDialog and                        *)
(* handleCommentReplyDialog (server/plugin/api.go).  One user submits one      *)
(* request after the other.                                                *)
(***************************************************************************)
EXTENDS Naturals, FiniteSets, Sequences, SequencesExt

CONSTANTS
    File,          \* the files attached to a post
    Comment,       \* Google comments; the notification of each is a thread
    MaxRequests,   \* bound: replies the user sends
    UploadFaults   \* subset of {"google", "mattermost"}: the calls that may fail

ASSUME UploadsAssumption ==
    IsFiniteSet(File) /\ IsFiniteSet(Comment) /\ MaxRequests \in Nat
ASSUME UploadFaultAssumption == UploadFaults \subseteq {"google", "mattermost"}

VARIABLES
    stored,    \* Google: how often the current request has stored each file
    replies,   \* Google: the replies to each comment
    threads,   \* Mattermost: the posts in each thread about a reply
    dialogs,   \* Mattermost: the open reply dialogs, [comment, State]
    place,     \* where the handler is
    fileIDs,   \* handlers: the files still to be uploaded
    submitted, \* what was submitted
    response,  \* what the user was told
    sent,      \* bound: reply dialogs submitted so far
    half,      \* history: how often each comment's answer was "half"
    errors     \* history: how often each comment's answer was "failed"

drive == <<stored, replies>>
mattermost == <<threads, dialogs>>
history == <<sent, half, errors>>
uploadVars == <<stored, replies, threads, dialogs, place, fileIDs, submitted, response, sent,
                half, errors>>

Dialog == [comment : Comment, root : Comment]
OneFile == [kind : {"one"}, files : {{f} : f \in File}]
AllFiles == [kind : {"all"}, files : SUBSET File]
CommentReply == [kind : {"reply"}, dialog : Dialog]

\* "failed" is the error dialog that says that something went wrong; "half" is
\* "Comment created but failed to create post"; "" is an empty answer, and after
\* an upload comes with "Successfully uploaded".
Response == {"none", "", "failed", "half"}

UploadsTypeOK ==
    /\ stored \in [File -> Nat]
    /\ replies \in [Comment -> 0 .. MaxRequests] /\ threads \in [Comment -> 0 .. MaxRequests]
    /\ dialogs \subseteq Dialog
    /\ place \in {"idle", "post", "service", "info", "create", "reply", "message"}
    /\ fileIDs \in Seq(File)
    /\ submitted \in OneFile \cup AllFiles \cup CommentReply
    /\ response \in Response
    /\ sent \in 0 .. MaxRequests
    /\ half \in [Comment -> 0 .. MaxRequests] /\ errors \in [Comment -> 0 .. MaxRequests]

UploadsInit ==
    /\ stored = [f \in File |-> 0]
    /\ replies = [c \in Comment |-> 0] /\ threads = [c \in Comment |-> 0]
    /\ dialogs = {}
    /\ place = "idle" /\ fileIDs = <<>>
    /\ submitted = [kind |-> "all", files |-> {}]
    /\ response = "none"
    /\ sent = 0 /\ half = [c \in Comment |-> 0] /\ errors = [c \in Comment |-> 0]

-----------------------------------------------------------------------------
Goto(label) == place' = label /\ UNCHANGED <<response, history>>

\* Ends the request.
Respond(r) ==
    /\ place' = "idle" /\ response' = r
    /\ LET counted(count, a) == IF submitted.kind = "reply" /\ r = a
                                THEN [count EXCEPT ![submitted.dialog.comment] = @ + 1] ELSE count
       IN  half' = counted(half, "half") /\ errors' = counted(errors, "failed")
    /\ UNCHANGED sent
Breaks(party) == party \in UploadFaults /\ Respond("failed")

\* (A mistake the checks must find: the dialog has no State.)
OpenStatelessDialog(c) ==
    /\ dialogs' = dialogs \cup {[comment |-> c, root |-> ""]}
    /\ UNCHANGED <<drive, threads, place, fileIDs, submitted, response, history>>

\* openCommentReplyDialog: the comment travels in the dialog's URL and the
\* notification's post in its State.
OpenReplyDialog(c) ==
    /\ dialogs' = dialogs \cup {[comment |-> c, root |-> c]}
    /\ UNCHANGED <<drive, threads, place, fileIDs, submitted, response, history>>

\* A dialog is submitted: for one file of a post, whose ID is in the form, for all
\* of them, or with a reply.
SubmitDialog(r) ==
    /\ place = "idle"
    /\ IF r.kind = "reply" THEN r.dialog \in dialogs /\ sent < MaxRequests /\ sent' = sent + 1
       ELSE UNCHANGED sent
    /\ submitted' = r
    /\ stored' = [f \in File |-> 0]
    /\ place' = CASE r.kind = "one" -> "info"
                  [] r.kind = "all" -> "post"
                  [] r.kind = "reply" -> "service"
    /\ response' = "none"
    /\ fileIDs' = IF r.kind = "one" THEN SetToSeq(r.files) ELSE <<>>
    /\ UNCHANGED <<replies, mattermost, half, errors>>

\* GetPost: its FileIds, in the post's order.
GetPost ==
    /\ place = "post"
    /\ \/ Goto("service") /\ fileIDs' = SetToSeq(submitted.files)
       \/ Breaks("mattermost") /\ UNCHANGED fileIDs
    /\ UNCHANGED <<drive, mattermost, submitted>>

GetDriveService ==
    /\ place = "service"
    /\ \/ Goto(CASE submitted.kind = "one" -> "create"
                [] submitted.kind = "all" -> "info"
                [] submitted.kind = "reply" -> "reply")
       \/ Breaks("google")
    /\ UNCHANGED <<drive, mattermost, fileIDs, submitted>>

\* GetFileInfo and GetFile of the next file, or the message after the last.
GetFile ==
    /\ place = "info"
    /\ \/ /\ fileIDs # <<>>
          /\ Goto(IF submitted.kind = "one" THEN "service" ELSE "create") \/ Breaks("mattermost")
       \/ fileIDs = <<>> /\ Respond("")
    /\ UNCHANGED <<drive, mattermost, fileIDs, submitted>>

\* (A mistake the checks must find: a file that fails is passed over.)
Store == stored' = [stored EXCEPT ![Head(fileIDs)] = @ + 1]
CreateDriveFileOrGoOn ==
    /\ place = "create"
    /\ Store \/ ("google" \in UploadFaults /\ UNCHANGED stored)
    /\ Goto("info") /\ fileIDs' = Tail(fileIDs)
    /\ UNCHANGED <<replies, mattermost, submitted>>

\* driveService.CreateFile; the answer of an upload that succeeded may be lost.
CreateDriveFile ==
    /\ place = "create"
    /\ \/ Store /\ Goto("info") /\ fileIDs' = Tail(fileIDs)
       \/ Breaks("google") /\ (Store \/ UNCHANGED stored) /\ UNCHANGED fileIDs
    /\ UNCHANGED <<replies, mattermost, submitted>>

\* driveService.CreateReply; its answer may be lost too.
AddReply == replies' = [replies EXCEPT ![submitted.dialog.comment] = @ + 1]
CreateReply ==
    /\ place = "reply"
    /\ \/ AddReply /\ Goto("message")
       \/ Breaks("google") /\ (AddReply \/ UNCHANGED replies)
    /\ UNCHANGED <<stored, mattermost, fileIDs, submitted>>

\* (A mistake: an error when posting is not reported.)
CreatePostQuietly ==
    /\ place = "message"
    /\ \/ threads' = [threads EXCEPT ![submitted.dialog.root] = @ + 1]
       \/ "mattermost" \in UploadFaults /\ UNCHANGED threads
    /\ Respond("") /\ dialogs' = dialogs \ {submitted.dialog}
    /\ UNCHANGED <<drive, fileIDs, submitted>>

\* "You replied to this comment with ...", in the notification's thread.
CreatePost ==
    /\ place = "message"
    /\ \/ /\ threads' = [threads EXCEPT ![submitted.dialog.root] = @ + 1]
          /\ Respond("") /\ dialogs' = dialogs \ {submitted.dialog}
       \/ "mattermost" \in UploadFaults /\ Respond("half") /\ UNCHANGED mattermost
    /\ UNCHANGED <<drive, fileIDs, submitted>>

UploadsNext ==
    \/ \E c \in Comment : OpenReplyDialog(c)
    \/ \E r \in OneFile \cup AllFiles \cup CommentReply : SubmitDialog(r)
    \/ GetPost \/ GetDriveService \/ GetFile \/ CreateDriveFile \/ CreateReply \/ CreatePost

UploadsSpec == UploadsInit /\ [][UploadsNext]_uploadVars

-----------------------------------------------------------------------------
\* "Successfully uploaded all files in Google Drive." (api.go:947) is said only when
\* each of the post's files is there, and the request has put none there twice,
\* whatever failed on the way.
UploadedMeansAll ==
    submitted.kind # "reply" =>
        /\ \A f \in File : stored[f] <= (IF f \in submitted.files THEN 1 ELSE 0)
        /\ response = "" => \A f \in submitted.files : stored[f] = 1

\* "Comment created but failed to create post" (api.go:837): between requests, every
\* reply Google has is accounted for, by a post in the comment's own thread, by that
\* answer, or at worst by an error, and no post or answer tells of one it has not.
RepliesAccounted ==
    place = "idle" \/ submitted.kind # "reply" =>
        \A c \in Comment :
            /\ threads[c] + half[c] <= replies[c]
            /\ replies[c] <= threads[c] + half[c] + errors[c]
=============================================================================
