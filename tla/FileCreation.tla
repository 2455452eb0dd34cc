------------------------------ MODULE FileCreation ------------------------------
(***************************************************************************)
(* Creating a Google document from a dialog in a channel:                  *)
(* handleFileCreation (server/plugin/api.go), handleFilePermissions and    *)
(* sendFileCreatedMessage (server/plugin/create.go).  One user, Owner,     *)
(* submits one dialog after the other, while people join and leave the     *)
(* channel.                                                                *)
(*                                                                         *)
(* Users are numbered in the order of their names, in which Mattermost     *)
(* lists a channel's members.  Whether a permission lets one view, comment *)
(* or edit makes no difference here, nor does the kind of document.        *)
(***************************************************************************)
EXTENDS Naturals, FiniteSets, Sequences

CONSTANTS
    User,       \* the users of the Mattermost server
    Owner,      \* the one who submits the dialog
    Bots,
    Anyone,     \* the grantee of a permission of type "anyone"
    PerPage,    \* the 100 users on a page
    MaxShares,  \* the 60 of "i > 60"
    Faults      \* subset of {"google", "mattermost"}: the calls that may fail

ASSUME UserAssumption ==
    User \subseteq Nat /\ IsFiniteSet(User) /\ Owner \in User /\ Bots \subseteq User
ASSUME AnyoneAssumption == Anyone \notin User
ASSUME NumberAssumption == PerPage \in Nat \ {0} /\ MaxShares \in Nat
ASSUME FaultAssumption == Faults \subseteq {"google", "mattermost"}

VARIABLES
    members,          \* Mattermost: who is in the channel
    created,          \* Google: the request's document exists
    access,           \* Google: the grantees of its permissions
    posted,           \* Mattermost: the channel has a post about it
    named,            \* Mattermost: grantees Owner was told have no access
    pc,               \* the handler's place
    request,          \* the dialog: its channel, "File Access", "Share in this Channel"
    page,             \* getAllChannelUsers: local variable
    permissions,      \* handleFilePermissions: the grantees, in order
    next,             \* handleFilePermissions: i
    permissionError,  \* handleFilePermissions: it is set
    without,          \* handleFilePermissions: usersWithoutAccess
    answer,           \* what the dialog got
    was,              \* history: Owner has been in the channel since the submission
    stayed,           \* history: those in the channel ever since the submission
    denied,           \* history: grantees whose permission failed
    excused           \* history: the member list slipped or broke off, no service
                      \* could be built, or the message to Owner was lost

environment == <<members, was, stayed>>
results == <<created, access, posted, named>>
locals == <<page, permissions, next, permissionError, without>>
vars == <<members, created, access, posted, named, pc, request, page, permissions, next,
          permissionError, without, answer, was, stayed, denied, excused>>

\* The grantees of "Members of the channel can ...".
Invited(u) == u \notin Bots /\ u # Owner
Grantee == {u \in User : Invited(u)} \cup {Anyone}

\* "private", "members_..." and "all_...".  Without a channel there are no members.
Request == [channel : BOOLEAN, access : {"private", "members", "all"}, share : BOOLEAN]

\* "none" is no answer yet and "" the empty one of a success; the others are error
\* dialogs: not a member, not created, permissions failed to apply, failed to share.
Answer == {"none", "", "forbidden", "failed", "noAccess", "notShared"}

TypeOK ==
    /\ members \subseteq User /\ stayed \subseteq members
    /\ created \in BOOLEAN /\ posted \in BOOLEAN /\ was \in BOOLEAN /\ excused \in BOOLEAN
    /\ access \subseteq Grantee /\ named \subseteq Grantee
    /\ denied \subseteq Grantee /\ without \subseteq Grantee
    /\ pc \in {"idle", "check", "create", "list", "service", "grant", "send"}
    /\ request \in Request /\ answer \in Answer
    /\ page \in 0 .. Cardinality(User)
    /\ permissions \in Seq(Grantee)
    /\ next \in 0 .. Len(permissions)
    /\ permissionError \in BOOLEAN

Init ==
    /\ members \in SUBSET User
    /\ created = FALSE /\ access = {} /\ posted = FALSE /\ named = {}
    /\ pc = "idle"
    /\ request = [channel |-> TRUE, access |-> "private", share |-> FALSE]
    /\ page = 0 /\ permissions = <<>> /\ next = 0
    /\ permissionError = FALSE /\ without = {}
    /\ answer = "none"
    /\ was = FALSE /\ stayed = {} /\ denied = {} /\ excused = FALSE

-----------------------------------------------------------------------------
(* The channel.                                                            *)

Join(u) ==
    /\ u \notin members
    /\ members' = members \cup {u}
    /\ was' = (was \/ u = Owner)
    /\ UNCHANGED <<results, pc, request, locals, answer, stayed, denied, excused>>

\* Pages are cut by offset: those after a leaver move up by one place, perhaps
\* to a page that has been read.
Leave(u) ==
    /\ u \in members
    /\ members' = members \ {u} /\ stayed' = stayed \ {u}
    /\ excused' = (excused \/ (pc = "list" /\ page > 0))
    /\ UNCHANGED <<results, pc, request, locals, answer, was, denied>>

-----------------------------------------------------------------------------
(* The handler.                                                            *)

Submit(r) ==
    /\ pc = "idle"
    /\ pc' = "check" /\ request' = r
    /\ created' = FALSE /\ access' = {} /\ posted' = FALSE /\ named' = {}
    /\ page' = 0 /\ permissions' = <<>> /\ next' = 0
    /\ permissionError' = FALSE /\ without' = {}
    /\ was' = (Owner \in members) /\ stayed' = members
    /\ denied' = {} /\ excused' = FALSE
    /\ answer' = "none"
    /\ UNCHANGED members

\* Ends the request.
Reply(a) == pc' = "idle" /\ answer' = a

\* (A mistake the checks must find: the membership is not looked up.)
CheckNothing ==
    /\ pc = "check" /\ pc' = "create"
    /\ UNCHANGED <<environment, results, request, locals, answer, denied, excused>>

\* p.API.GetChannelMember.
CheckMember ==
    /\ pc = "check"
    /\ \/ (request.channel => Owner \in members) /\ pc' = "create" /\ UNCHANGED answer
       \/ request.channel /\ (Owner \in members => "mattermost" \in Faults)
          /\ Reply("forbidden")
    /\ UNCHANGED <<environment, results, request, locals, denied, excused>>

\* srv.Create of Docs, Slides or Sheets.  The answer of a call that succeeded
\* may be lost.
CreateFile ==
    /\ pc = "create"
    /\ \/ created' = TRUE /\ pc' = (IF request.access = "members" THEN "list" ELSE "service")
          /\ UNCHANGED answer
       \/ "google" \in Faults /\ created' \in BOOLEAN /\ Reply("failed")
    /\ permissions' = IF request.access = "all" THEN <<Anyone>> ELSE <<>>
    /\ UNCHANGED <<environment, access, posted, named, request, page, next, permissionError,
                   without, denied, excused>>

\* How many of the set come before u.
Rank(u, set) == Cardinality({v \in set : v < u})

\* The users of a set, in the order of their names.
InOrder(set) == [i \in 1 .. Cardinality(set) |-> CHOOSE u \in set : Rank(u, set) = i - 1]

\* Who is in the answer of p.API.GetUsersInChannel(channelID, "username", page, perPage).
UsersInChannel ==
    {u \in members : request.channel /\ Rank(u, members) \div PerPage = page}

\* (A mistake: a permission for everyone on the page.)
ListEveryone ==
    /\ pc = "list"
    /\ IF UsersInChannel # {}
       THEN /\ permissions' = permissions \o InOrder(UsersInChannel)
            /\ page' = page + 1 /\ UNCHANGED pc
       ELSE pc' = "service" /\ UNCHANGED <<page, permissions>>
    /\ UNCHANGED <<environment, results, request, next, permissionError, without, answer,
                   denied, excused>>

\* One turn of getAllChannelUsers; an error ends it like an empty page.
List ==
    /\ pc = "list"
    /\ \/ /\ UsersInChannel # {}
          /\ permissions' = permissions \o InOrder({u \in UsersInChannel : Invited(u)})
          /\ page' = page + 1
          /\ UNCHANGED <<pc, excused>>
       \/ /\ UsersInChannel # {} => "mattermost" \in Faults
          /\ pc' = "service"
          /\ excused' = (excused \/ UsersInChannel # {} \/ ~request.channel)
          /\ UNCHANGED <<permissions, page>>
    /\ UNCHANGED <<environment, results, request, next, permissionError, without, answer,
                   denied>>

NewDriveService ==
    /\ pc = "service"
    /\ \/ pc' = "grant" /\ UNCHANGED <<answer, excused>>
       \/ "google" \in Faults /\ Reply("noAccess") /\ excused' = TRUE
    /\ UNCHANGED <<environment, results, request, locals, denied>>

\* driveService.CreatePermission.  One that fails may have been created all the same.
Created(g) == access' = access \cup {g} /\ UNCHANGED denied
Fails(g) ==
    /\ "google" \in Faults
    /\ denied' = denied \cup {g}
    /\ access' \in {access, access \cup {g}}

\* The user behind a grantee's e-mail address is looked up to be named.  There is
\* none behind a link: the handler panics, withRecovery answers nothing.
Name(g) ==
    IF g = Anyone
    THEN Reply("") /\ UNCHANGED <<next, without>>
    ELSE without' = without \cup {g} /\ next' = next + 1 /\ UNCHANGED <<pc, answer>>

\* (A mistake: the loop ends at the limit or at the first error.)
GrantStops ==
    /\ pc = "grant" /\ next < Len(permissions)
    /\ LET g == permissions[next + 1] IN
       IF permissionError \/ next > MaxShares
       THEN next' = Len(permissions)
            /\ UNCHANGED <<pc, access, denied, permissionError, without, answer>>
       ELSE \/ /\ Created(g) /\ next' = next + 1
               /\ UNCHANGED <<pc, permissionError, without, answer>>
            \/ Fails(g) /\ permissionError' \in {permissionError, TRUE} /\ Name(g)
    /\ UNCHANGED <<environment, created, posted, named, request, page, permissions, excused>>

\* One turn of the loop over permissions.  After an error, or beyond the limit,
\* the others are only named; "shareOutNotPermitted" is no such error.
Grant ==
    /\ pc = "grant" /\ next < Len(permissions)
    /\ LET g == permissions[next + 1] IN
       IF permissionError \/ next > MaxShares
       THEN Name(g) /\ UNCHANGED <<access, denied, permissionError>>
       ELSE \/ /\ Created(g) /\ next' = next + 1
               /\ UNCHANGED <<pc, permissionError, without, answer>>
            \/ Fails(g) /\ permissionError' \in {permissionError, TRUE} /\ Name(g)
    /\ UNCHANGED <<environment, created, posted, named, request, page, permissions, excused>>

\* "Failed to share file ... with the following users": createBotDMPost only logs
\* a failure.
Tell ==
    /\ pc = "grant" /\ next = Len(permissions)
    /\ \/ named' = named \cup without /\ UNCHANGED excused
       \/ without # {} /\ "mattermost" \in Faults /\ excused' = TRUE /\ UNCHANGED named
    /\ IF permissionError THEN Reply("noAccess") ELSE pc' = "send" /\ UNCHANGED answer
    /\ UNCHANGED <<environment, created, access, posted, request, locals, denied>>

\* sendFileCreatedMessage: everything before the post only reads.
Send ==
    /\ pc = "send"
    /\ \/ (request.share => request.channel) /\ posted' = request.share /\ Reply("")
       \/ (Faults # {} \/ (request.share /\ ~request.channel))
          /\ Reply("notShared") /\ UNCHANGED posted
    /\ UNCHANGED <<environment, created, access, named, request, locals, denied, excused>>

Handle ==
    CheckMember \/ CreateFile \/ List \/ NewDriveService \/ Grant \/ Tell \/ Send

Next ==
    \/ \E u \in User : Join(u) \/ Leave(u)
    \/ \E r \in Request : Submit(r)
    \/ Handle

Spec == Init /\ [][Next]_vars

-----------------------------------------------------------------------------
\* "This check must happen before file creation to prevent orphaned files"
\* (api.go:394): who is not in the channel at any time of a request creates no
\* document by it, shares none with the channel's members and posts nothing.
OnlyMembersCreate ==
    request.channel /\ ~was => ~created /\ access = {} /\ ~posted

\* "Continue through the permissions loop when we encounter an error so we can
\* inform the user who wasn't granted access" (create.go:155): when a document for
\* the members of a channel has been dealt with, everybody who was there all the
\* time has access, or Owner was told that he has not, whatever Google refused,
\* however many they are and whoever came and went meanwhile.  (Set apart: a
\* member list that broke off or lost a member to paging, a message that failed.)
EveryMemberAccounted ==
    pc = "idle" /\ request.access = "members" /\ answer \in {"", "noAccess", "notShared"}
        /\ ~excused
        => \A u \in stayed : Invited(u) => u \in access \cup named

\* The same comment, of any permission: what Google refuses is told to Owner, in
\* the dialog or by message.
DeniedIsTold == pc = "idle" /\ answer = "" => denied \subseteq named
=============================================================================
