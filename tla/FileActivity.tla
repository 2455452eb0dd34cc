------------------------------ MODULE FileActivity ------------------------------
(***************************************************************************)
(* What handleDriveWatchNotifications (server/plugin/api.go) does for ONE  *)
(* changed file: it decides whether the user has seen the change, asks     *)
(* Google for the file's activities since the last one reported, and posts *)
(* them to the user.  The mutex of WatchChannel lets one webhook at a time *)
(* do this for a user, and every key holds the file ID, so one process and *)
(* one file suffice; the file's life at Google goes on meanwhile.          *)
(*                                                                         *)
(* Times are 1, 2, ... and at most one thing happens at a time; 0 is the   *)
(* empty string.  A removed file (change.File == nil) and a time that does *)
(* not parse end the handling at once and are left out.                    *)
(***************************************************************************)
EXTENDS Naturals, FiniteSets, FiniteSetsExt

CONSTANTS
    Kinds,       \* the kinds of activity that happen, see Kind
    FirstViews,  \* when the user may have opened the file: 0 is never
    QueryPage,   \* activities in one page of an answer of Google
    Many,        \* the 5 of "more than 5 activities"
    MaxQueries,  \* the 5 of "for range 5"
    MaxTime,     \* bound: nothing happens after this
    ActivityFaults  \* subset of {"query", "post", "kv", "crash"}

\* "own" is done by the user; a "suggestion" is a comment activity without a
\* Post; an "edit" is neither a comment nor a permission change.
Kind == {"comment", "share", "suggestion", "own", "edit"}
Listed == {"comment", "share", "suggestion"}
Posted == {"comment", "share"}

ASSUME KindAssumption == Kinds \subseteq Kind
ASSUME TimeAssumption ==
    /\ FirstViews \subseteq {0, 1} /\ QueryPage \in Nat \ {0} /\ Many \in Nat
    /\ MaxQueries \in Nat \ {0} /\ MaxTime \in Nat \ {0}
ASSUME ActivityFaultAssumption == ActivityFaults \subseteq {"query", "post", "kv", "crash"}

VARIABLES
    now,               \* Google: the time
    log,               \* Google: the activity at each time, or "none"
    modified,          \* Google: File.ModifiedTime
    viewed,            \* Google: File.ViewedByMeTime
    changed,           \* Google: Change.Time of the unread change, or 0
    lastActivity,      \* KV: last_activity-<userID>-<fileID>
    at,                \* the webhook: "idle" | "check" | "query" | "report" | "store"
    file,              \* the webhook: the change as ChangesList returned it
    lastActivityTime,  \* the webhook: local variable
    latest,            \* the webhook: PageSize = 1, no filter
    older,             \* the webhook: PageToken, only activities before this
    activities,        \* the webhook: local variable
    queries,           \* the webhook: turns of the loop
    notified,          \* history: the activities posted by themselves
    settled,           \* history: those of them whose activity time was stored
    again,             \* history: those of these posted once more
    summed,            \* history: activities covered by the post for many
    cut,               \* history: activities given up: beyond the loop's turns, or
                       \* because a post or reading the stored time failed
    quiet,             \* history: those that did not move ModifiedTime
    overlooked         \* history: those after the viewing in a change taken as seen

google == <<now, log, modified, viewed, changed, quiet>>
reading == <<file, lastActivityTime, latest, older, activities, queries>>
reports == <<notified, settled, again, summed, cut, overlooked>>
activityVars == <<now, log, modified, viewed, changed, lastActivity, at, file,
                  lastActivityTime, latest, older, activities, queries, notified, settled,
                  again, summed, cut, quiet, overlooked>>

Time == 1 .. MaxTime
Time0 == 0 .. MaxTime

ActivityTypeOK ==
    /\ now \in Time /\ modified \in Time /\ viewed \in Time0 /\ changed \in Time0
    /\ log \in [Time -> Kind \cup {"none"}]
    /\ lastActivity \in Time0
    /\ at \in {"idle", "check", "query", "report", "store"}
    /\ file \in [modified : Time, viewed : Time0, time : Time]
    /\ lastActivityTime \in Time0 /\ latest \in BOOLEAN /\ older \in 1 .. MaxTime + 1
    /\ activities \subseteq Time /\ queries \in 0 .. MaxQueries
    /\ again \subseteq settled /\ settled \subseteq notified /\ notified \subseteq Time
    /\ summed \subseteq Time /\ cut \subseteq Time
    /\ quiet \subseteq Time /\ overlooked \subseteq Time

ActivityInit ==
    /\ now = 1 /\ modified = 1 /\ viewed \in FirstViews /\ changed = 0
    /\ log = [t \in Time |-> "none"]
    /\ lastActivity = 0
    /\ at = "idle"
    /\ file = [modified |-> 1, viewed |-> 0, time |-> 1]
    /\ lastActivityTime = 0 /\ latest = FALSE /\ older = 1
    /\ activities = {} /\ queries = 0
    /\ notified = {} /\ settled = {} /\ again = {} /\ summed = {} /\ cut = {}
    /\ quiet = {} /\ overlooked = {}

-----------------------------------------------------------------------------
(* The file at Google.                                                     *)

\* Whether an activity moves the file's ModifiedTime is up to Google.
Happen(k) ==
    /\ now < MaxTime
    /\ now' = now + 1
    /\ log' = [log EXCEPT ![now + 1] = k]
    /\ \/ modified' = now + 1 /\ UNCHANGED quiet
       \/ quiet' = quiet \cup {now + 1} /\ UNCHANGED modified
    /\ changed' = now + 1
    /\ UNCHANGED <<viewed, lastActivity, at, reading, reports>>

\* The user opens the file, which may itself count as a change.
View ==
    /\ now < MaxTime
    /\ now' = now + 1
    /\ viewed' = now + 1
    /\ changed' \in {changed, now + 1}
    /\ UNCHANGED <<log, modified, quiet, lastActivity, at, reading, reports>>

-----------------------------------------------------------------------------
(* The webhook.                                                            *)

\* (A mistake the checks must find: the change's time is not kept.)
ChangesListUntimed ==
    /\ at = "idle" /\ changed # 0
    /\ file' = [modified |-> modified, viewed |-> viewed, time |-> 0]
    /\ changed' = 0
    /\ at' = "check"
    /\ UNCHANGED <<now, log, modified, viewed, quiet, lastActivity, lastActivityTime, latest,
                   older, activities, queries, reports>>

\* ChangesList returned the file.
ChangesList ==
    /\ at = "idle" /\ changed # 0
    /\ file' = [modified |-> modified, viewed |-> viewed, time |-> changed]
    /\ changed' = 0
    /\ at' = "check"
    /\ UNCHANGED <<now, log, modified, viewed, quiet, lastActivity, lastActivityTime, latest,
                   older, activities, queries, reports>>

\* (A mistake: a file that was ever opened counts as seen.)
EverViewed == file.viewed # 0

\* lastChangeTime.Sub(modifiedTime) >= lastChangeTime.Sub(viewedByMeTime)
AlreadyViewed == file.viewed # 0 /\ file.viewed >= file.modified

Skip ==
    /\ at = "check" /\ AlreadyViewed
    /\ \/ lastActivity' = file.viewed
       \/ "kv" \in ActivityFaults /\ UNCHANGED lastActivity
    /\ overlooked' = overlooked \cup
         {t \in file.viewed + 1 .. file.time : log[t] \in Posted}
    /\ at' = "idle"
    /\ UNCHANGED <<google, reading, notified, settled, again, summed, cut>>

\* The later of the stored activity time and the viewing becomes the filter;
\* without either, activities are asked for one by one.
GetLastActivity ==
    /\ at = "check" /\ ~AlreadyViewed
    /\ lastActivityTime' = IF file.viewed > lastActivity THEN file.viewed ELSE lastActivity
    /\ latest' = (lastActivityTime' = 0)
    /\ older' = MaxTime + 1
    /\ activities' = {} /\ queries' = 0
    /\ at' = "query"
    /\ UNCHANGED <<google, lastActivity, file, reports>>

\* The stored time cannot be read: the change is given up.
GetLastActivityFails ==
    /\ at = "check" /\ ~AlreadyViewed /\ "kv" \in ActivityFaults
    /\ at' = "idle"
    /\ cut' = cut \cup {t \in 1 .. now : lastActivity < t /\ log[t] # "none"}
    /\ UNCHANGED <<google, lastActivity, reading, notified, settled, again, summed, overlooked>>

\* What Google has left to return, newest first, and the next page of it.
Remaining == {t \in 1 .. now : log[t] # "none" /\ lastActivityTime < t /\ t < older}
NewestOf(S, n) == {t \in S : Cardinality({u \in S : u > t}) < n}
Page == NewestOf(Remaining, IF latest THEN 1 ELSE QueryPage)

\* The loop ends: with something to report, or not.
EndQueries(found) == at' = IF found = {} THEN "idle" ELSE "report"

Query ==
    /\ at = "query"
    /\ activities' = activities \cup {t \in Page : log[t] \in Listed}
    /\ queries' = queries + 1
    /\ LET more == Remaining # Page
           goOn == more /\ (~latest \/ Cardinality(activities') <= Many)
       IN  IF goOn /\ queries' < MaxQueries
           THEN older' = Min(Page) /\ UNCHANGED <<at, cut>>
           ELSE /\ EndQueries(activities')
                /\ cut' = cut \cup (Remaining \ Page)
                /\ UNCHANGED older
    /\ UNCHANGED <<google, lastActivity, file, lastActivityTime, latest,
                   notified, settled, again, summed, overlooked>>

\* A failed query is tried again, on the same five turns.
QueryFails ==
    /\ at = "query" /\ "query" \in ActivityFaults
    /\ queries' = queries + 1
    /\ IF queries' < MaxQueries THEN UNCHANGED <<at, cut>>
       ELSE EndQueries(activities) /\ cut' = cut \cup Remaining
    /\ UNCHANGED <<google, lastActivity, file, lastActivityTime, latest, older,
                   activities, notified, settled, again, summed, overlooked>>

\* Fetching a comment, or creating a post, may fail: it is logged, and the post
\* is lost.
Delivered(S) == IF "post" \in ActivityFaults THEN SUBSET S ELSE {S}

\* A post for each activity, without those that fail.
Post(posts) ==
    /\ notified' = notified \cup posts
    /\ again' = again \cup (settled \cap posts)
    /\ cut' = cut \cup {t \in activities \ posts : log[t] \in Posted}

\* One post for many activities.
PostOne ==
    /\ \/ summed' = summed \cup activities /\ UNCHANGED cut
       \/ "post" \in ActivityFaults /\ cut' = cut \cup activities /\ UNCHANGED summed
    /\ UNCHANGED <<notified, again>>

\* (A mistake: the list is walked the other way, so the oldest activity's
\* time is the one that is kept.)
ReportNewestFirst ==
    /\ at = "report"
    /\ IF Cardinality(activities) > Many
       THEN PostOne /\ lastActivityTime' = file.modified
       ELSE /\ \E posts \in Delivered({t \in activities : log[t] \in Posted}) : Post(posts)
            /\ lastActivityTime' = Min(activities)
            /\ UNCHANGED summed
    /\ at' = "store"
    /\ UNCHANGED <<google, lastActivity, file, latest, older, activities, queries, settled,
                   overlooked>>

\* One post for many activities, or one for each, oldest first.
Report ==
    /\ at = "report"
    /\ IF Cardinality(activities) > Many
       THEN PostOne /\ lastActivityTime' = file.modified
       ELSE /\ \E posts \in Delivered({t \in activities : log[t] \in Posted}) : Post(posts)
            /\ lastActivityTime' = Max(activities)
            /\ UNCHANGED summed
    /\ at' = "store"
    /\ UNCHANGED <<google, lastActivity, file, latest, older, activities, queries, settled,
                   overlooked>>

StoreLastActivity ==
    /\ at = "store"
    /\ \/ lastActivity' = lastActivityTime /\ settled' = settled \cup (activities \cap notified)
       \/ "kv" \in ActivityFaults /\ UNCHANGED <<lastActivity, settled>>
    /\ at' = "idle"
    /\ UNCHANGED <<google, reading, notified, again, summed, cut, overlooked>>

\* The node dies before the page token is saved: the change is listed again.
Crash ==
    /\ "crash" \in ActivityFaults /\ at # "idle"
    /\ at' = "idle"
    /\ changed' = IF changed = 0 THEN file.time ELSE changed
    /\ UNCHANGED <<now, log, modified, viewed, quiet, lastActivity, reading, reports>>

ActivityNext ==
    \/ \E k \in Kinds : Happen(k)
    \/ View
    \/ ChangesList \/ Skip \/ GetLastActivity \/ GetLastActivityFails \/ Query \/ QueryFails
    \/ Report \/ StoreLastActivity \/ Crash

ActivitySpec == ActivityInit /\ [][ActivityNext]_activityVars

-----------------------------------------------------------------------------
\* No activity is posted by itself again once its time has been settled, whatever
\* happens at Google during the queries, and although queries, posts and stores
\* fail and nodes die.  Only one that did not move ModifiedTime may be: the code
\* writes an earlier ViewedByMeTime or ModifiedTime over its time (api.go:637, 699).
NotifiedOnce == again \subseteq quiet

\* "When someone shares any files with you or comments on any file , you'll get
\* a post here about it" (api.go:326-327): once a file's change is dealt with,
\* the user has got a post for each such activity, or has opened the file since,
\* or the code gave it up: after five queries, a failed post, or a failed read
\* of the stored time; or because it took the change as seen (api.go:636), which it
\* does to no activity that moved ModifiedTime.
NothingMissed ==
    /\ at = "idle" /\ changed = 0 =>
         \A t \in Time : log[t] \in Posted =>
             t \in notified \cup summed \/ t < viewed \/ t \in cut \cup overlooked
    /\ overlooked \subseteq quiet

\* "Check if the user has already opened the file after the last change."
\* (api.go:635): a change taken as seen brings no comment and no share that came after
\* the user opened the file.  (The code breaks this: it compares with the file's
\* ModifiedTime, and not with the time of the change.)
SeenIsAfterChange == overlooked = {}
=============================================================================
