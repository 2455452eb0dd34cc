---------------------------- MODULE WatchChannel ----------------------------
(***************************************************************************)
(* The life of ONE user's Google Drive watch channel: the record the       *)
(* plugin keeps for it in the KV store, and the three kinds of code that   *)
(* read and write that record without a common lock:                       *)
(*                                                                         *)
(*   Cmds     "/google-drive notifications start|stop" handlers            *)
(*            (server/plugin/notifications.go)                             *)
(*   Workers  the goroutines of the refresh job (server/plugin/plugin.go)  *)
(*   Hooks    webhook requests from Google (server/plugin/api.go)          *)
(*                                                                         *)
(* Every KV call and every call to Google is a step of its own, because    *)
(* the processes interleave between them.  A page token is a position in   *)
(* Google's change log; 0 is the empty token "".  Changes are the          *)
(* positions 1, 2, ... head - 1.  Every key and lock name holds the user   *)
(* ID, so different users' records never meet.                             *)
(*                                                                         *)
(* Whether a record is old enough to be refreshed is left open here (a     *)
(* worker may be handed the record at any time); RefreshJob models it.     *)
(* What is done for one change is modelled in FileActivity.  Definitions   *)
(* marked (A mistake) change one action as a bug would; no action uses     *)
(* them, and the checks must tell them from the code.                      *)
(***************************************************************************)
EXTENDS Naturals, FiniteSets

CONSTANTS
    Cmds, Workers, Hooks,  \* the processes
    Chan,                  \* channel IDs Google may hand out
    NoChan,                \* ChannelID "" (a missing key reads as a zero record)
    NoProc, Orphan,        \* nobody holds the mutex; a dead node's lease on it
    PageSize,              \* most changes one ChangesList answer carries
    MaxPages,              \* the 5 of "for range 5"
    MaxHead,               \* bound: the change log stops growing here
    Faults                 \* subset of {"write", "crash"}

Proc == Cmds \cup Workers \cup Hooks

ASSUME ProcAssumption ==
    /\ Cmds \cap Workers = {} /\ Cmds \cap Hooks = {} /\ Workers \cap Hooks = {}
    /\ {NoProc, Orphan} \cap (Cmds \cup Workers \cup Hooks) = {} /\ NoProc # Orphan
ASSUME ChanAssumption == NoChan \notin Chan
ASSUME NatAssumption ==
    PageSize \in Nat \ {0} /\ MaxPages \in Nat \ {0} /\ MaxHead \in Nat
ASSUME FaultAssumption == Faults \subseteq {"write", "crash"}

VARIABLES
    head,               \* Google: the next position of the user's change log
    chan,               \* Google: "new" | "live" | "stopped" for every channel
    data,               \* KV: the record under drive_change_channels-<userID>
    lock,               \* cluster mutex drive_watch_notifications_<userID>
    pc,                 \* where each process is
    watchChannelData,   \* each process's local copy of the record
    pageToken,          \* each process's local page token
    next,               \* webhook: the next fetched change to process
    calls,              \* webhook: ChangesList calls made
    told,               \* the last answer a command gave the user
    opened,             \* history: head when the channel was created
    handed,             \* history: changes processed under the channel
    cursor,             \* history: the page token last stored for the channel
    redo                \* history: channels with a processed change whose save failed

google == <<head, chan, opened>>
locals == <<pc, watchChannelData, pageToken, next, calls>>
vars == <<head, chan, data, lock, pc, watchChannelData, pageToken, next, calls,
          told, opened, handed, cursor, redo>>

AnyChan == Chan \cup {NoChan}
Record == [chan : AnyChan, page : Nat]
Zero == [chan |-> NoChan, page |-> 0]

\* isWatchChannelDataValid: the record's other fields are set together with
\* ChannelID and are empty together with it.
Valid(d) == d.chan # NoChan

Label == {"idle", "stopRead", "delete", "stopRemote", "getPage", "watch", "store",
          "lock", "read", "list", "activity", "dispatch", "save", "unlock"}
\* Between LockWithContext and Unlock.
Locked == {"read", "list", "activity", "dispatch", "save", "unlock"}

TypeOK ==
    /\ head \in Nat
    /\ chan \in [Chan -> {"new", "live", "stopped"}]
    /\ data \in Record
    /\ lock \in Proc \cup {NoProc, Orphan}
    /\ pc \in [Proc -> Label]
    /\ watchChannelData \in [Proc -> Record]
    /\ pageToken \in [Proc -> Nat]
    /\ next \in [Proc -> Nat]
    /\ calls \in [Proc -> Nat]
    /\ told \in {"nothing", "enabled", "disabled"}
    /\ opened \in [Chan -> Nat]
    /\ handed \in [Chan -> SUBSET Nat]
    /\ cursor \in [Chan -> Nat]
    /\ redo \in SUBSET Chan

Init ==
    /\ head = 1
    /\ chan = [c \in Chan |-> "new"]
    /\ data = Zero
    /\ lock = NoProc
    /\ pc = [p \in Proc |-> "idle"]
    /\ watchChannelData = [p \in Proc |-> Zero]
    /\ pageToken = [p \in Proc |-> 0]
    /\ next = [p \in Proc |-> 0]
    /\ calls = [p \in Proc |-> 0]
    /\ told = "nothing"
    /\ opened = [c \in Chan |-> 0]
    /\ handed = [c \in Chan |-> {}]
    /\ cursor = [c \in Chan |-> 0]
    /\ redo = {}

-----------------------------------------------------------------------------
Goto(p, label) == pc' = [pc EXCEPT ![p] = label]

\* The process returns: its stack is gone.
Return(p) ==
    /\ Goto(p, "idle")
    /\ watchChannelData' = [watchChannelData EXCEPT ![p] = Zero]
    /\ pageToken' = [pageToken EXCEPT ![p] = 0]
    /\ next' = [next EXCEPT ![p] = 0]
    /\ calls' = [calls EXCEPT ![p] = 0]

\* stopDriveActivityNotifications returns: a command is over; a worker ignores
\* the message and calls startDriveWatchChannel (plugin.go:93-94).
StopReturns(p) ==
    IF p \in Workers
    THEN Goto(p, "getPage") /\ UNCHANGED <<watchChannelData, pageToken, next, calls>>
    ELSE Return(p)

\* History of the page tokens stored (a junk record, NoChan, has none).
SetCursor(ch, page) == cursor' = [c \in Chan |-> IF c = ch THEN page ELSE cursor[c]]

\* History: what the webhook has processed will be processed again.
Unsaved(p) == redo' = redo \cup ({watchChannelData[p].chan} \cap Chan)

\* What the slash command answers; workers answer nobody.
Tell(p, answer) == told' = IF p \in Cmds THEN answer ELSE told

-----------------------------------------------------------------------------
(* startDriveActivityNotifications and startDriveWatchChannel.             *)

\* The record is read and, if it is valid, the user is told it is enabled.
StartCheck(p) ==
    /\ p \in Cmds /\ pc[p] = "idle"
    /\ IF Valid(data)
       THEN told' = "enabled" /\ UNCHANGED locals
       ELSE /\ told' = "nothing"
            /\ Goto(p, "getPage")
            /\ UNCHANGED <<watchChannelData, pageToken, next, calls>>
    /\ UNCHANGED <<google, data, lock, handed, cursor, redo>>

\* NewDriveService and GetStartPageToken.
GetStartPageToken(p) ==
    /\ pc[p] = "getPage"
    /\ \/ /\ pageToken' = [pageToken EXCEPT ![p] = head]
          /\ Goto(p, "watch")
          /\ UNCHANGED <<watchChannelData, next, calls>>
       \/ Return(p)
    /\ UNCHANGED <<google, data, lock, told, handed, cursor, redo>>

\* Changes.Watch: Google creates a channel, or refuses, or creates it and the
\* answer is lost.
Watch(p) ==
    /\ pc[p] = "watch"
    /\ \/ \E c \in Chan :
            /\ chan[c] = "new"
            /\ chan' = [chan EXCEPT ![c] = "live"]
            /\ opened' = [opened EXCEPT ![c] = head]
            /\ \/ /\ watchChannelData' =
                       [watchChannelData EXCEPT ![p] = [chan |-> c, page |-> pageToken[p]]]
                  /\ Goto(p, "store")
                  /\ UNCHANGED <<pageToken, next, calls>>
               \/ Return(p)
       \/ Return(p) /\ UNCHANGED <<chan, opened>>
    /\ UNCHANGED <<head, data, lock, told, handed, cursor, redo>>

\* StoreWatchChannelData.
StoreChannel(p) ==
    /\ pc[p] = "store"
    /\ \/ /\ data' = watchChannelData[p]
          /\ SetCursor(watchChannelData[p].chan, watchChannelData[p].page)
          /\ Tell(p, "enabled")
       \/ "write" \in Faults /\ UNCHANGED <<data, cursor, told>>
    /\ Return(p)
    /\ UNCHANGED <<google, lock, handed, redo>>

-----------------------------------------------------------------------------
(* stopDriveActivityNotifications.                                         *)

\* A command reads the record ...
StopCheck(p) ==
    /\ p \in Cmds /\ pc[p] = "idle"
    /\ IF Valid(data)
       THEN /\ watchChannelData' = [watchChannelData EXCEPT ![p] = data]
            /\ Goto(p, "delete")
            /\ told' = "nothing"
            /\ UNCHANGED <<pageToken, next, calls>>
       ELSE told' = "disabled" /\ UNCHANGED locals
    /\ UNCHANGED <<google, data, lock, handed, cursor, redo>>

\* ... and so does a worker that has been handed the user's record.
WorkerStopCheck(p) ==
    /\ pc[p] = "stopRead"
    /\ \/ /\ Valid(data)
          /\ watchChannelData' = [watchChannelData EXCEPT ![p] = data]
          /\ Goto(p, "delete")
          /\ UNCHANGED <<pageToken, next, calls>>
       \/ StopReturns(p)   \* read failed, or not enabled
    /\ UNCHANGED <<google, data, lock, told, handed, cursor, redo>>

\* (A mistake: a failed delete does not end it.)
DeleteIgnored(p) ==
    /\ pc[p] = "delete"
    /\ data' = Zero \/ UNCHANGED data
    /\ Goto(p, "stopRemote")
    /\ UNCHANGED <<google, lock, watchChannelData, pageToken, next, calls,
                   told, handed, cursor, redo>>

\* NewDriveService and DeleteWatchChannelData; either may fail.
DeleteChannel(p) ==
    /\ pc[p] = "delete"
    /\ \/ data' = Zero /\ Goto(p, "stopRemote")
          /\ UNCHANGED <<watchChannelData, pageToken, next, calls>>
       \/ StopReturns(p) /\ UNCHANGED data
    /\ UNCHANGED <<google, lock, told, handed, cursor, redo>>

\* Channels.Stop of the channel that was read; a failed call may still have
\* stopped it, or not.
StopChannel(p) ==
    /\ pc[p] = "stopRemote"
    /\ \/ /\ chan' = [chan EXCEPT ![watchChannelData[p].chan] = "stopped"]
          /\ Tell(p, "disabled") \/ UNCHANGED told
       \/ UNCHANGED <<chan, told>>
    /\ StopReturns(p)
    /\ UNCHANGED <<head, opened, data, lock, handed, cursor, redo>>

-----------------------------------------------------------------------------
(* refreshDriveWatchChannels: a listed record reaches a worker.            *)
RefreshPick(p) ==
    /\ p \in Workers /\ pc[p] = "idle"
    /\ Valid(data)
    /\ Goto(p, "stopRead")
    /\ UNCHANGED <<google, data, lock, watchChannelData, pageToken, next, calls,
                   told, handed, cursor, redo>>

-----------------------------------------------------------------------------
(* handleDriveWatchNotifications.                                          *)

\* A push from channel c (perhaps a late one): its token must be the record's.
HookCheck(p, c) ==
    /\ p \in Hooks /\ pc[p] = "idle"
    /\ chan[c] # "new"
    /\ data.chan = c
    /\ Goto(p, "lock")
    /\ UNCHANGED <<google, data, lock, watchChannelData, pageToken, next, calls,
                   told, handed, cursor, redo>>

\* (Two mistakes: no mutual exclusion, and waiting without the context.)
HookEnter(p) ==
    /\ pc[p] = "lock"
    /\ Goto(p, "read")
    /\ lock' = p
    /\ UNCHANGED <<google, data, watchChannelData, pageToken, next, calls,
                   told, handed, cursor, redo>>
HookLockForever(p) ==
    /\ pc[p] = "lock"
    /\ lock = NoProc /\ lock' = p
    /\ Goto(p, "read")
    /\ UNCHANGED <<google, data, watchChannelData, pageToken, next, calls,
                   told, handed, cursor, redo>>

\* LockWithContext, which gives up when the request's 60 seconds are over.
HookLock(p) ==
    /\ pc[p] = "lock"
    /\ \/ lock = NoProc /\ lock' = p /\ Goto(p, "read")
          /\ UNCHANGED <<watchChannelData, pageToken, next, calls>>
       \/ Return(p) /\ UNCHANGED lock
    /\ UNCHANGED <<google, data, told, handed, cursor, redo>>

\* (Two mistakes: an unread record is used, and the first change is taken for
\* done.)
HookReadNothing(p) ==
    /\ pc[p] = "read"
    /\ watchChannelData' = [watchChannelData EXCEPT ![p] = NoChan]
    /\ Goto(p, "list")
    /\ UNCHANGED <<google, data, lock, pageToken, next, calls, told, handed, cursor, redo>>
HookReadPast(p) ==
    /\ pc[p] = "read"
    /\ watchChannelData' = [watchChannelData EXCEPT ![p] = data]
    /\ pageToken' = [pageToken EXCEPT ![p] = data.page]
    /\ next' = [next EXCEPT ![p] = data.page + 1]
    /\ Goto(p, "list")
    /\ UNCHANGED <<google, data, lock, calls, told, handed, cursor, redo>>

\* The record is read again under the lock.  An empty token is replaced by a
\* fresh one.  Failing to create the Drive service, to read or to get a start
\* token ends the request.
HookRead(p) ==
    /\ pc[p] = "read"
    /\ \/ LET first == IF data.page = 0 THEN head ELSE data.page IN
          /\ watchChannelData' = [watchChannelData EXCEPT ![p] = data]
          /\ pageToken' = [pageToken EXCEPT ![p] = first]
          /\ next' = [next EXCEPT ![p] = first]
          /\ Goto(p, "list")
          /\ UNCHANGED calls
       \/ Goto(p, "unlock") /\ UNCHANGED <<watchChannelData, pageToken, next, calls>>
    /\ UNCHANGED <<google, data, lock, told, handed, cursor, redo>>

\* The position after one page of changes that starts at position k.
PageEnd(k) == IF k + PageSize < head THEN k + PageSize ELSE head

\* One ChangesList call.  The last page carries NewStartPageToken, any other
\* one NextPageToken; after MaxPages calls the rest is left for the next push.
HookList(p) ==
    /\ pc[p] = "list"
    /\ \/ /\ pageToken' = [pageToken EXCEPT ![p] = PageEnd(pageToken[p])]
          /\ calls' = [calls EXCEPT ![p] = @ + 1]
          /\ Goto(p, IF PageEnd(pageToken[p]) # head /\ calls[p] + 1 < MaxPages THEN "list"
                     ELSE IF PageEnd(pageToken[p]) = next[p] THEN "save"
                     ELSE "activity")
       \/ Goto(p, "unlock") /\ UNCHANGED <<pageToken, calls>>
    /\ UNCHANGED <<google, data, lock, watchChannelData, next, told, handed, cursor, redo>>

\* (A mistake: when it fails, the new token is saved.)
HookActivityLost(p) ==
    /\ pc[p] = "activity"
    /\ Goto(p, "dispatch") \/ Goto(p, "save")
    /\ UNCHANGED <<google, data, lock, watchChannelData, pageToken, next, calls,
                   told, handed, cursor, redo>>

\* NewDriveActivityService: when it fails the old token is what gets saved.
HookActivity(p) ==
    /\ pc[p] = "activity"
    /\ \/ Goto(p, "dispatch") /\ UNCHANGED pageToken
       \/ /\ pageToken' = [pageToken EXCEPT ![p] = watchChannelData[p].page]
          /\ Goto(p, "save")
    /\ UNCHANGED <<google, data, lock, watchChannelData, next, calls, told, handed, cursor, redo>>

\* One turn of "for _, change := range changes".
HookDispatch(p) ==
    /\ pc[p] = "dispatch"
    /\ handed' = [c \in Chan |-> IF c = watchChannelData[p].chan
                                 THEN handed[c] \cup {next[p]} ELSE handed[c]]
    /\ next' = [next EXCEPT ![p] = @ + 1]
    /\ Goto(p, IF next[p] + 1 = pageToken[p] THEN "save" ELSE "dispatch")
    /\ UNCHANGED <<google, data, lock, watchChannelData, pageToken, calls, told, cursor, redo>>

\* The deferred StoreWatchChannelData, which runs before the deferred Unlock.
HookSave(p) ==
    /\ pc[p] = "save"
    /\ \/ /\ data' = [chan |-> watchChannelData[p].chan, page |-> pageToken[p]]
          /\ SetCursor(watchChannelData[p].chan, pageToken[p])
          /\ UNCHANGED redo
       \/ "write" \in Faults /\ Unsaved(p) /\ UNCHANGED <<data, cursor>>
    /\ Goto(p, "unlock")
    /\ UNCHANGED <<google, lock, watchChannelData, pageToken, next, calls, told, handed>>

\* (A mistake: the mutex is not given back.)
HookLeaves(p) ==
    /\ pc[p] = "unlock"
    /\ Return(p)
    /\ UNCHANGED <<google, data, lock, told, handed, cursor, redo>>

HookUnlock(p) ==
    /\ pc[p] = "unlock"
    /\ lock' = NoProc
    /\ Return(p)
    /\ UNCHANGED <<google, data, told, handed, cursor, redo>>

-----------------------------------------------------------------------------
(* The environment.                                                        *)

\* Somebody changes a file the user can see.
Change ==
    /\ head < MaxHead
    /\ head' = head + 1
    /\ UNCHANGED <<chan, opened, data, lock, locals, told, handed, cursor, redo>>

\* The node a process runs on dies; a mutex it holds stays in the KV store ...
Crash(p) ==
    /\ "crash" \in Faults
    /\ pc[p] # "idle"
    /\ Return(p)
    /\ lock' = IF lock = p THEN Orphan ELSE lock
    /\ IF pc[p] \in {"dispatch", "save"} THEN Unsaved(p) ELSE UNCHANGED redo
    /\ UNCHANGED <<google, data, told, handed, cursor>>

\* ... until its lease runs out, because nobody refreshes it any more.
LockExpires ==
    /\ lock = Orphan
    /\ lock' = NoProc
    /\ UNCHANGED <<google, data, locals, told, handed, cursor, redo>>

Steps(p) ==
    \/ GetStartPageToken(p) \/ Watch(p) \/ StoreChannel(p)
    \/ WorkerStopCheck(p) \/ DeleteChannel(p) \/ StopChannel(p)
    \/ HookLock(p) \/ HookRead(p) \/ HookList(p) \/ HookActivity(p)
    \/ HookDispatch(p) \/ HookSave(p) \/ HookUnlock(p)

Next ==
    \/ \E p \in Proc : StartCheck(p) \/ StopCheck(p) \/ RefreshPick(p) \/ Steps(p) \/ Crash(p)
    \/ \E p \in Hooks, c \in Chan : HookCheck(p, c)
    \/ Change
    \/ LockExpires

Spec == Init /\ [][Next]_vars

-----------------------------------------------------------------------------
(* What the code is meant to guarantee.                                    *)

\* The valid record never names a channel the plugin has itself stopped: the
\* record is deleted before Channels.Stop is called, whatever commands and
\* workers do at the same time.  (It needs Hooks = {}: a webhook writes back
\* what it read.)
NoStoppedRecord == Valid(data) => chan[data.chan] # "stopped"

\* Every change between the creation of a channel and the page token last
\* saved for it has been processed: the token is saved after the changes it
\* passes over, and a request that fails early saves nothing or the old token.
NoChangeSkipped ==
    \A c \in Chan : \A k \in 1..MaxHead :
        opened[c] <= k /\ k < cursor[c] => k \in handed[c]

\* The page token of a channel moves as ChangeFeed allows: never back, because
\* a webhook reads it again after it has the mutex, and only over changes that
\* were processed, in order.
Feed == INSTANCE ChangeFeed WITH
            Chan <- Chan, head <- head, opened <- opened, handed <- handed, cursor <- cursor
ImplementsChangeFeed == Feed!Spec

\* Two webhooks that race for the same changes do not both process them: the
\* second waits for the mutex and reads the token the first has saved.  A change
\* is processed twice only after a save failed or a node died before it.
HandedOnce ==
    \A p \in Hooks :
        LET c == watchChannelData[p].chan IN
        pc[p] = "dispatch" /\ c \in Chan \ redo => next[p] \notin handed[c]

\* Every command, refresh worker and webhook comes to an end: the mutex is given back
\* on every path or its wait is abandoned, and the paging loop is bounded.
EveryCallReturns == \A p \in Proc : pc[p] # "idle" ~> pc[p] = "idle"

\* A webhook that holds the mutex gives it back, even when it fails half way.
LockReleased == \A p \in Hooks : lock = p ~> lock # p

\* "Successfully enabled" and "already enabled" (notifications.go:306, 314)
\* mean that the record names a channel Google pushes to.
EnabledIsWatched == told = "enabled" => Valid(data) /\ chan[data.chan] = "live"

\* Goroutines are scheduled, Google's client calls return and the 60 second
\* context of a request expires, and the lease of an abandoned mutex runs out;
\* nothing obliges a user, Google or the job to begin anything.
FairSpec == Spec /\ (\A p \in Proc : WF_vars(Steps(p))) /\ WF_vars(LockExpires)
=============================================================================
