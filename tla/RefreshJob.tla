------------------------------ MODULE RefreshJob ------------------------------
(***************************************************************************)
(* The job that renews watch channels before Google lets them expire:      *)
(* refreshDriveWatchChannels (server/plugin/plugin.go), which the cluster  *)
(* scheduler starts every 12 hours on one node at a time.                  *)
(*                                                                         *)
(* Its main goroutine pages through the KV store's keys and hands each     *)
(* record that is due, over an unbuffered channel, to one of the workers,  *)
(* which delete and store the very keys that are being paged through.      *)
(*                                                                         *)
(* Keys are numbers in the order the store lists them.  Records is the set *)
(* of keys that begin with drive_change_channels-; other keys (tokens,     *)
(* last activities) share the listing and are filtered out of each page    *)
(* after it is cut; they come and go as well.  A key may hold a zero        *)
(* record: a webhook that waits for its lock while the record is deleted    *)
(* stores one.  Time is counted in runs of the job (12 hours).              *)
(***************************************************************************)
EXTENDS Naturals, FiniteSets

CONSTANTS
    NKeys,        \* the keys are 1 .. NKeys
    Records,      \* the keys of watch-channel records, one per user
    Worker,       \* the 5 goroutines
    NoKey,        \* a worker with nothing, or a zero record, in hand
    PerPage,      \* 100
    Life,         \* a channel lives 7 days = 14 intervals
    Ahead,        \* it is due when less than 24 hours = 2 intervals are left
    Units,        \* what Expiration may count, to the second that time.Unix reads
    MaxInterval,  \* bound: the clock stops here
    UsersAct,     \* do users start and stop notifications meanwhile
    JobFaults     \* subset of {"delete", "start", "kv"}

ASSUME KeyAssumption ==
    NKeys \in Nat /\ Records \subseteq 1 .. NKeys /\ NoKey \notin 1 .. NKeys
ASSUME IntervalAssumption ==
    /\ PerPage \in Nat \ {0} /\ Life \in Nat \ {0} /\ Ahead \in Nat \ {0}
    /\ Units \subseteq Nat \ {0} /\ MaxInterval \in Nat
ASSUME JobFaultAssumption == JobFaults \subseteq {"delete", "start", "kv"} /\ UsersAct \in BOOLEAN

VARIABLES
    unit,      \* what Google's Expiration counts
    interval,  \* the time
    ran,       \* the job has run in this interval
    present,   \* the keys in the store
    expires,   \* when each record's channel expires; 0 without one, or in a zero record
    jpc,       \* main goroutine: "idle" | "list" | "send" | "wait"
    page,      \* main goroutine: the page to list next
    batch,     \* main goroutine: the rest of the keys listed, to be read in order
    wpc,       \* each worker: "free" | "stop" | "start"
    inHand,    \* each worker: the record received from the channel
    owed,      \* history: due when this run began, there since, and read without error
    served,    \* history: the records handed to a worker in this run
    listed,    \* history: the keys listed in this run
    raised,    \* history: those listed that had a key before them stored since
    lowered,   \* history: those that had one deleted while they waited to be listed
    cutShort   \* history: the listing has failed, or ended on a page of other keys

clock == <<unit, interval, ran>>
store == <<present, expires>>
workers == <<wpc, inHand>>
shifts == <<listed, raised, lowered, cutShort>>
jobVars == <<unit, interval, ran, present, expires, jpc, page, batch, wpc, inHand,
             owed, served, listed, raised, lowered, cutShort>>

Keys == 1 .. NKeys

JobTypeOK ==
    /\ unit \in Units /\ interval \in 0 .. MaxInterval /\ ran \in BOOLEAN
    /\ present \subseteq Keys
    /\ expires \in [Records -> Nat]
    /\ jpc \in {"idle", "list", "send", "wait"}
    /\ page \in Nat /\ batch \subseteq Records
    /\ wpc \in [Worker -> {"free", "stop", "start"}]
    /\ inHand \in [Worker -> Records \cup {NoKey}]
    /\ owed \subseteq Records \cap present /\ served \subseteq Records
    /\ listed \subseteq Keys /\ raised \subseteq listed /\ lowered \subseteq Keys
    /\ cutShort \in BOOLEAN

\* Channels were started at various times in the past; any of the keys may be missing.
JobInit ==
    /\ unit \in Units /\ interval = 0 /\ ran = FALSE
    /\ present \in SUBSET Keys
    /\ \E when \in [Records -> 1 .. Life] :
            expires = [k \in Records |-> IF k \in present THEN when[k] ELSE 0]
    /\ jpc = "idle" /\ page = 0 /\ batch = {}
    /\ wpc = [w \in Worker |-> "free"]
    /\ inHand = [w \in Worker |-> NoKey]
    /\ owed = {} /\ served = {}
    /\ listed = {} /\ raised = {} /\ lowered = {} /\ cutShort = FALSE

\* time.Until(time.Unix(watchChannelData.Expiration, 0)) < 24*time.Hour, for an
\* Expiration that counts `unit' to the second.  A zero record is overdue.
Due(k) == expires[k] * unit < interval + Ahead

\* KVList cuts a page out of all keys, in order.
Before(k) == Cardinality({j \in present : j < k})
KVList(p) == {k \in present : p * PerPage <= Before(k) /\ Before(k) < (p + 1) * PerPage}

\* (A mistake the checks must find: no prefix filter.)
ListAllKeys(p) == KVList(p)

\* ListKeys keeps those with the prefix.
ListKeys(p) == KVList(p) \cap Records

-----------------------------------------------------------------------------
(* The main goroutine.                                                     *)

JobStart ==
    /\ jpc = "idle" /\ ~ran
    /\ jpc' = "list"
    /\ owed' = {k \in Records \cap present : Due(k)}
    /\ UNCHANGED <<clock, store, page, batch, workers, served, shifts>>

\* An error or an empty page ends the loop and closes the channel.
JobList ==
    /\ jpc = "list"
    /\ \/ /\ batch' = ListKeys(page) /\ listed' = listed \cup KVList(page)
          /\ jpc' = IF batch' = {} THEN "wait" ELSE "send"
          /\ cutShort' = (batch' = {} /\ KVList(page) # {})
       \/ /\ "kv" \in JobFaults /\ jpc' = "wait" /\ cutShort' = TRUE
          /\ UNCHANGED <<batch, listed>>
    /\ UNCHANGED <<clock, store, page, workers, owed, served, raised, lowered>>

\* channels <- *watchChannelData
HandTo(w, k) ==
    /\ wpc[w] = "free"
    /\ wpc' = [wpc EXCEPT ![w] = "stop"]
    /\ inHand' = [inHand EXCEPT ![w] = k]

\* The next of the keys listed.
First(k) == k \in batch /\ \A j \in batch : k <= j

\* Whose record key k holds.
MMUserID(k) == IF expires[k] = 0 THEN NoKey ELSE k

\* (A mistake: a record that is not due ends the run.)
JobReadStops ==
    /\ jpc = "send"
    /\ \E k \in batch : First(k) /\
       \/ /\ Due(k)
          /\ \E w \in Worker : HandTo(w, MMUserID(k))
          /\ served' = served \cup {k} /\ batch' = batch \ {k} /\ UNCHANGED jpc
       \/ /\ ~Due(k)
          /\ batch' = {} /\ jpc' = "wait"
          /\ UNCHANGED <<workers, served>>
    /\ UNCHANGED <<clock, store, page, owed, shifts>>

\* GetWatchChannelDataUsingKey: a key deleted since it was listed reads as a zero
\* record.
Read(k) ==
    \/ /\ Due(k)
       /\ \E w \in Worker : HandTo(w, MMUserID(k))
       /\ served' = served \cup {k} /\ UNCHANGED owed
    \/ /\ ~Due(k)
       /\ UNCHANGED <<workers, owed, served>>
    \/ /\ "kv" \in JobFaults /\ owed' = owed \ {k}
       /\ UNCHANGED <<workers, served>>

JobRead ==
    /\ jpc = "send"
    /\ \E k \in batch : First(k) /\ Read(k) /\ batch' = batch \ {k}
    /\ UNCHANGED <<clock, store, jpc, page, shifts>>

\* (A mistake: the page is not advanced.)
JobPageAgain ==
    /\ jpc = "send" /\ batch = {}
    /\ jpc' = "list"
    /\ UNCHANGED <<clock, store, page, batch, workers, owed, served, shifts>>

JobPageDone ==
    /\ jpc = "send" /\ batch = {}
    /\ jpc' = "list" /\ page' = page + 1
    /\ UNCHANGED <<clock, store, batch, workers, owed, served, shifts>>

\* wg.Wait(); the run is over.
JobEnd ==
    /\ jpc = "wait" /\ \A w \in Worker : wpc[w] = "free"
    /\ jpc' = "idle" /\ ran' = TRUE
    /\ page' = 0 /\ owed' = {} /\ served' = {}
    /\ listed' = {} /\ raised' = {} /\ lowered' = {} /\ cutShort' = FALSE
    /\ UNCHANGED <<unit, interval, store, batch, workers>>

-----------------------------------------------------------------------------
(* The store, and the workers.                                             *)

\* A key goes: the keys after it move down.
Remove(k) ==
    /\ present' = present \ {k}
    /\ owed' = owed \ {k}
    /\ lowered' = lowered \cup
         IF k \in present /\ listed # {} THEN {j \in Keys \ listed : k < j} ELSE {}
    /\ UNCHANGED <<served, listed, raised, cutShort>>

\* A key comes: the keys after it move up.
Insert(k) ==
    /\ present' = present \cup {k}
    /\ raised' = raised \cup IF k \in present THEN {} ELSE {j \in listed : k < j}
    /\ UNCHANGED <<served, listed, lowered, cutShort>>

\* The user has a record that is not a zero record.
HasRecord(k) == k # NoKey /\ expires[k] # 0

\* stopDriveActivityNotifications does nothing without a valid record; its result is
\* ignored.
WorkerStop(w) ==
    /\ wpc[w] = "stop"
    /\ \/ /\ HasRecord(inHand[w])
          /\ Remove(inHand[w]) /\ expires' = [expires EXCEPT ![inHand[w]] = 0]
       \/ /\ "delete" \in JobFaults \/ ~HasRecord(inHand[w])
          /\ UNCHANGED <<store, owed, served, shifts>>
    /\ wpc' = [wpc EXCEPT ![w] = "start"]
    /\ UNCHANGED <<clock, jpc, page, batch, inHand>>

\* (A mistake: a start that fails is tried again, without end.)
WorkerStartRetries(w) ==
    /\ wpc[w] = "start"
    /\ \/ /\ inHand[w] # NoKey
          /\ Insert(inHand[w])
          /\ expires' = [expires EXCEPT ![inHand[w]] = interval + Life]
          /\ wpc' = [wpc EXCEPT ![w] = "free"]
          /\ inHand' = [inHand EXCEPT ![w] = NoKey]
       \/ /\ inHand[w] = NoKey \/ "start" \in JobFaults
          /\ wpc' = [wpc EXCEPT ![w] = "stop"]
          /\ UNCHANGED <<store, inHand, served, shifts>>
    /\ UNCHANGED <<clock, jpc, page, batch, owed>>

\* startDriveWatchChannel; its error is ignored.  There is no user "" to start a
\* channel for.
WorkerStart(w) ==
    /\ wpc[w] = "start"
    /\ \/ /\ inHand[w] # NoKey
          /\ Insert(inHand[w])
          /\ expires' = [expires EXCEPT ![inHand[w]] = interval + Life]
       \/ /\ inHand[w] = NoKey \/ "start" \in JobFaults
          /\ UNCHANGED <<store, served, shifts>>
    /\ wpc' = [wpc EXCEPT ![w] = "free"]
    /\ inHand' = [inHand EXCEPT ![w] = NoKey]
    /\ UNCHANGED <<clock, jpc, page, batch, owed>>

\* 12 hours pass; the scheduler has run the job meanwhile.
Tick ==
    /\ ran /\ interval < MaxInterval
    /\ interval' = interval + 1 /\ ran' = FALSE
    /\ UNCHANGED <<unit, store, jpc, page, batch, workers, owed, served, shifts>>

Main == JobList \/ JobRead \/ JobPageDone \/ JobEnd
WorkerStep(w) == WorkerStop(w) \/ WorkerStart(w)

-----------------------------------------------------------------------------
(* What else writes keys meanwhile, in one step each (see WatchChannel).   *)

others == <<clock, jpc, page, batch, workers>>

\* /google-drive notifications stop and start; a zero record is not valid.
UserStop(k) ==
    /\ UsersAct /\ expires[k] # 0
    /\ Remove(k) /\ expires' = [expires EXCEPT ![k] = 0]
    /\ UNCHANGED others

UserStart(k) ==
    /\ UsersAct /\ expires[k] = 0
    /\ Insert(k) /\ expires' = [expires EXCEPT ![k] = interval + Life]
    /\ owed' = owed \ {k}
    /\ UNCHANGED others

\* The deferred store of a webhook, which had read the key after its record was
\* deleted: a zero record.
WebhookStore(k) ==
    /\ UsersAct /\ k \notin present
    /\ Insert(k)
    /\ UNCHANGED <<others, expires, owed>>

\* Tokens, states and last activities.
OtherKey(k) ==
    /\ UsersAct
    /\ \/ k \in present /\ Remove(k)
       \/ k \notin present /\ Insert(k) /\ UNCHANGED owed
    /\ UNCHANGED <<others, expires>>

JobNext ==
    \/ JobStart \/ Main \/ Tick
    \/ \E w \in Worker : WorkerStep(w)
    \/ \E k \in Records : UserStop(k) \/ UserStart(k) \/ WebhookStore(k)
    \/ \E k \in Keys \ Records : OtherKey(k)

JobSpec == JobInit /\ [][JobNext]_jobVars

\* The goroutines of a run that has begun are scheduled.
JobFairSpec == JobSpec /\ WF_jobVars(Main) /\ \A w \in Worker : WF_jobVars(WorkerStep(w))

-----------------------------------------------------------------------------
\* "we need to refresh (close old channel and start new one) them before they get
\* expired" (plugin.go:165-166): no stored record's channel is expired.  (The code
\* breaks this: it reads as seconds what counts milliseconds.)
NoneExpires == \A k \in Records \cap present : interval <= expires[k]

\* A run that ends has handed every record that was due to a worker, although users,
\* webhooks and workers store and delete keys while they are being paged through.
\* One is passed over only if a key before it was deleted while it waited for its
\* page (plugin.go:127), or behind a page that has keys, but none of a record
\* (plugin.go:112), or if listing failed.
EveryDueServed == jpc = "wait" /\ ~cutShort => owed \ lowered \subseteq served

\* Two workers renew the same user's channel at once only if a key before his was
\* stored after his had been listed, which lists it again.
OneWorkerPerUser ==
    \A v, w \in Worker :
        v # w /\ inHand[v] # NoKey /\ inHand[v] = inHand[w] => inHand[v] \in raised

\* A run ends: the unbuffered send always finds a worker that comes back to
\* receive, and the workers are all done after the channel is closed.
JobEnds == jpc # "idle" ~> jpc = "idle"
=============================================================================
