--------------------------- MODULE DeliveryProofs ---------------------------
(***************************************************************************)
(* With webhooks, commands and workers racing, failed writes and crashes:  *)
(* no change between a channel's creation and its saved page token is      *)
(* skipped, none is processed twice unless a save failed or a node died    *)
(* after it, and WatchChannel implements ChangeFeed.                       *)
(*                                                                         *)
(* The inductive invariant follows a page token from Google to the record: *)
(* WatchInv and StoreInv while a channel is set up, RecordInv in the KV    *)
(* store, HookInv in the one webhook that holds the mutex (LockInv), and   *)
(* Skipped for the history they leave behind.                              *)
(***************************************************************************)
EXTENDS WatchChannelProofs

Fetched == {"list", "activity", "dispatch", "save"}

\* The requests past LockWithContext hold the mutex, so there is at most one.
LockInv == \A p \in Proc : pc[p] \in Locked => lock = p

\* Channels Google has not created have no history.
ChanInv ==
    /\ head > 0
    /\ \A c \in Chan : IF chan[c] = "new" THEN opened[c] = 0 /\ cursor[c] = 0
                       ELSE opened[c] > 0 /\ opened[c] <= head

\* A start token is a position of the log.
WatchInv == \A p \in Proc : pc[p] = "watch" => 0 < pageToken[p] /\ pageToken[p] <= head

\* The channel about to be stored is known to nobody else.
StoreInv ==
    \A p \in Proc : pc[p] = "store" =>
        LET d == watchChannelData[p] IN
        /\ d.chan \in Chan /\ chan[d.chan] # "new"
        /\ 0 < d.page /\ d.page <= opened[d.chan]
        /\ cursor[d.chan] = 0
        /\ data.chan # d.chan
        /\ \A q \in Proc : q # p /\ pc[q] \in Fetched \cup {"store"}
                            => watchChannelData[q].chan # d.chan

\* The record's token is the last one saved for its channel.
RecordInv ==
    Valid(data) => /\ chan[data.chan] # "new"
                   /\ data.page = cursor[data.chan]
                   /\ 0 < data.page /\ data.page <= head

\* What the webhook that holds the mutex has fetched starts at the saved token,
\* and what it has passed, it has processed.
HookInv ==
    \A p \in Proc : pc[p] \in Fetched =>
        LET d == watchChannelData[p] IN
        d.chan \in Chan =>
            /\ chan[d.chan] # "new"
            /\ d.page = cursor[d.chan] /\ 0 < d.page
            /\ d.page <= next[p] /\ next[p] <= pageToken[p] /\ pageToken[p] <= head
            /\ pc[p] \in {"list", "activity"} => next[p] = d.page
            /\ pc[p] \in {"activity", "dispatch"} => next[p] < pageToken[p]
            /\ pc[p] = "save" => next[p] = pageToken[p]
            /\ \A k \in Nat : d.page <= k /\ k < next[p] => k \in handed[d.chan]

Skipped ==
    \A c \in Chan : \A k \in Nat :
        opened[c] <= k /\ k < cursor[c] => k \in handed[c]

FeedInv ==
    /\ LockInv /\ ChanInv /\ WatchInv /\ StoreInv /\ RecordInv /\ HookInv /\ Skipped

-----------------------------------------------------------------------------
(* Steps that leave the history alone.                                     *)

\* The other processes' local variables.
Others(p) ==
    \A q \in Proc : q # p =>
        /\ pc'[q] = pc[q] /\ watchChannelData'[q] = watchChannelData[q]
        /\ pageToken'[q] = pageToken[q] /\ next'[q] = next[q]

\* A process that returns changes nobody else's local variables.
LEMMA LeavesOthers ==
    ASSUME TypeOK, NEW p \in Proc, Return(p) \/ StopReturns(p)
    PROVE  Others(p) /\ pc'[p] \in {"idle", "getPage"}
BY DEF TypeOK, Return, StopReturns, Goto, Others

\* Neither does one that only moves on to another label.
LEMMA GotoLeavesOthers ==
    ASSUME TypeOK, NEW p \in Proc, NEW l, Goto(p, l),
           \/ UNCHANGED watchChannelData
           \/ \E x : watchChannelData' = [watchChannelData EXCEPT ![p] = x],
           UNCHANGED <<pageToken, next>>
    PROVE  Others(p) /\ pc'[p] = l
BY DEF TypeOK, Goto, Others

\* A process that ends up where it has neither the mutex nor a channel to
\* store, and has changed no shared variable but the lock, keeps the invariant.
LEMMA Frame ==
    ASSUME TypeOK, FeedInv, NEW p \in Proc, Others(p),
           pc'[p] \notin Locked \cup {"watch", "store"},
           UNCHANGED <<head, chan, opened, cursor, handed, data>>,
           UNCHANGED lock \/ (lock' \in {NoProc, Orphan} /\ lock = p)
    PROVE  FeedInv'
<1> USE DEF Others, FeedInv, Locked
<1>1. LockInv'
    BY ProcAssumption DEF LockInv, Proc
<1>2. ChanInv' /\ RecordInv' /\ Skipped'
    BY DEF ChanInv, RecordInv, Skipped, Valid
<1>3. WatchInv'
    BY DEF WatchInv
<1>4. StoreInv'
    BY DEF StoreInv, Fetched
<1>5. HookInv'
    BY DEF HookInv, Fetched
<1> QED BY <1>1, <1>2, <1>3, <1>4, <1>5

\* The invariant holds before anything has happened.
LEMMA FeedInit == Init => FeedInv
BY ChanAssumption DEF Init, FeedInv, LockInv, ChanInv, WatchInv, StoreInv, RecordInv,
   HookInv, Skipped, Locked, Fetched, Valid, Zero

-----------------------------------------------------------------------------
(* Setting up a channel.                                                   *)

\* GetStartPageToken answers a position of the log.
LEMMA GotToken ==
    ASSUME TypeOK, FeedInv, NEW p \in Proc,
           pageToken' = [pageToken EXCEPT ![p] = head], Goto(p, "watch"),
           UNCHANGED <<head, chan, opened, cursor, handed, data, lock,
                       watchChannelData, next>>
    PROVE  FeedInv'
<1> USE DEF FeedInv
<1>1. /\ pageToken'[p] = head /\ pc'[p] = "watch"
      /\ \A q \in Proc : q # p => pc'[q] = pc[q] /\ pageToken'[q] = pageToken[q]
    BY DEF TypeOK, Goto
<1>2. LockInv' /\ WatchInv'
    BY <1>1 DEF LockInv, WatchInv, ChanInv, Locked, TypeOK
<1>3. ChanInv' /\ RecordInv' /\ Skipped'
    BY DEF ChanInv, RecordInv, Skipped, Valid
<1>4. StoreInv' /\ HookInv'
    BY <1>1 DEF StoreInv, HookInv, Fetched
<1> QED BY <1>2, <1>3, <1>4

\* Google creates a channel nobody has heard of; p learns of it or not.
LEMMA Created ==
    ASSUME TypeOK, FeedInv, NEW p \in Proc, NEW c \in Chan, Others(p),
           pc[p] = "watch", chan[c] = "new",
           chan' = [chan EXCEPT ![c] = "live"],
           opened' = [opened EXCEPT ![c] = head],
           \/ pc'[p] \in {"idle", "getPage"}
           \/ /\ pc'[p] = "store"
              /\ watchChannelData'[p] = [chan |-> c, page |-> pageToken[p]],
           UNCHANGED <<head, cursor, handed, data, lock>>
    PROVE  FeedInv'
<1> USE DEF FeedInv, Others
<1>1. /\ chan'[c] = "live" /\ opened'[c] = head
      /\ \A d \in Chan : d # c => chan'[d] = chan[d] /\ opened'[d] = opened[d]
    BY DEF TypeOK
<1>2. cursor[c] = 0 /\ head > 0 /\ head \in Nat
    BY DEF ChanInv, TypeOK
<1>3. data.chan # c
    BY ChanAssumption DEF RecordInv, Valid
<1>4. \A q \in Proc : pc[q] \in Fetched \cup {"store"} => watchChannelData[q].chan # c
    BY DEF StoreInv, HookInv, Fetched
<1>5. LockInv' /\ WatchInv'
    BY DEF LockInv, WatchInv, Locked
<1>6. ChanInv'
    BY <1>1, <1>2 DEF ChanInv
<1>7. StoreInv'
    <2> SUFFICES ASSUME NEW r \in Proc, pc'[r] = "store" PROVE StoreInv!(r)'
        BY DEF StoreInv
    <2>1. CASE r = p
        BY <2>1, <1>1, <1>2, <1>3, <1>4 DEF WatchInv, Fetched
    <2>2. CASE r # p
        BY <2>2, <1>1, <1>3, <1>4 DEF StoreInv, Fetched
    <2> QED BY <2>1, <2>2
<1>8. RecordInv'
    <2>1. ASSUME Valid(data) PROVE data.chan \in Chan /\ data.chan # c
        BY <2>1, <1>3 DEF TypeOK, Record, AnyChan, Valid
    <2> QED BY <2>1, <1>1 DEF RecordInv, Valid
<1>9. HookInv'
    BY <1>1, <1>4 DEF HookInv, Fetched
<1>10. Skipped'
    BY <1>1, <1>2 DEF Skipped, TypeOK
<1> QED BY <1>5, <1>6, <1>7, <1>8, <1>9, <1>10

\* The channel enters the record with the token it was watched from.
LEMMA Stored ==
    ASSUME TypeOK, FeedInv, NEW p \in Proc, Others(p),
           pc[p] = "store", pc'[p] = "idle",
           data' = watchChannelData[p],
           SetCursor(watchChannelData[p].chan, watchChannelData[p].page),
           UNCHANGED <<head, chan, opened, handed, lock>>
    PROVE  FeedInv'
<1> DEFINE c == watchChannelData[p].chan
           k == watchChannelData[p].page
<1> USE DEF FeedInv, Others
<1>1. /\ c \in Chan /\ chan[c] # "new" /\ 0 < k /\ k <= opened[c] /\ k <= head
      /\ k \in Nat /\ head \in Nat /\ opened[c] \in Nat
    BY DEF StoreInv, ChanInv, TypeOK, Record
<1>2. cursor'[c] = k /\ \A d \in Chan : d # c => cursor'[d] = cursor[d]
    BY <1>1 DEF SetCursor
<1>3. \A q \in Proc : q # p /\ pc[q] \in Fetched \cup {"store"}
                        => watchChannelData[q].chan # c
    BY DEF StoreInv
<1>4. LockInv' /\ WatchInv' /\ ChanInv'
    BY <1>1, <1>2 DEF LockInv, WatchInv, ChanInv, Locked
<1>5. StoreInv'
    BY <1>2, <1>3 DEF StoreInv, Fetched
<1>6. RecordInv'
    BY <1>1, <1>2 DEF RecordInv, Valid
<1>7. HookInv'
    BY <1>2, <1>3 DEF HookInv, Fetched
<1>8. Skipped'
    BY <1>1, <1>2 DEF Skipped
<1> QED BY <1>4, <1>5, <1>6, <1>7, <1>8

-----------------------------------------------------------------------------
(* The webhook, from the mutex to the save.                                *)

\* Taking a free mutex.
LEMMA Acquired ==
    ASSUME TypeOK, FeedInv, NEW p \in Proc, Others(p),
           lock = NoProc, lock' = p, pc'[p] = "read",
           UNCHANGED <<head, chan, opened, cursor, handed, data>>
    PROVE  FeedInv'
<1> USE DEF FeedInv, Others
<1>1. LockInv'
    BY ProcAssumption DEF LockInv, Proc
<1>2. ChanInv' /\ RecordInv' /\ Skipped' /\ WatchInv'
    BY DEF ChanInv, RecordInv, Skipped, WatchInv, Valid
<1>3. StoreInv' /\ HookInv'
    BY DEF StoreInv, HookInv, Fetched
<1> QED BY <1>1, <1>2, <1>3

\* A step of the webhook that holds the mutex, up to the save: it must leave
\* its own part of HookInv true.
OwnHookInv(p) ==
    pc[p] \in Fetched =>
        LET d == watchChannelData[p] IN
        d.chan \in Chan =>
            /\ chan[d.chan] # "new"
            /\ d.page = cursor[d.chan] /\ 0 < d.page
            /\ d.page <= next[p] /\ next[p] <= pageToken[p] /\ pageToken[p] <= head
            /\ pc[p] \in {"list", "activity"} => next[p] = d.page
            /\ pc[p] \in {"activity", "dispatch"} => next[p] < pageToken[p]
            /\ pc[p] = "save" => next[p] = pageToken[p]
            /\ \A k \in Nat : d.page <= k /\ k < next[p] => k \in handed[d.chan]

\* A step of the webhook that holds the mutex, changing only its own locals,
\* keeps everything but what has to be said of that webhook itself.
LEMMA HookFrame ==
    ASSUME TypeOK, FeedInv, NEW p \in Proc, Others(p),
           pc[p] \in Locked, pc'[p] \in Locked,
           OwnHookInv(p)',
           \A q \in Proc : q # p /\ pc[q] = "store" /\ pc'[p] \in Fetched
                           => watchChannelData[q].chan # watchChannelData'[p].chan,
           \A c \in Chan : handed[c] \subseteq handed'[c],
           UNCHANGED <<head, chan, opened, cursor, data, lock>>
    PROVE  FeedInv'
<1> USE DEF FeedInv, Others
<1>1. LockInv' /\ WatchInv'
    BY DEF LockInv, WatchInv, Locked
<1>2. ChanInv' /\ RecordInv' /\ Skipped'
    BY DEF ChanInv, RecordInv, Skipped, Valid
<1>3. StoreInv'
    BY DEF StoreInv, Fetched, Locked
<1>4. HookInv'
    <2> SUFFICES ASSUME NEW r \in Proc, pc'[r] \in Fetched PROVE OwnHookInv(r)'
        BY DEF HookInv, OwnHookInv
    <2>1. CASE r = p
        BY <2>1
    <2>2. CASE r # p
        BY <2>2, ProcAssumption DEF LockInv, Locked, Fetched, Proc
    <2> QED BY <2>1, <2>2
<1> QED BY <1>1, <1>2, <1>3, <1>4

\* The saved token of the record that was read under the mutex moves on, over
\* what has been processed.
LEMMA Saved ==
    ASSUME TypeOK, FeedInv, NEW p \in Proc, Others(p),
           pc[p] = "save", pc'[p] = "unlock",
           data' = [chan |-> watchChannelData[p].chan, page |-> pageToken[p]],
           SetCursor(watchChannelData[p].chan, pageToken[p]),
           UNCHANGED <<head, chan, opened, handed, lock>>
    PROVE  FeedInv'
<1> DEFINE c == watchChannelData[p].chan
           k == pageToken[p]
<1> USE DEF FeedInv, Others
<1>1. c \in AnyChan /\ k \in Nat /\ \A d \in Chan : cursor[d] \in Nat /\ opened[d] \in Nat
    BY DEF TypeOK, Record
<1>2. ASSUME c \in Chan
      PROVE  /\ chan[c] # "new" /\ 0 < k /\ k <= head /\ cursor[c] <= k
             /\ \A j \in Nat : cursor[c] <= j /\ j < k => j \in handed[c]
    BY <1>2 DEF HookInv, Fetched, TypeOK
<1>3. \A d \in Chan : cursor'[d] = IF d = c THEN k ELSE cursor[d]
    BY DEF SetCursor
<1>4. \A q \in Proc : q # p => pc[q] \notin Locked
    BY DEF LockInv, Locked
<1>5. LockInv' /\ WatchInv'
    BY DEF LockInv, WatchInv, Locked
<1>6. ChanInv'
    BY <1>2, <1>3 DEF ChanInv
<1>7. StoreInv'
    BY <1>3, <1>4 DEF StoreInv, Fetched, Locked
<1>8. RecordInv'
    BY <1>1, <1>2, <1>3 DEF RecordInv, Valid, AnyChan
<1>9. HookInv'
    BY <1>4 DEF HookInv, Fetched, Locked
<1>10. Skipped'
    BY <1>1, <1>2, <1>3 DEF Skipped
<1> QED BY <1>5, <1>6, <1>7, <1>8, <1>9, <1>10

\* Reading the record again under the mutex starts the fetch at its token.
LEMMA HookReadStep ==
    ASSUME TypeOK, FeedInv, NEW p \in Proc, HookRead(p) PROVE FeedInv'
<1>1. CASE Goto(p, "unlock") /\ UNCHANGED <<watchChannelData, pageToken, next, calls>>
    <2>1. Others(p) /\ pc'[p] = "unlock"
        BY <1>1, GotoLeavesOthers
    <2> QED BY <2>1, HookFrame DEF HookRead, OwnHookInv, Fetched, Locked, google
<1>2. ASSUME NEW first, first = IF data.page = 0 THEN head ELSE data.page,
             watchChannelData' = [watchChannelData EXCEPT ![p] = data],
             pageToken' = [pageToken EXCEPT ![p] = first],
             next' = [next EXCEPT ![p] = first],
             Goto(p, "list")
      PROVE  FeedInv'
    <2>1. /\ Others(p) /\ pc'[p] = "list" /\ watchChannelData'[p] = data
          /\ pageToken'[p] = first /\ next'[p] = first
        BY <1>2 DEF Others, Goto, TypeOK
    <2>2. data.chan \in Chan => /\ chan[data.chan] # "new" /\ first = data.page
                                /\ data.page = cursor[data.chan]
                                /\ 0 < data.page /\ data.page <= head /\ data.page \in Nat
        BY <1>2, ChanAssumption DEF FeedInv, RecordInv, Valid, TypeOK, Record
    <2>3. OwnHookInv(p)'
        BY <2>1, <2>2 DEF OwnHookInv, HookRead, google
    <2>4. \A q \in Proc : pc[q] = "store" => watchChannelData[q].chan # data.chan
        BY DEF FeedInv, StoreInv
    <2> QED BY <2>1, <2>3, <2>4, HookFrame DEF HookRead, Locked, google
<1> QED BY <1>1, <1>2 DEF HookRead

\* A page of changes moves the fetched end forward, never past the log.
LEMMA HookListStep ==
    ASSUME TypeOK, FeedInv, NEW p \in Proc, HookList(p) PROVE FeedInv'
<1>0. \A q \in Proc : q # p /\ pc[q] = "store"
                       => watchChannelData[q].chan # watchChannelData[p].chan
    BY DEF FeedInv, StoreInv, HookList, Fetched
<1>1. CASE Goto(p, "unlock") /\ UNCHANGED <<pageToken, calls>>
    <2>1. Others(p) /\ pc'[p] = "unlock"
        BY <1>1, GotoLeavesOthers DEF HookList
    <2> QED BY <2>1, HookFrame DEF HookList, OwnHookInv, Fetched, Locked, google
<1>2. ASSUME NEW l \in {"list", "save", "activity"},
             l = "save" => PageEnd(pageToken[p]) = next[p],
             l = "activity" => PageEnd(pageToken[p]) # next[p],
             pageToken' = [pageToken EXCEPT ![p] = PageEnd(pageToken[p])],
             Goto(p, l)
      PROVE  FeedInv'
    <2>1. /\ Others(p) /\ pc'[p] = l /\ pageToken'[p] = PageEnd(pageToken[p])
          /\ UNCHANGED <<next, watchChannelData>>
        BY <1>2 DEF Others, Goto, TypeOK, HookList
    <2>2. pageToken[p] <= head => /\ PageEnd(pageToken[p]) \in Nat
                                  /\ PageEnd(pageToken[p]) <= head
                                  /\ pageToken[p] <= PageEnd(pageToken[p])
        BY NatAssumption DEF PageEnd, TypeOK
    <2>3. OwnHookInv(p)
        BY DEF FeedInv, HookInv, OwnHookInv
    <2>4. pageToken[p] \in Nat /\ next[p] \in Nat
        BY DEF TypeOK
    <2>5. OwnHookInv(p)'
        BY <1>2, <2>1, <2>2, <2>3, <2>4 DEF OwnHookInv, HookList, Fetched, google
    <2> QED BY <1>0, <1>2, <2>1, <2>5, HookFrame DEF HookList, Locked, google
<1>3. \E l \in {"list", "save", "activity"} :
        l = IF PageEnd(pageToken[p]) # head /\ calls[p] + 1 < MaxPages THEN "list"
            ELSE IF PageEnd(pageToken[p]) = next[p] THEN "save"
            ELSE "activity"
    OBVIOUS
<1> QED BY <1>1, <1>2, <1>3 DEF HookList

\* Going on to the changes, or back to the old token when that fails.
LEMMA HookActivityStep ==
    ASSUME TypeOK, FeedInv, NEW p \in Proc, HookActivity(p) PROVE FeedInv'
<1>0. \A q \in Proc : q # p /\ pc[q] = "store"
                       => watchChannelData[q].chan # watchChannelData[p].chan
    BY DEF FeedInv, StoreInv, HookActivity, Fetched
<1>1. OwnHookInv(p)
    BY DEF FeedInv, HookInv, OwnHookInv
<1>2. Others(p) /\ pc'[p] \in {"dispatch", "save"}
    BY DEF HookActivity, Goto, Others, TypeOK
<1>3. CASE Goto(p, "dispatch") /\ UNCHANGED pageToken
    <2>1. pc'[p] = "dispatch"
        BY <1>3 DEF Goto, TypeOK
    <2> QED BY <1>0, <1>1, <1>2, <1>3, <2>1, HookFrame
            DEF HookActivity, OwnHookInv, Fetched, Locked, google
<1>4. CASE /\ pageToken' = [pageToken EXCEPT ![p] = watchChannelData[p].page]
           /\ Goto(p, "save")
    <2>1. pc'[p] = "save" /\ pageToken'[p] = watchChannelData[p].page
        BY <1>4 DEF Goto, TypeOK
    <2>2. head \in Nat /\ next[p] \in Nat /\ pageToken[p] \in Nat
        BY DEF TypeOK
    <2>3. OwnHookInv(p)'
        BY <1>1, <2>1, <2>2 DEF HookActivity, OwnHookInv, Fetched, google
    <2> QED BY <1>0, <1>2, <2>3, HookFrame DEF HookActivity, Locked, google
<1> QED BY <1>3, <1>4 DEF HookActivity

\* One more change is processed and passed.
LEMMA HookDispatchStep ==
    ASSUME TypeOK, FeedInv, NEW p \in Proc, HookDispatch(p) PROVE FeedInv'
<1>0. \A q \in Proc : q # p /\ pc[q] = "store"
                       => watchChannelData[q].chan # watchChannelData[p].chan
    BY DEF FeedInv, StoreInv, HookDispatch, Fetched
<1>1. OwnHookInv(p)
    BY DEF FeedInv, HookInv, OwnHookInv
<1>2. /\ Others(p) /\ next'[p] = next[p] + 1 /\ next[p] \in Nat /\ pageToken[p] \in Nat
      /\ pc'[p] = IF next[p] + 1 = pageToken[p] THEN "save" ELSE "dispatch"
    BY DEF HookDispatch, Goto, Others, TypeOK
<1>3. \A c \in Chan : handed'[c] = IF c = watchChannelData[p].chan
                                    THEN handed[c] \cup {next[p]} ELSE handed[c]
    BY DEF HookDispatch
<1>4. OwnHookInv(p)'
    <2> SUFFICES ASSUME watchChannelData[p].chan \in Chan PROVE OwnHookInv(p)'
        BY DEF OwnHookInv, HookDispatch
    <2>1. watchChannelData[p].page \in Nat
        BY DEF TypeOK, Record
    <2> QED BY <1>1, <1>2, <1>3, <2>1 DEF OwnHookInv, HookDispatch, Fetched, google
<1> QED BY <1>0, <1>2, <1>3, <1>4, HookFrame DEF HookDispatch, Locked, google

-----------------------------------------------------------------------------
\* A channel that a process is about to delete, stop or store exists.
LEMMA NamedStep ==
    ASSUME TypeOK, FeedInv, Named, [Next]_vars PROVE Named'
<1> SUFFICES ASSUME NEW r \in Proc, Holding(r)'
             PROVE  /\ watchChannelData'[r].chan \in Chan
                    /\ chan'[watchChannelData'[r].chan] # "new"
    BY DEF Named
<1> DEFINE Known ==
        \/ Holding(r) /\ watchChannelData'[r] = watchChannelData[r]
        \/ watchChannelData'[r] = data /\ Valid(data)
        \/ \E c \in Chan : watchChannelData'[r].chan = c /\ chan'[c] = "live"
<1> USE DEF Goto, google, locals, Holding
<1>1. \A c \in Chan : chan[c] # "new" => chan'[c] # "new"
    <2>1. CASE \E p \in Proc : Watch(p)
        BY <2>1 DEF Watch, TypeOK
    <2>2. CASE \E p \in Proc : StopChannel(p)
        BY <2>2 DEF StopChannel, TypeOK
    <2>3. CASE /\ ~ \E p \in Proc : Watch(p)
               /\ ~ \E p \in Proc : StopChannel(p)
        <3>1. UNCHANGED chan
            BY <2>3 DEF Next, Steps, vars, StartCheck, StopCheck, RefreshPick, Crash,
               GetStartPageToken, StoreChannel, WorkerStopCheck, DeleteChannel, HookLock,
               HookRead, HookList, HookActivity, HookDispatch, HookSave, HookUnlock,
               HookCheck, Change, LockExpires
        <3> QED BY <3>1
    <2> QED BY <2>1, <2>2, <2>3
<1>2. Valid(data) => data.chan \in Chan /\ chan[data.chan] # "new"
    BY DEF FeedInv, RecordInv, Valid, TypeOK, Record, AnyChan
<1>3. Known
    <2>1. ASSUME NEW p \in Proc, Watch(p) PROVE Known
        BY <2>1 DEF Watch, Return, TypeOK
    <2>2. ASSUME NEW p \in Proc, StopCheck(p) \/ WorkerStopCheck(p) PROVE Known
        BY <2>2 DEF StopCheck, WorkerStopCheck, StopReturns, Return, TypeOK
    <2>3. ASSUME NEW p \in Proc, HookRead(p) PROVE Known
        BY <2>3 DEF HookRead, TypeOK
    <2>4. ASSUME NEW p \in Proc,
                 \/ StartCheck(p) \/ RefreshPick(p) \/ Crash(p) \/ GetStartPageToken(p)
                 \/ StoreChannel(p) \/ DeleteChannel(p) \/ StopChannel(p) \/ HookLock(p)
                 \/ HookUnlock(p)
          PROVE  Known
        BY <2>4 DEF StartCheck, RefreshPick, Crash, GetStartPageToken, StoreChannel,
                    DeleteChannel, StopChannel, HookLock, HookUnlock, StopReturns, Return,
                    TypeOK
    <2>5. ASSUME NEW p \in Proc,
                 HookList(p) \/ HookActivity(p) \/ HookDispatch(p) \/ HookSave(p)
          PROVE  Known
        BY <2>5 DEF HookList, HookActivity, HookDispatch, HookSave, TypeOK
    <2>6. CASE (\E p \in Hooks, c \in Chan : HookCheck(p, c)) \/ Change \/ LockExpires
               \/ UNCHANGED vars
        BY <2>6 DEF HookCheck, Change, LockExpires, vars, TypeOK, Proc
    <2> QED BY <2>1, <2>2, <2>3, <2>4, <2>5, <2>6 DEF Next, Steps
<1> QED BY <1>1, <1>2, <1>3 DEF Named

\* Every step keeps the invariant; one case per action.
LEMMA FeedStep ==
    ASSUME TypeOK, FeedInv, Named, [Next]_vars PROVE FeedInv'
<1> USE DEF google, locals, Locked
<1>1. CASE UNCHANGED vars
    BY <1>1 DEF vars, FeedInv, LockInv, ChanInv, WatchInv, StoreInv, RecordInv, HookInv,
                Skipped, Fetched, Valid
<1>2. ASSUME NEW p \in Proc, StartCheck(p) PROVE FeedInv'
    <2>1. Others(p) /\ pc'[p] \in {"idle", "getPage"}
        BY <1>2 DEF StartCheck, Others, Goto, TypeOK
    <2> QED BY <1>2, <2>1, Frame DEF StartCheck
<1>3. ASSUME NEW p \in Proc, StopCheck(p) PROVE FeedInv'
    <2>1. Others(p) /\ pc'[p] \in {"idle", "delete"}
        BY <1>3 DEF StopCheck, Others, Goto, TypeOK
    <2> QED BY <1>3, <2>1, Frame DEF StopCheck
<1>4. ASSUME NEW p \in Proc, RefreshPick(p) PROVE FeedInv'
    <2>1. Others(p) /\ pc'[p] = "stopRead"
        BY <1>4, GotoLeavesOthers DEF RefreshPick
    <2> QED BY <1>4, <2>1, Frame DEF RefreshPick
<1>5. ASSUME NEW p \in Proc, GetStartPageToken(p) PROVE FeedInv'
    <2>1. CASE Return(p)
        BY <1>5, <2>1, LeavesOthers, Frame DEF GetStartPageToken
    <2>2. CASE /\ pageToken' = [pageToken EXCEPT ![p] = head] /\ Goto(p, "watch")
               /\ UNCHANGED <<watchChannelData, next, calls>>
        BY <1>5, <2>2, GotToken DEF GetStartPageToken
    <2> QED BY <1>5, <2>1, <2>2 DEF GetStartPageToken
<1>6. ASSUME NEW p \in Proc, Watch(p) PROVE FeedInv'
    <2>1. CASE Return(p) /\ UNCHANGED <<chan, opened>>
        BY <1>6, <2>1, LeavesOthers, Frame DEF Watch
    <2>2. ASSUME NEW c \in Chan, chan[c] = "new", chan' = [chan EXCEPT ![c] = "live"],
                 opened' = [opened EXCEPT ![c] = head], Return(p)
          PROVE  FeedInv'
        BY <1>6, <2>2, LeavesOthers, Created DEF Watch
    <2>3. ASSUME NEW c \in Chan, chan[c] = "new", chan' = [chan EXCEPT ![c] = "live"],
                 opened' = [opened EXCEPT ![c] = head],
                 watchChannelData' =
                     [watchChannelData EXCEPT ![p] = [chan |-> c, page |-> pageToken[p]]],
                 Goto(p, "store"), UNCHANGED <<pageToken, next, calls>>
          PROVE  FeedInv'
        <3>1. /\ Others(p) /\ pc'[p] = "store"
              /\ watchChannelData'[p] = [chan |-> c, page |-> pageToken[p]]
            BY <2>3 DEF Others, Goto, TypeOK
        <3> QED BY <1>6, <2>3, <3>1, Created DEF Watch
    <2> QED BY <1>6, <2>1, <2>2, <2>3 DEF Watch
<1>7. ASSUME NEW p \in Proc, StoreChannel(p) PROVE FeedInv'
    <2>1. Others(p) /\ pc'[p] = "idle"
        BY <1>7 DEF StoreChannel, Return, Goto, Others, TypeOK
    <2>2. CASE UNCHANGED <<data, cursor, told>>
        BY <1>7, <2>1, <2>2, Frame DEF StoreChannel
    <2>3. CASE /\ data' = watchChannelData[p]
               /\ SetCursor(watchChannelData[p].chan, watchChannelData[p].page)
        BY <1>7, <2>1, <2>3, Stored DEF StoreChannel
    <2> QED BY <1>7, <2>2, <2>3 DEF StoreChannel
<1>8. ASSUME NEW p \in Proc, WorkerStopCheck(p) PROVE FeedInv'
    <2>1. Others(p) /\ pc'[p] \in {"idle", "getPage", "delete"}
        BY <1>8 DEF WorkerStopCheck, StopReturns, Return, Goto, Others, TypeOK
    <2> QED BY <1>8, <2>1, Frame DEF WorkerStopCheck
<1>9. ASSUME NEW p \in Proc, DeleteChannel(p) PROVE FeedInv'
    <2>1. CASE StopReturns(p) /\ UNCHANGED data
        BY <1>9, <2>1, LeavesOthers, Frame DEF DeleteChannel
    <2>2. CASE data' = Zero /\ Goto(p, "stopRemote")
              /\ UNCHANGED <<watchChannelData, pageToken, next, calls>>
        <3>1. Others(p) /\ pc'[p] = "stopRemote"
            BY <2>2, GotoLeavesOthers
        <3>2. StoreInv'
            BY <1>9, <2>2, <3>1, ChanAssumption
            DEF FeedInv, StoreInv, Fetched, Zero, DeleteChannel, Others
        <3>3. LockInv' /\ ChanInv' /\ WatchInv' /\ Skipped' /\ RecordInv'
            BY <1>9, <2>2, <3>1 DEF FeedInv, LockInv, ChanInv, WatchInv, Skipped,
                                   RecordInv, Valid, Zero, DeleteChannel, Others
        <3>4. HookInv'
            BY <1>9, <2>2, <3>1 DEF FeedInv, HookInv, Fetched, DeleteChannel, Others
        <3> QED BY <3>2, <3>3, <3>4 DEF FeedInv
    <2> QED BY <1>9, <2>1, <2>2 DEF DeleteChannel
<1>10. ASSUME NEW p \in Proc, StopChannel(p) PROVE FeedInv'
    <2>1. Others(p) /\ pc'[p] \in {"idle", "getPage"}
        BY <1>10, LeavesOthers DEF StopChannel
    <2>2. CASE UNCHANGED <<chan, told>>
        BY <1>10, <2>1, <2>2, Frame DEF StopChannel
    <2>3. CASE chan' = [chan EXCEPT ![watchChannelData[p].chan] = "stopped"]
        <3>1. \A c \in Chan : chan'[c] = "new" <=> chan[c] = "new"
            BY <1>10, <2>3 DEF TypeOK, Named, Holding, StopChannel
        <3>2. ChanInv' /\ Skipped' /\ LockInv' /\ WatchInv'
            BY <1>10, <2>1, <3>1 DEF FeedInv, ChanInv, Skipped, LockInv, WatchInv,
                                    StopChannel, Others
        <3>3. RecordInv'
            BY <1>10, <3>1 DEF FeedInv, RecordInv, Valid, StopChannel, TypeOK, Record,
                              AnyChan
        <3>4. StoreInv' /\ HookInv'
            BY <1>10, <2>1, <3>1 DEF FeedInv, StoreInv, HookInv, Fetched, StopChannel,
                                    Others
        <3> QED BY <3>2, <3>3, <3>4 DEF FeedInv
    <2> QED BY <1>10, <2>2, <2>3 DEF StopChannel
<1>11. ASSUME NEW p \in Proc, HookLock(p) PROVE FeedInv'
    <2>1. CASE Return(p) /\ UNCHANGED lock
        BY <1>11, <2>1, LeavesOthers, Frame DEF HookLock
    <2>2. CASE /\ lock = NoProc /\ lock' = p /\ Goto(p, "read")
               /\ UNCHANGED <<watchChannelData, pageToken, next, calls>>
        BY <1>11, <2>2, GotoLeavesOthers, Acquired DEF HookLock
    <2> QED BY <1>11, <2>1, <2>2 DEF HookLock
<1>12. ASSUME NEW p \in Proc,
              HookRead(p) \/ HookList(p) \/ HookActivity(p) \/ HookDispatch(p)
       PROVE  FeedInv'
    BY <1>12, HookReadStep, HookListStep, HookActivityStep, HookDispatchStep
<1>13. ASSUME NEW p \in Proc, HookSave(p) PROVE FeedInv'
    <2>1. Others(p) /\ pc'[p] = "unlock"
        BY <1>13, GotoLeavesOthers DEF HookSave
    <2>2. CASE UNCHANGED <<data, cursor>>
        BY <1>13, <2>1, <2>2, HookFrame DEF HookSave, OwnHookInv, Fetched
    <2>3. CASE /\ data' = [chan |-> watchChannelData[p].chan, page |-> pageToken[p]]
               /\ SetCursor(watchChannelData[p].chan, pageToken[p])
        BY <1>13, <2>1, <2>3, Saved DEF HookSave
    <2> QED BY <1>13, <2>2, <2>3 DEF HookSave
<1>14. ASSUME NEW p \in Proc, HookUnlock(p) PROVE FeedInv'
    <2>1. lock = p
        BY <1>14 DEF HookUnlock, FeedInv, LockInv
    <2> QED BY <1>14, <2>1, LeavesOthers, Frame DEF HookUnlock
<1>15. ASSUME NEW p \in Proc, Crash(p) PROVE FeedInv'
    BY <1>15, LeavesOthers, Frame DEF Crash
<1>16. ASSUME NEW p \in Hooks, NEW c \in Chan, HookCheck(p, c) PROVE FeedInv'
    <2>1. p \in Proc
        BY DEF Proc
    <2>2. Others(p) /\ pc'[p] = "lock"
        BY <1>16, <2>1, GotoLeavesOthers DEF HookCheck
    <2> QED BY <1>16, <2>1, <2>2, Frame DEF HookCheck
<1>17. CASE Change
    <2>1. /\ head' = head + 1 /\ head \in Nat
          /\ pageToken \in [Proc -> Nat] /\ opened \in [Chan -> Nat] /\ data \in Record
        BY <1>17 DEF Change, TypeOK
    <2>2. LockInv' /\ ChanInv' /\ WatchInv' /\ Skipped'
        BY <1>17, <2>1 DEF Change, FeedInv, LockInv, ChanInv, WatchInv, Skipped
    <2>3. StoreInv' /\ RecordInv' /\ HookInv'
        BY <1>17, <2>1 DEF Change, FeedInv, StoreInv, RecordInv, HookInv, Fetched, Valid,
                          Record
    <2> QED BY <2>2, <2>3 DEF FeedInv
<1>18. CASE LockExpires
    <2>1. LockInv'
        BY <1>18, ProcAssumption DEF LockExpires, FeedInv, LockInv, Proc
    <2>2. ChanInv' /\ WatchInv' /\ Skipped' /\ StoreInv' /\ RecordInv' /\ HookInv'
        BY <1>18 DEF LockExpires, FeedInv, ChanInv, WatchInv, Skipped, StoreInv, RecordInv,
                     HookInv, Fetched, Valid
    <2> QED BY <2>1, <2>2 DEF FeedInv
<1> QED
    BY <1>1, <1>2, <1>3, <1>4, <1>5, <1>6, <1>7, <1>8, <1>9, <1>10, <1>11, <1>12, <1>13,
       <1>14, <1>15, <1>16, <1>17, <1>18
    DEF Next, Steps

\* The invariant, with the types and the naming it rests on, always holds.
LEMMA FeedAlways == Spec => [](TypeOK /\ FeedInv /\ Named)
<1>1. Init => TypeOK /\ FeedInv /\ Named
    BY TypeInit, FeedInit, CommandInit DEF CommandInv
<1>2. TypeOK /\ FeedInv /\ Named /\ [Next]_vars => (TypeOK /\ FeedInv /\ Named)'
    BY TypeStep, FeedStep, NamedStep
<1> QED BY <1>1, <1>2, PTL DEF Spec

\* No webhook, however it is delayed, fails, crashes or races, saves a token
\* that passes over a change it or an earlier one has not processed.
THEOREM NothingIsSkipped == Spec => []NoChangeSkipped
<1>1. TypeOK /\ FeedInv => NoChangeSkipped
    BY NatAssumption DEF FeedInv, Skipped, NoChangeSkipped
<1> QED BY <1>1, FeedAlways, PTL

-----------------------------------------------------------------------------
(* WatchChannel implements ChangeFeed.                                     *)

\* Creating a channel is Open, or nothing if Google refuses.
LEMMA WatchRefines ==
    ASSUME TypeOK, FeedInv, NEW p \in Proc, Watch(p)
    PROVE  [Feed!Next]_(Feed!feedVars)
<1>1. CASE UNCHANGED <<chan, opened>>
    BY <1>1 DEF Watch, Feed!feedVars
<1>2. ASSUME NEW c \in Chan, chan[c] = "new", opened' = [opened EXCEPT ![c] = head]
      PROVE  Feed!Next
    <2>1. opened[c] = 0
        BY <1>2 DEF FeedInv, ChanInv
    <2>2. Feed!Open(c)
        BY <1>2, <2>1 DEF Watch, Feed!Open
    <2> QED BY <2>2 DEF Feed!Next
<1> QED BY <1>1, <1>2 DEF Watch

\* The first token stored for a channel is where its position begins.
LEMMA StoreRefines ==
    ASSUME TypeOK, FeedInv, NEW p \in Proc, StoreChannel(p)
    PROVE  [Feed!Next]_(Feed!feedVars)
<1> DEFINE c == watchChannelData[p].chan
           pos == watchChannelData[p].page
<1>1. CASE UNCHANGED cursor
    BY <1>1 DEF StoreChannel, google, Feed!feedVars
<1>2. CASE SetCursor(c, pos)
    <2>1. /\ c \in Chan /\ chan[c] # "new"
          /\ 0 < pos /\ pos <= opened[c] /\ cursor[c] = 0
        BY DEF FeedInv, StoreInv, StoreChannel
    <2>2. 0 < opened[c] /\ opened[c] <= head
        BY <2>1 DEF FeedInv, ChanInv
    <2>3. pos \in Nat /\ opened[c] \in Nat /\ head \in Nat
        BY <2>1 DEF TypeOK, Record
    <2>4. cursor' = [cursor EXCEPT ![c] = pos]
        BY <1>2, <2>1 DEF SetCursor, TypeOK
    <2>5. Feed!Begin(c, pos)
        BY <2>1, <2>2, <2>3, <2>4 DEF Feed!Begin, StoreChannel, google
    <2>6. pos \in 1 .. head
        BY <2>1, <2>2, <2>3
    <2> QED BY <2>1, <2>5, <2>6 DEF Feed!Next
<1> QED BY <1>1, <1>2 DEF StoreChannel

\* What HookInv says of a webhook whose record names a channel.
LEMMA Fetching ==
    ASSUME TypeOK, FeedInv, NEW p \in Proc, pc[p] \in {"dispatch", "save"},
           NEW c, c = watchChannelData[p].chan, c \in Chan
    PROVE  /\ cursor[c] \in Nat /\ next[p] \in Nat /\ pageToken[p] \in Nat /\ head \in Nat
           /\ 0 < cursor[c] /\ cursor[c] <= next[p] /\ pageToken[p] <= head
           /\ pc[p] = "dispatch" => next[p] < pageToken[p]
           /\ pc[p] = "save" => next[p] = pageToken[p]
           /\ \A k \in Nat : cursor[c] <= k /\ k < next[p] => k \in handed[c]
BY DEF FeedInv, HookInv, Fetched, TypeOK

\* Processing a change is Process, or nothing for a junk record.
LEMMA DispatchRefines ==
    ASSUME TypeOK, FeedInv, NEW p \in Proc, HookDispatch(p)
    PROVE  [Feed!Next]_(Feed!feedVars)
<1> DEFINE c == watchChannelData[p].chan
           k == next[p]
<1>0. pc[p] = "dispatch"
    BY DEF HookDispatch
<1>1. CASE c \notin Chan
    <2>1. handed' = handed
        BY <1>1 DEF HookDispatch, TypeOK
    <2> QED BY <2>1 DEF HookDispatch, google, Feed!feedVars
<1>2. CASE c \in Chan
    <2>1. handed' = [handed EXCEPT ![c] = @ \cup {k}]
        BY <1>2 DEF HookDispatch, TypeOK
    <2>2. Feed!Process(c, k)
        <3>1. cursor[c] # 0 /\ cursor[c] <= k /\ k < head
            BY <1>0, <1>2, Fetching
        <3>2. \A j \in cursor[c] .. k - 1 : j \in handed[c]
            BY <1>0, <1>2, Fetching
        <3> QED BY <2>1, <3>1, <3>2 DEF Feed!Process, HookDispatch, google
    <2>3. k \in 1 .. head
        BY <1>0, <1>2, Fetching
    <2> QED BY <1>2, <2>2, <2>3 DEF Feed!Next
<1> QED BY <1>1, <1>2

\* Saving the token is Advance, or nothing if it has not moved.
LEMMA SaveRefines ==
    ASSUME TypeOK, FeedInv, NEW p \in Proc, HookSave(p)
    PROVE  [Feed!Next]_(Feed!feedVars)
<1> DEFINE c == watchChannelData[p].chan
           pos == pageToken[p]
<1>0. pc[p] = "save"
    BY DEF HookSave
<1>1. CASE UNCHANGED cursor
    BY <1>1 DEF HookSave, google, Feed!feedVars
<1>2. CASE c \notin Chan /\ SetCursor(c, pos)
    <2>1. cursor' = cursor
        BY <1>2 DEF SetCursor, TypeOK
    <2> QED BY <1>1, <2>1
<1>3. CASE c \in Chan /\ SetCursor(c, pos)
    <2>1. cursor' = [cursor EXCEPT ![c] = pos]
        BY <1>3 DEF SetCursor, TypeOK
    <2>2. CASE cursor[c] = pos
        BY <1>1, <2>1, <2>2 DEF TypeOK
    <2>3. CASE cursor[c] # pos
        <3>1. cursor[c] # 0 /\ cursor[c] < pos /\ pos <= head
            BY <1>0, <1>3, <2>3, Fetching
        <3>2. \A j \in cursor[c] .. pos - 1 : j \in handed[c]
            BY <1>0, <1>3, Fetching
        <3>3. Feed!Advance(c, pos)
            BY <2>1, <3>1, <3>2 DEF Feed!Advance, HookSave, google
        <3>4. pos \in 1 .. head
            BY <1>0, <1>3, Fetching
        <3> QED BY <1>3, <3>3, <3>4 DEF Feed!Next
    <2> QED BY <2>2, <2>3
<1> QED BY <1>1, <1>2, <1>3 DEF HookSave

\* Every other action leaves the feed alone, except Change, which is Grow.
LEMMA StepRefines ==
    ASSUME TypeOK, FeedInv, [Next]_vars PROVE [Feed!Next]_(Feed!feedVars)
<1>1. ASSUME NEW p \in Proc, Watch(p) PROVE [Feed!Next]_(Feed!feedVars)
    BY <1>1, WatchRefines
<1>2. ASSUME NEW p \in Proc, StoreChannel(p) PROVE [Feed!Next]_(Feed!feedVars)
    BY <1>2, StoreRefines
<1>3. ASSUME NEW p \in Proc, HookDispatch(p) PROVE [Feed!Next]_(Feed!feedVars)
    BY <1>3, DispatchRefines
<1>4. ASSUME NEW p \in Proc, HookSave(p) PROVE [Feed!Next]_(Feed!feedVars)
    BY <1>4, SaveRefines
<1>5. CASE Change
    BY <1>5 DEF Change, Feed!Next, Feed!Grow
<1>6. ASSUME NEW p \in Proc,
             \/ StartCheck(p) \/ StopCheck(p) \/ RefreshPick(p) \/ Crash(p)
             \/ GetStartPageToken(p) \/ WorkerStopCheck(p) \/ DeleteChannel(p)
             \/ StopChannel(p) \/ HookLock(p) \/ HookRead(p) \/ HookList(p)
             \/ HookActivity(p) \/ HookUnlock(p)
      PROVE  UNCHANGED Feed!feedVars
    BY <1>6 DEF StartCheck, StopCheck, RefreshPick, Crash, GetStartPageToken,
                WorkerStopCheck, DeleteChannel, StopChannel, HookLock, HookRead, HookList,
                HookActivity, HookUnlock, google, Feed!feedVars
<1>7. CASE (\E p \in Hooks, c \in Chan : HookCheck(p, c)) \/ LockExpires \/ UNCHANGED vars
    BY <1>7 DEF HookCheck, LockExpires, vars, google, Feed!feedVars
<1> QED BY <1>1, <1>2, <1>3, <1>4, <1>5, <1>6, <1>7 DEF Next, Steps

\* Every step of the commands, workers and webhooks is a step of the change
\* feed or leaves it alone: for any number of them the saved page token moves
\* forward only, over changes that were processed in order.
THEOREM RefinesChangeFeed == Spec => ImplementsChangeFeed
<1>1. Init => Feed!Init
    BY DEF Init, Feed!Init
<1>2. TypeOK /\ FeedInv /\ [Next]_vars => [Feed!Next]_(Feed!feedVars)
    BY StepRefines
<1> QED BY <1>1, <1>2, FeedAlways, PTL DEF Spec, ImplementsChangeFeed, Feed!Spec

-----------------------------------------------------------------------------
(***************************************************************************)
(* No change is processed twice.                                           *)
(*                                                                         *)
(* HandedOnce is not inductive: it speaks of the change at hand only.      *)
(* OnceInv speaks of all that were processed: they lie below the saved     *)
(* page token, or behind a webhook that has the mutex and is to save.      *)
(***************************************************************************)

\* p has processed changes of channel c, up to and without next[p], and has not
\* yet saved its page token.
Passing(p, c) == pc[p] \in {"dispatch", "save"} /\ watchChannelData[p].chan = c

OnceInv ==
    \A c \in Chan \ redo : \A k \in handed[c] :
        k < cursor[c] \/ \E p \in Proc : Passing(p, c) /\ k < next[p]

\* Nothing is processed at the start.
LEMMA OnceInit == Init => OnceInv
BY DEF Init, OnceInv

\* Only one process is passing, because it holds the mutex.
LEMMA OnePasses ==
    ASSUME FeedInv, NEW p \in Proc, NEW q \in Proc, NEW c, NEW d, Passing(p, c), Passing(q, d)
    PROVE  p = q
BY DEF FeedInv, LockInv, Locked, Passing

\* A step of a process that was not passing keeps the invariant, if it leaves
\* the history alone.
LEMMA OnceFrame ==
    ASSUME OnceInv, NEW p \in Proc, Others(p), pc[p] \notin {"dispatch", "save"},
           UNCHANGED <<handed, cursor, redo>>
    PROVE  OnceInv'
<1>1. \A q \in Proc, c \in Chan : Passing(q, c) => Passing(q, c)' /\ next'[q] = next[q]
    BY DEF Passing, Others
<1> QED BY <1>1 DEF OnceInv

\* A passing process that stops without saving: what it has processed may be
\* processed again.
LEMMA OnceLost ==
    ASSUME OnceInv, NEW p \in Proc, Others(p), Unsaved(p),
           UNCHANGED <<handed, cursor>>
    PROVE  OnceInv'
<1> SUFFICES ASSUME NEW c \in Chan \ redo', NEW k \in handed[c]
             PROVE  k < cursor[c] \/ \E q \in Proc : Passing(q, c)' /\ k < next'[q]
    BY DEF OnceInv
<1>1. c \in Chan \ redo /\ c # watchChannelData[p].chan
    BY DEF Unsaved
<1>2. CASE k < cursor[c]
    BY <1>2
<1>3. CASE \E q \in Proc : Passing(q, c) /\ k < next[q]
    <2>1. PICK q \in Proc : Passing(q, c) /\ k < next[q]
        BY <1>3
    <2>2. q # p
        BY <1>1, <2>1 DEF Passing
    <2> QED BY <2>1, <2>2 DEF Others, Passing
<1> QED BY <1>1, <1>2, <1>3 DEF OnceInv

\* Processing a change puts it behind the process.
LEMMA OnceDispatch ==
    ASSUME TypeOK, OnceInv, NEW p \in Proc, HookDispatch(p)
    PROVE  OnceInv'
<1>1. /\ next[p] \in Nat /\ next'[p] = next[p] + 1
      /\ \A q \in Proc : q # p => next'[q] = next[q] /\ pc'[q] = pc[q]
      /\ pc[p] = "dispatch" /\ pc'[p] \in {"dispatch", "save"}
      /\ UNCHANGED <<watchChannelData, cursor, redo>>
    BY DEF HookDispatch, TypeOK, Goto
<1> SUFFICES ASSUME NEW c \in Chan \ redo, NEW k \in handed'[c]
             PROVE  k < cursor[c] \/ \E q \in Proc : Passing(q, c)' /\ k < next'[q]
    BY <1>1 DEF OnceInv
<1>2. CASE k \in handed[c]
    <2>1. CASE k < cursor[c]
        BY <2>1
    <2>2. CASE \E q \in Proc : Passing(q, c) /\ k < next[q]
        <3>1. PICK q \in Proc : Passing(q, c) /\ k < next[q]
            BY <2>2
        <3>2. k \in Nat
            BY <1>2 DEF TypeOK
        <3> QED BY <1>1, <3>1, <3>2 DEF Passing
    <2> QED BY <1>2, <2>1, <2>2 DEF OnceInv
<1>3. CASE k \notin handed[c]
    <2>1. c = watchChannelData[p].chan /\ k = next[p]
        BY <1>3 DEF HookDispatch
    <2> QED BY <1>1, <2>1 DEF Passing
<1> QED BY <1>2, <1>3

\* Saving puts all that was processed below the saved token.
LEMMA OnceSaved ==
    ASSUME TypeOK, FeedInv, OnceInv, NEW p \in Proc, Others(p), pc[p] = "save",
           SetCursor(watchChannelData[p].chan, pageToken[p]),
           UNCHANGED <<handed, redo>>
    PROVE  OnceInv'
<1> SUFFICES ASSUME NEW c \in Chan \ redo, NEW k \in handed[c]
             PROVE  k < cursor'[c] \/ \E q \in Proc : Passing(q, c)' /\ k < next'[q]
    BY DEF OnceInv
<1>1. k < cursor[c] \/ \E q \in Proc : Passing(q, c) /\ k < next[q]
    BY DEF OnceInv
<1>2. CASE c = watchChannelData[p].chan
    <2>1. /\ cursor'[c] = pageToken[p] /\ next[p] = pageToken[p] /\ cursor[c] <= next[p]
          /\ cursor[c] \in Nat /\ next[p] \in Nat
        BY <1>2, Fetching DEF SetCursor
    <2>2. k \in Nat
        BY DEF TypeOK
    <2>3. ASSUME NEW q \in Proc, Passing(q, c) PROVE q = p
        BY <2>3, <1>2, OnePasses DEF Passing
    <2> QED BY <1>1, <2>1, <2>2, <2>3
<1>3. CASE c # watchChannelData[p].chan
    <2>1. cursor'[c] = cursor[c]
        BY <1>3 DEF SetCursor
    <2>2. ASSUME NEW q \in Proc, Passing(q, c) PROVE Passing(q, c)' /\ next'[q] = next[q]
        BY <2>2, <1>3 DEF Passing, Others
    <2> QED BY <1>1, <2>1, <2>2
<1> QED BY <1>2, <1>3

\* A channel whose first token is stored has had nothing processed.
LEMMA OnceStored ==
    ASSUME TypeOK, FeedInv, OnceInv, NEW p \in Proc, Others(p), pc[p] = "store",
           SetCursor(watchChannelData[p].chan, watchChannelData[p].page),
           UNCHANGED <<handed, redo>>
    PROVE  OnceInv'
<1> DEFINE d == watchChannelData[p].chan
<1>1. cursor[d] = 0 /\ \A q \in Proc : ~Passing(q, d)
    BY DEF FeedInv, StoreInv, Fetched, Passing
<1>2. \A q \in Proc, c \in Chan : Passing(q, c) => Passing(q, c)' /\ next'[q] = next[q]
    BY DEF Passing, Others
<1> SUFFICES ASSUME NEW c \in Chan \ redo, NEW k \in handed[c]
             PROVE  k < cursor'[c] \/ \E q \in Proc : Passing(q, c)' /\ k < next'[q]
    BY DEF OnceInv
<1>3. k < cursor[c] \/ \E q \in Proc : Passing(q, c) /\ k < next[q]
    BY DEF OnceInv
<1>4. CASE c = d
    <2>1. k \in Nat
        BY DEF TypeOK
    <2> QED BY <1>1, <1>3, <1>4, <2>1
<1>5. CASE c # d
    BY <1>2, <1>3, <1>5 DEF SetCursor
<1> QED BY <1>4, <1>5

\* Every step keeps it.
LEMMA OnceStep ==
    ASSUME TypeOK, FeedInv, OnceInv, [Next]_vars PROVE OnceInv'
<1>1. CASE UNCHANGED vars \/ Change \/ LockExpires
    BY <1>1 DEF vars, Change, LockExpires, locals, OnceInv, Passing
<1>2. ASSUME NEW p \in Proc, StoreChannel(p) PROVE OnceInv'
    <2>1. Others(p) /\ pc[p] = "store"
        BY <1>2, LeavesOthers DEF StoreChannel
    <2>2. CASE UNCHANGED cursor
        BY <1>2, <2>1, <2>2, OnceFrame DEF StoreChannel
    <2> QED BY <1>2, <2>1, <2>2, OnceStored DEF StoreChannel
<1>3. ASSUME NEW p \in Proc, HookDispatch(p) PROVE OnceInv'
    BY <1>3, OnceDispatch
<1>4. ASSUME NEW p \in Proc, HookSave(p) PROVE OnceInv'
    <2>1. Others(p) /\ pc[p] = "save" /\ UNCHANGED handed
        BY <1>4, GotoLeavesOthers DEF HookSave
    <2>2. CASE Unsaved(p) /\ UNCHANGED <<data, cursor>>
        BY <2>1, <2>2, OnceLost
    <2>3. CASE SetCursor(watchChannelData[p].chan, pageToken[p]) /\ UNCHANGED redo
        BY <2>1, <2>3, OnceSaved
    <2> QED BY <1>4, <2>2, <2>3 DEF HookSave
<1>5. ASSUME NEW p \in Proc, Crash(p) PROVE OnceInv'
    <2>1. Others(p) /\ UNCHANGED <<handed, cursor>>
        BY <1>5, LeavesOthers DEF Crash
    <2>2. CASE pc[p] \in {"dispatch", "save"}
        BY <1>5, <2>1, <2>2, OnceLost DEF Crash
    <2>3. CASE pc[p] \notin {"dispatch", "save"}
        BY <1>5, <2>1, <2>3, OnceFrame DEF Crash
    <2> QED BY <2>2, <2>3
<1>6. ASSUME NEW p \in Proc, StartCheck(p) \/ StopCheck(p) PROVE OnceInv'
    <2>1. Others(p) /\ pc[p] = "idle" /\ UNCHANGED <<handed, cursor, redo>>
        BY <1>6 DEF StartCheck, StopCheck, Others, Goto, TypeOK, locals
    <2> QED BY <2>1, OnceFrame
<1>7. ASSUME NEW p \in Proc,
             \/ RefreshPick(p) \/ HookLock(p) \/ HookUnlock(p) \/ HookRead(p)
             \/ HookList(p) \/ HookActivity(p)
             \/ \E c \in Chan : HookCheck(p, c)
      PROVE  OnceInv'
    <2>1. Others(p) /\ pc[p] \notin {"dispatch", "save"} /\ UNCHANGED <<handed, cursor, redo>>
        BY <1>7 DEF RefreshPick, HookLock, HookUnlock, HookRead, HookList, HookActivity,
                    HookCheck, Return, Others, Goto, TypeOK
    <2> QED BY <2>1, OnceFrame
<1>8. ASSUME NEW p \in Proc,
             \/ GetStartPageToken(p) \/ Watch(p)
             \/ WorkerStopCheck(p) \/ DeleteChannel(p) \/ StopChannel(p)
      PROVE  OnceInv'
    <2>1. Others(p) /\ pc[p] \notin {"dispatch", "save"} /\ UNCHANGED <<handed, cursor, redo>>
        BY <1>8 DEF GetStartPageToken, Watch, WorkerStopCheck, DeleteChannel, StopChannel,
                    StopReturns, Return, Others, Goto, TypeOK
    <2> QED BY <2>1, OnceFrame
<1> QED BY <1>1, <1>2, <1>3, <1>4, <1>5, <1>6, <1>7, <1>8 DEF Next, Steps, Proc

\* Two webhooks never both process a change: whoever gets the mutex later reads
\* the token the other has saved.  Only a lost save lets a change come again.
THEOREM HandedOnlyOnce == Spec => []HandedOnce
<1>1. TypeOK /\ FeedInv /\ OnceInv /\ [Next]_vars => OnceInv'
    BY OnceStep
<1>2. TypeOK /\ FeedInv /\ OnceInv => HandedOnce
    <2> SUFFICES ASSUME TypeOK, FeedInv, OnceInv,
                        NEW p \in Hooks, pc[p] = "dispatch",
                        NEW c, c = watchChannelData[p].chan, c \in Chan \ redo,
                        next[p] \in handed[c]
                 PROVE  FALSE
        BY DEF HandedOnce
    <2>1. p \in Proc /\ Passing(p, c)
        BY DEF Proc, Passing
    <2>2. cursor[c] <= next[p] /\ cursor[c] \in Nat /\ next[p] \in Nat
        BY <2>1, Fetching
    <2>3. PICK q \in Proc : Passing(q, c) /\ next[p] < next[q]
        BY <2>2 DEF OnceInv
    <2>4. q = p
        BY <2>1, <2>3, OnePasses
    <2> QED BY <2>2, <2>3, <2>4
<1> QED BY <1>1, <1>2, OnceInit, FeedAlways, PTL DEF Spec

=============================================================================
