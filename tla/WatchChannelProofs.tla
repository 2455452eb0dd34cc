-------------------------- MODULE WatchChannelProofs --------------------------
(***************************************************************************)
(* What is proved of WatchChannel for every set of processes and channels, *)
(* every page size and every bound.                                        *)
(***************************************************************************)
EXTENDS WatchChannel, TLAPS

(***************************************************************************)
(* Type correctness.                                                       *)
(***************************************************************************)

\* Returning from a call, or going to another label, keeps the locals in type.
LEMMA ReturnTyped ==
    ASSUME TypeOK, NEW p \in Proc, Return(p)
    PROVE  /\ pc' \in [Proc -> Label]
           /\ watchChannelData' \in [Proc -> Record]
           /\ pageToken' \in [Proc -> Nat]
           /\ next' \in [Proc -> Nat]
           /\ calls' \in [Proc -> Nat]
BY DEF TypeOK, Return, Goto, Label, Zero, Record, AnyChan

\* So does the end of a stop, for a command or for a worker.
LEMMA StopReturnsTyped ==
    ASSUME TypeOK, NEW p \in Proc, StopReturns(p)
    PROVE  /\ pc' \in [Proc -> Label]
           /\ watchChannelData' \in [Proc -> Record]
           /\ pageToken' \in [Proc -> Nat]
           /\ next' \in [Proc -> Nat]
           /\ calls' \in [Proc -> Nat]
BY ReturnTyped DEF TypeOK, StopReturns, Goto, Label

\* Every variable starts in its type.
LEMMA TypeInit == Init => TypeOK
BY DEF Init, TypeOK, Zero, Record, AnyChan, Label

\* Every step of the specification keeps every variable in its type.
LEMMA TypeStep == TypeOK /\ [Next]_vars => TypeOK'
<1> SUFFICES ASSUME TypeOK, [Next]_vars PROVE TypeOK'
    OBVIOUS
<1> USE DEF Goto, Label, Tell, SetCursor, Unsaved, google, locals
<1>1. CASE UNCHANGED vars
    BY <1>1 DEF vars, TypeOK
<1>2. ASSUME NEW p \in Proc, StartCheck(p) PROVE TypeOK'
    BY <1>2 DEF StartCheck, TypeOK
<1>3. ASSUME NEW p \in Proc, StopCheck(p) PROVE TypeOK'
    BY <1>3 DEF StopCheck, TypeOK
<1>4. ASSUME NEW p \in Proc, RefreshPick(p) PROVE TypeOK'
    BY <1>4 DEF RefreshPick, TypeOK
<1>5. ASSUME NEW p \in Proc, GetStartPageToken(p) PROVE TypeOK'
    BY <1>5, ReturnTyped DEF GetStartPageToken, TypeOK
<1>6. ASSUME NEW p \in Proc, Watch(p) PROVE TypeOK'
    <2>1. CASE Return(p)
        BY <1>6, <2>1, ReturnTyped DEF Watch, TypeOK
    <2>2. CASE ~Return(p)
        <3>1. PICK c \in Chan :
                /\ chan' = [chan EXCEPT ![c] = "live"]
                /\ opened' = [opened EXCEPT ![c] = head]
                /\ watchChannelData' =
                       [watchChannelData EXCEPT ![p] = [chan |-> c, page |-> pageToken[p]]]
                /\ pc' = [pc EXCEPT ![p] = "store"]
                /\ UNCHANGED <<pageToken, next, calls>>
            BY <1>6, <2>2 DEF Watch
        <3>2. UNCHANGED <<head, data, lock, told, handed, cursor, redo>>
            BY <1>6 DEF Watch
        <3>3. chan' \in [Chan -> {"new", "live", "stopped"}] /\ opened' \in [Chan -> Nat]
            BY <3>1 DEF TypeOK
        <3>4. watchChannelData' \in [Proc -> Record] /\ pc' \in [Proc -> Label]
            BY <3>1 DEF TypeOK, Record, AnyChan
        <3> QED BY <3>1, <3>2, <3>3, <3>4 DEF TypeOK
    <2> QED BY <2>1, <2>2
<1>7. ASSUME NEW p \in Proc, StoreChannel(p) PROVE TypeOK'
    <2>1. Return(p) /\ UNCHANGED <<google, lock, handed, redo>>
        BY <1>7 DEF StoreChannel
    <2>2. data' \in Record /\ told' \in {"nothing", "enabled", "disabled"}
        BY <1>7 DEF StoreChannel, TypeOK
    <2>3. cursor' \in [Chan -> Nat]
        BY <1>7 DEF StoreChannel, TypeOK, Record
    <2> QED BY <2>1, <2>2, <2>3, ReturnTyped DEF TypeOK
<1>8. ASSUME NEW p \in Proc, WorkerStopCheck(p) PROVE TypeOK'
    BY <1>8, StopReturnsTyped DEF WorkerStopCheck, TypeOK
<1>9. ASSUME NEW p \in Proc, DeleteChannel(p) PROVE TypeOK'
    BY <1>9, StopReturnsTyped DEF DeleteChannel, TypeOK, Zero, Record, AnyChan
<1>10. ASSUME NEW p \in Proc, StopChannel(p) PROVE TypeOK'
    BY <1>10, StopReturnsTyped DEF StopChannel, TypeOK
<1>11. ASSUME NEW p \in Proc, HookLock(p) PROVE TypeOK'
    BY <1>11, ReturnTyped DEF HookLock, TypeOK
<1>12. ASSUME NEW p \in Proc, HookRead(p) PROVE TypeOK'
    <2>1. data.page \in Nat /\ (IF data.page = 0 THEN head ELSE data.page) \in Nat
        BY DEF TypeOK, Record
    <2> QED BY <1>12, <2>1 DEF HookRead, TypeOK
<1>13. ASSUME NEW p \in Proc, HookList(p) PROVE TypeOK'
    BY <1>13, NatAssumption DEF HookList, PageEnd, TypeOK
<1>14. ASSUME NEW p \in Proc, HookActivity(p) PROVE TypeOK'
    BY <1>14 DEF HookActivity, TypeOK, Record
<1>15. ASSUME NEW p \in Proc, HookDispatch(p) PROVE TypeOK'
    BY <1>15 DEF HookDispatch, TypeOK
<1>16. ASSUME NEW p \in Proc, HookSave(p) PROVE TypeOK'
    BY <1>16 DEF HookSave, TypeOK, Record
<1>17. ASSUME NEW p \in Proc, HookUnlock(p) PROVE TypeOK'
    BY <1>17, ReturnTyped DEF HookUnlock, TypeOK
<1>18. ASSUME NEW p \in Proc, Crash(p) PROVE TypeOK'
    BY <1>18, ReturnTyped DEF Crash, TypeOK
<1>19. ASSUME NEW p \in Hooks, NEW c \in Chan, HookCheck(p, c) PROVE TypeOK'
    BY <1>19 DEF HookCheck, TypeOK, Proc
<1>20. CASE Change
    BY <1>20 DEF Change, TypeOK
<1>21. CASE LockExpires
    BY <1>21 DEF LockExpires, TypeOK
<1> QED
    BY <1>1, <1>2, <1>3, <1>4, <1>5, <1>6, <1>7, <1>8, <1>9, <1>10, <1>11, <1>12,
       <1>13, <1>14, <1>15, <1>16, <1>17, <1>18, <1>19, <1>20, <1>21
    DEF Next, Steps

\* Every variable keeps its type in every behaviour.
THEOREM TypeCorrect == Spec => []TypeOK
BY TypeInit, TypeStep, PTL DEF Spec

(***************************************************************************)
(* Without webhooks, no interleaving of commands, workers, failures and    *)
(* crashes leaves a valid record that names a channel the plugin stopped.  *)
(*                                                                         *)
(* NoStoppedRecord is not inductive: it needs to know which processes hold *)
(* a channel in a local variable.  A channel that is about to be stored is *)
(* known to its creator only (Fresh); one that is about to be stopped has  *)
(* left the record (Dead), and only its creator could have put it back.    *)
(***************************************************************************)
Holding(p) == pc[p] \in {"delete", "stopRemote", "store"}

Named ==
    \A p \in Proc : Holding(p) =>
        /\ watchChannelData[p].chan \in Chan
        /\ chan[watchChannelData[p].chan] # "new"

Fresh ==
    \A p \in Proc : pc[p] = "store" =>
        /\ chan[watchChannelData[p].chan] = "live"
        /\ data.chan # watchChannelData[p].chan
        /\ \A q \in Proc :
              q # p /\ Holding(q) => watchChannelData[q].chan # watchChannelData[p].chan

Dead == \A p \in Proc : pc[p] = "stopRemote" => data.chan # watchChannelData[p].chan

NoWebhook == \A p \in Proc : pc[p] \notin {"lock"} \cup Locked

RecordLive == Valid(data) => chan[data.chan] = "live"

CommandInv == Named /\ Fresh /\ Dead /\ NoWebhook /\ RecordLive

\* Nothing is held or recorded at the start.
LEMMA CommandInit == Init => CommandInv
BY ChanAssumption DEF Init, CommandInv, Named, Fresh, Dead, NoWebhook, RecordLive,
   Holding, Locked, Valid, Zero

\* A process that returns, or goes on to getPage, lets go of its channel.
LEMMA LetGo ==
    ASSUME TypeOK, CommandInv, NEW p \in Proc,
           Return(p) \/ StopReturns(p), UNCHANGED chan, UNCHANGED data
    PROVE  CommandInv'
BY DEF TypeOK, CommandInv, Named, Fresh, Dead, NoWebhook, RecordLive, Holding, Locked,
   Valid, Return, StopReturns, Goto, Label

\* A process that reads a valid record, to delete it, learns of a live channel
\* that nobody is about to store.
LEMMA TakesHold ==
    ASSUME TypeOK, CommandInv, NEW p \in Proc, Valid(data),
           pc[p] \in {"idle", "stopRead"}, Goto(p, "delete"),
           watchChannelData' = [watchChannelData EXCEPT ![p] = data],
           UNCHANGED chan, UNCHANGED data
    PROVE  CommandInv'
<1>1. data.chan \in Chan /\ chan[data.chan] = "live"
    BY DEF TypeOK, Record, AnyChan, CommandInv, RecordLive, Valid
<1>2. watchChannelData'[p] = data /\ pc'[p] = "delete"
    BY DEF TypeOK, Goto
<1>3. \A q \in Proc :
        q # p => pc'[q] = pc[q] /\ watchChannelData'[q] = watchChannelData[q]
    BY DEF TypeOK, Goto
<1>4. Named' /\ Dead' /\ NoWebhook' /\ RecordLive'
    BY <1>1, <1>2, <1>3 DEF CommandInv, Named, Dead, NoWebhook, RecordLive, Valid,
                            Holding, Locked
<1>5. Fresh'
    BY <1>1, <1>2, <1>3 DEF CommandInv, Fresh, Holding
<1> QED BY <1>4, <1>5 DEF CommandInv

\* Every step keeps the invariant while no webhook exists.
LEMMA CommandStep ==
    ASSUME Hooks = {}, TypeOK, CommandInv, [Next]_vars
    PROVE  CommandInv'
<1> USE DEF CommandInv, Holding, Goto, google, locals
<1>1. CASE UNCHANGED vars
    BY <1>1 DEF vars, Named, Fresh, Dead, NoWebhook, RecordLive, Valid
<1>2. ASSUME NEW p \in Proc, StartCheck(p) PROVE CommandInv'
    BY <1>2 DEF StartCheck, TypeOK, Named, Fresh, Dead, NoWebhook, RecordLive, Valid, Locked
<1>3. ASSUME NEW p \in Proc, StopCheck(p) PROVE CommandInv'
    <2>1. CASE Valid(data)
        BY <1>3, <2>1, TakesHold DEF StopCheck
    <2>2. CASE ~Valid(data)
        BY <1>3, <2>2 DEF StopCheck, Named, Fresh, Dead, NoWebhook, RecordLive, Valid
    <2> QED BY <2>1, <2>2
<1>4. ASSUME NEW p \in Proc, RefreshPick(p) PROVE CommandInv'
    BY <1>4 DEF RefreshPick, TypeOK, Named, Fresh, Dead, NoWebhook, RecordLive, Valid, Locked
<1>5. ASSUME NEW p \in Proc, GetStartPageToken(p) PROVE CommandInv'
    <2>1. CASE Return(p)
        BY <1>5, <2>1, LetGo DEF GetStartPageToken
    <2>2. CASE Goto(p, "watch") /\ UNCHANGED watchChannelData
        BY <1>5, <2>2 DEF GetStartPageToken, TypeOK, Named, Fresh, Dead, NoWebhook,
                         RecordLive, Valid, Locked
    <2> QED BY <1>5, <2>1, <2>2 DEF GetStartPageToken
<1>6. ASSUME NEW p \in Proc, Watch(p) PROVE CommandInv'
    <2>1. CASE Return(p) /\ UNCHANGED chan
        BY <1>6, <2>1, LetGo DEF Watch
    <2>2. ASSUME NEW c \in Chan, chan[c] = "new", chan' = [chan EXCEPT ![c] = "live"],
                 Return(p)
          PROVE  CommandInv'
        BY <1>6, <2>2 DEF Watch, Return, TypeOK, Record, AnyChan, Named, Fresh, Dead,
                         NoWebhook, RecordLive, Valid, Locked
    <2>3. ASSUME NEW c \in Chan, chan[c] = "new", chan' = [chan EXCEPT ![c] = "live"],
                 watchChannelData' =
                     [watchChannelData EXCEPT ![p] = [chan |-> c, page |-> pageToken[p]]],
                 Goto(p, "store")
          PROVE  CommandInv'
        <3>1. data' = data /\ data.chan # c
            BY <1>6, <2>3, ChanAssumption DEF Watch, RecordLive, Valid
        <3>2. watchChannelData'[p].chan = c /\ pc'[p] = "store"
            BY <2>3 DEF TypeOK
        <3>3. \A q \in Proc : q # p => /\ pc'[q] = pc[q]
                                       /\ watchChannelData'[q] = watchChannelData[q]
                                       /\ Holding(q) => watchChannelData[q].chan # c
            BY <2>3 DEF TypeOK, Named
        <3>4. \A d \in Chan : d # c => chan'[d] = chan[d]
            BY <2>3 DEF TypeOK
        <3>5. chan'[c] = "live"
            BY <2>3 DEF TypeOK
        <3>6. Named' /\ Fresh' /\ Dead' /\ NoWebhook'
            <4>1. Named'
                BY <3>2, <3>3, <3>4, <3>5 DEF Named
            <4>2. Fresh'
                <5> SUFFICES ASSUME NEW r \in Proc, pc'[r] = "store" PROVE Fresh!(r)'
                    BY DEF Fresh
                <5> QED BY <3>1, <3>2, <3>3, <3>4, <3>5 DEF Fresh, Named
            <4>3. Dead'
                BY <3>1, <3>2, <3>3 DEF Dead
            <4>4. NoWebhook'
                BY <3>2, <3>3 DEF NoWebhook, Locked
            <4> QED BY <4>1, <4>2, <4>3, <4>4
        <3>7. RecordLive'
            <4>1. data.chan \in AnyChan
                BY DEF TypeOK, Record
            <4>2. ASSUME data.chan # NoChan PROVE chan'[data.chan] = "live"
                <5>1. data.chan \in Chan /\ data.chan # c
                    BY <3>1, <4>1, <4>2 DEF AnyChan
                <5> QED BY <3>4, <4>2, <5>1 DEF RecordLive, Valid
            <4> QED BY <3>1, <4>2 DEF RecordLive, Valid
        <3> QED BY <3>6, <3>7
    <2> QED BY <1>6, <2>1, <2>2, <2>3 DEF Watch
<1>7. ASSUME NEW p \in Proc, StoreChannel(p) PROVE CommandInv'
    <2>1. CASE UNCHANGED data
        BY <1>7, <2>1, LetGo DEF StoreChannel
    <2>2. CASE data' = watchChannelData[p]
        BY <1>7, <2>2 DEF StoreChannel, Return, TypeOK, Named, Fresh, Dead, NoWebhook,
                         RecordLive, Valid, Locked
    <2> QED BY <1>7, <2>1, <2>2 DEF StoreChannel
<1>8. ASSUME NEW p \in Proc, WorkerStopCheck(p) PROVE CommandInv'
    <2>1. CASE StopReturns(p)
        BY <1>8, <2>1, LetGo DEF WorkerStopCheck
    <2>2. CASE /\ Valid(data) /\ Goto(p, "delete")
               /\ watchChannelData' = [watchChannelData EXCEPT ![p] = data]
        BY <1>8, <2>2, TakesHold DEF WorkerStopCheck
    <2> QED BY <1>8, <2>1, <2>2 DEF WorkerStopCheck
<1>9. ASSUME NEW p \in Proc, DeleteChannel(p) PROVE CommandInv'
    <2>1. CASE StopReturns(p) /\ UNCHANGED data
        BY <1>9, <2>1, LetGo DEF DeleteChannel
    <2>2. CASE data' = Zero /\ Goto(p, "stopRemote") /\ UNCHANGED watchChannelData
        BY <1>9, <2>2, ChanAssumption DEF DeleteChannel, Zero, TypeOK, Named, Fresh, Dead,
                         NoWebhook, RecordLive, Valid, Locked
    <2> QED BY <1>9, <2>1, <2>2 DEF DeleteChannel
<1>10. ASSUME NEW p \in Proc, StopChannel(p) PROVE CommandInv'
    <2>1. CASE UNCHANGED chan
        BY <1>10, <2>1, LetGo DEF StopChannel
    <2>2. CASE chan' = [chan EXCEPT ![watchChannelData[p].chan] = "stopped"]
        <3> DEFINE c == watchChannelData[p].chan
        <3>1. /\ c \in Chan /\ chan[c] # "new" /\ data' = data /\ data.chan # c
              /\ pc[p] = "stopRemote"
            BY <1>10 DEF StopChannel, Named, Dead
        <3>2. pc'[p] \in {"idle", "getPage"}
            BY <1>10 DEF StopChannel, StopReturns, Return, TypeOK
        <3>3. \A q \in Proc : q # p => /\ pc'[q] = pc[q]
                                       /\ watchChannelData'[q] = watchChannelData[q]
            BY <1>10 DEF StopChannel, StopReturns, Return, TypeOK
        <3>4. chan'[c] = "stopped" /\ \A d \in Chan : d # c => chan'[d] = chan[d]
            BY <2>2, <3>1 DEF TypeOK
        <3>5. Named' /\ Dead' /\ NoWebhook'
            BY <3>1, <3>2, <3>3, <3>4 DEF Named, Dead, NoWebhook, Locked
        <3>6. Fresh'
            BY <3>1, <3>2, <3>3, <3>4 DEF Fresh, Named
        <3>7. RecordLive'
            BY <3>1, <3>4 DEF RecordLive, Valid, TypeOK, Record, AnyChan
        <3> QED BY <3>5, <3>6, <3>7
    <2> QED BY <1>10, <2>1, <2>2 DEF StopChannel
<1>11. ASSUME NEW p \in Proc, Crash(p) PROVE CommandInv'
    BY <1>11, LetGo DEF Crash
<1>12. ASSUME NEW p \in Proc,
              \/ HookLock(p) \/ HookRead(p) \/ HookList(p) \/ HookActivity(p)
              \/ HookDispatch(p) \/ HookSave(p) \/ HookUnlock(p)
       PROVE  CommandInv'
    BY <1>12 DEF NoWebhook, Locked, HookLock, HookRead, HookList, HookActivity,
                 HookDispatch, HookSave, HookUnlock
<1>13. CASE Change \/ LockExpires
    BY <1>13 DEF Change, LockExpires, Named, Fresh, Dead, NoWebhook, RecordLive, Valid
<1> QED
    BY <1>1, <1>2, <1>3, <1>4, <1>5, <1>6, <1>7, <1>8, <1>9, <1>10, <1>11, <1>12, <1>13
    DEF Next, Steps

\* Deleting the record before Channels.Stop is enough to keep stopped channels
\* out of it, as long as no webhook writes back what it read.
THEOREM StoppedStaysOut == ASSUME Hooks = {} PROVE Spec => []NoStoppedRecord
<1>1. Init => TypeOK /\ CommandInv
    BY TypeInit, CommandInit
<1>2. TypeOK /\ CommandInv /\ [Next]_vars => (TypeOK /\ CommandInv)'
    BY TypeStep, CommandStep
<1>3. CommandInv => NoStoppedRecord
    BY DEF CommandInv, RecordLive, NoStoppedRecord
<1> QED BY <1>1, <1>2, <1>3, PTL DEF Spec
=============================================================================
