---------------------------- MODULE AccountProofs ----------------------------
(***************************************************************************)
(* What is proved of Account for every set of processes and channels: what *)
(* is proved of WatchChannel holds while the user connects and disconnects *)
(* too, and nothing that begins after a disconnect reaches Google.         *)
(***************************************************************************)
EXTENDS Account, WatchChannelProofs

\* What a process does is a step of WatchChannel; connecting and disconnecting leave
\* it alone.
LEMMA AccountRefines == AccountNext => [Next]_vars
BY DEF AccountNext, Next, Connect, Disconnect

\* Account implements WatchChannel: a missing token only takes choices away from
\* Google's answers (google/google.go:64-90).
THEOREM AccountImplements == AccountSpec => Spec
<1>1. AccountInit => Init
    BY DEF AccountInit
<1>2. [AccountNext]_accountVars => [Next]_vars
    BY AccountRefines DEF accountVars
<1> QED BY <1>1, <1>2, PTL DEF AccountSpec, Spec

(***************************************************************************)
(* After a disconnect.  While the user is away there is no token, so a     *)
(* process that begins then builds services without one, or builds none.   *)
(***************************************************************************)

\* A step of WatchChannel by process p.
Moves(p) ==
    \/ StartCheck(p) \/ StopCheck(p) \/ RefreshPick(p) \/ Steps(p) \/ Crash(p)
    \/ p \in Hooks /\ \E c \in Chan : HookCheck(p, c)

OutOfTouch ==
    /\ away => ~token
    /\ gone # {} => away
    /\ \A p \in Proc : pc[p] = "idle" => p \notin service
    /\ \A p \in gone : p \in Proc /\ p \notin service /\ ~InTouch(p)

\* A process only moves itself.
LEMMA OthersStay ==
    ASSUME TypeOK, NEW p \in Proc, Moves(p), NEW q \in Proc, q # p
    PROVE  pc'[q] = pc[q]
BY DEF Moves, Steps, TypeOK, Goto, Return, StopReturns, locals, StartCheck, StopCheck,
       RefreshPick, GetStartPageToken, Watch, StoreChannel, WorkerStopCheck, DeleteChannel,
       StopChannel, HookCheck, HookLock, HookRead, HookList, HookActivity, HookDispatch,
       HookSave, HookUnlock, Crash

\* A process that is not in touch with Google gets there only by a start token or a
\* list of changes.
LEMMA GetsInTouch ==
    ASSUME TypeOK, NEW p \in Proc, Moves(p), ~InTouch(p), InTouch(p)'
    PROVE  \/ pc[p] = "getPage" /\ pc'[p] = "watch"
           \/ pc[p] = "list" /\ calls'[p] > calls[p]
<1>1. CASE HookList(p)
    BY <1>1 DEF HookList, Goto, InTouch, TypeOK
<1>2. CASE GetStartPageToken(p)
    BY <1>2 DEF GetStartPageToken, Goto, Return, InTouch, TypeOK
<1>3. CASE StartCheck(p) \/ StopCheck(p) \/ RefreshPick(p)
    BY <1>3 DEF StartCheck, StopCheck, RefreshPick, Goto, locals, InTouch, TypeOK
<1>4. CASE Watch(p) \/ StoreChannel(p) \/ HookActivity(p) \/ HookDispatch(p) \/ HookSave(p)
    BY <1>4 DEF Watch, StoreChannel, HookActivity, HookDispatch, HookSave, InTouch
<1>5. CASE WorkerStopCheck(p) \/ DeleteChannel(p) \/ StopChannel(p)
    BY <1>5 DEF WorkerStopCheck, DeleteChannel, StopChannel, StopReturns, Goto, Return,
                InTouch, TypeOK
<1>6. CASE HookLock(p) \/ HookRead(p) \/ HookUnlock(p) \/ Crash(p)
    BY <1>6 DEF HookLock, HookRead, HookUnlock, Crash, Goto, Return, InTouch, TypeOK
<1>7. CASE \E c \in Chan : HookCheck(p, c)
    BY <1>7 DEF HookCheck, Goto, InTouch, TypeOK
<1> QED BY <1>1, <1>2, <1>3, <1>4, <1>5, <1>6, <1>7 DEF Moves, Steps

LEMMA OutInit == AccountInit => OutOfTouch
BY DEF AccountInit, OutOfTouch

\* A step of a process keeps the invariant: without a token it builds no service that
\* has one, and is refused whatever it asks for.
LEMMA MovesOut ==
    ASSUME TypeOK, OutOfTouch, NEW p \in Proc, Moves(p), With(p)
    PROVE  OutOfTouch'
<1>1. (away => ~token)' /\ UNCHANGED <<token, away>>
    BY DEF With, OutOfTouch
<1>2. (gone # {} => away)'
    BY <1>1 DEF With, OutOfTouch
<1>3. \A q \in Proc \ {p} : (q \in service' <=> q \in service) /\ (q \in gone' <=> q \in gone)
    BY DEF With, NewDriveService
<1>4. \A q \in Proc : pc'[q] = "idle" => q \notin service'
    <2>1. pc'[p] = "idle" => p \notin service'
        BY DEF With, NewDriveService
    <2> QED BY <2>1, <1>3, OthersStay DEF OutOfTouch
<1>5. gone' \subseteq Proc
    BY DEF With, OutOfTouch
<1>6. ASSUME p \in gone' PROVE p \notin service' /\ ~InTouch(p)'
    <2>1. pc'[p] # "idle" /\ (p \in gone \/ (pc[p] = "idle" /\ away))
        BY <1>6 DEF With
    <2>2. ~token
        BY <2>1 DEF OutOfTouch
    <2>3. p \notin service /\ ~InTouch(p)
        BY <2>1 DEF OutOfTouch, InTouch
    <2>4. p \notin service'
        BY <2>1, <2>2, <2>3 DEF With, NewDriveService
    <2>5. ~(pc[p] = "getPage" /\ pc'[p] = "watch") /\ ~(pc[p] = "list" /\ calls'[p] > calls[p])
        BY <2>2, <2>3 DEF With, Authorised
    <2> QED BY <2>3, <2>4, <2>5, GetsInTouch
<1>7. ASSUME NEW q \in gone', q # p PROVE q \notin service' /\ ~InTouch(q)'
    BY <1>3, <1>5, <1>7, OthersStay DEF OutOfTouch, InTouch
<1> QED BY <1>1, <1>2, <1>4, <1>5, <1>6, <1>7 DEF OutOfTouch

\* Every step of Account keeps it.
LEMMA OutStep == TypeOK /\ OutOfTouch /\ [AccountNext]_accountVars => OutOfTouch'
<1> SUFFICES ASSUME TypeOK, OutOfTouch, [AccountNext]_accountVars PROVE OutOfTouch'
    OBVIOUS
<1>1. ASSUME NEW p \in Proc,
             StartCheck(p) \/ StopCheck(p) \/ RefreshPick(p) \/ Steps(p) \/ Crash(p), With(p)
      PROVE  OutOfTouch'
    BY <1>1, MovesOut DEF Moves
<1>2. ASSUME NEW p \in Hooks, NEW c \in Chan, HookCheck(p, c), With(p) PROVE OutOfTouch'
    BY <1>2, MovesOut DEF Moves, Proc
<1>3. CASE (Change \/ LockExpires) /\ UNCHANGED account
    BY <1>3 DEF Change, LockExpires, locals, account, OutOfTouch, InTouch
<1>4. CASE Connect
    BY <1>4 DEF Connect, vars, OutOfTouch, InTouch
<1>5. CASE Disconnect
    BY <1>5 DEF Disconnect, vars, OutOfTouch, InTouch
<1>6. CASE UNCHANGED accountVars
    BY <1>6 DEF accountVars, account, vars, OutOfTouch, InTouch
<1> QED BY <1>1, <1>2, <1>3, <1>4, <1>5, <1>6 DEF AccountNext

\* Whatever runs when the user disconnects, and although the channel and its record
\* stay (command.go:202-219), nothing that begins afterwards gets a channel or a
\* change from Google.
THEOREM DisconnectedIsOut == AccountSpec => []NothingAfterDisconnect
<1>1. OutOfTouch => NothingAfterDisconnect
    BY DEF OutOfTouch, NothingAfterDisconnect
<1> QED
    BY <1>1, AccountImplements, TypeCorrect, OutInit, OutStep, PTL DEF AccountSpec
=============================================================================
