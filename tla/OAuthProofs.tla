------------------------------ MODULE OAuthProofs ------------------------------
(***************************************************************************)
(* What is proved of OAuthConnect for every set of attempts, callbacks and *)
(* nodes, wherever each request is served and whatever fails.              *)
(***************************************************************************)
EXTENDS OAuthConnect, TLAPS

(***************************************************************************)
(* Type correctness.                                                       *)
(***************************************************************************)

\* The callback's variables that Return changes keep their types.
LEMMA ReturnTyped ==
    ASSUME TypeOK, NEW b \in Callback, Return(b)
    PROVE  /\ cpc' \in [Callback -> {"init", "get", "delete", "compare", "exchange",
                                     "store", "publish", "done"}]
           /\ state' \in [Callback -> Attempt \cup {BadState}]
           /\ stored' \in [Callback -> BOOLEAN] /\ rErr' \in [Callback -> BOOLEAN]
           /\ late' \subseteq Callback
BY DEF TypeOK, Return, CGoto

\* So does a send to the subscribers of a node.
LEMMA SendTyped ==
    ASSUME TypeOK, NEW n \in Node, NEW result \in {"nil", "err"}, Send(n, result)
    PROVE  buf' \in [Attempt -> {"empty", "nil", "err"}] /\ panicked' \in BOOLEAN
BY DEF TypeOK, Send

\* Every variable starts in its type.
LEMMA TypeInit == Init => TypeOK
<1> SUFFICES ASSUME Init PROVE TypeOK
    OBVIOUS
<1>1. subs \in [Node -> SUBSET Attempt] /\ closed \in [Node -> BOOLEAN]
    BY DEF Init
<1>2. stored \in [Callback -> BOOLEAN] /\ rErr \in [Callback -> BOOLEAN]
    BY DEF Init
<1>3. panicked \in BOOLEAN /\ token \in BOOLEAN
    BY DEF Init
<1> QED BY <1>1, <1>2, <1>3 DEF Init, TypeOK

\* A callback that has not yet decided what to report carries the state of an
\* attempt that has begun.
Deciding(b) == cpc[b] \in {"get", "delete", "compare", "exchange", "store"}
Proceeding == \A b \in Callback :
    Deciding(b) => state[b] \in Attempt /\ apc[state[b]] # "init"

\* Every step keeps every variable in its type.
LEMMA TypeStep == TypeOK /\ Proceeding /\ [Next]_vars => TypeOK'
<1> SUFFICES ASSUME TypeOK, Proceeding, [Next]_vars PROVE TypeOK'
    OBVIOUS
<1> USE DEF AGoto, CGoto, Fail, broker, kv, attempts, callbacks
<1>1. CASE UNCHANGED vars
    BY <1>1 DEF vars, TypeOK
<1>2. ASSUME NEW a \in Attempt, StoreState(a) PROVE TypeOK'
    BY <1>2 DEF StoreState, TypeOK
<1>3. ASSUME NEW a \in Attempt, Subscribe(a) PROVE TypeOK'
    <2>1. subs' \in [Node -> SUBSET Attempt]
        <3>1. subs' = [subs EXCEPT ![Home[a]] = subs[Home[a]] \cup {a}]
            BY <1>3 DEF Subscribe
        <3>2. Home[a] \in Node /\ subs \in [Node -> SUBSET Attempt]
            BY HomeAssumption DEF TypeOK
        <3>3. subs[Home[a]] \cup {a} \in SUBSET Attempt
            BY <3>2
        <3> QED BY <3>1, <3>2, <3>3
    <2>2. apc' \in [Attempt -> {"init", "subscribe", "wait", "unsubscribe", "done"}]
        BY <1>3 DEF Subscribe, TypeOK
    <2>3. UNCHANGED <<kv, closed, buf, shut, panicked, events, outcome, callbacks>>
        BY <1>3 DEF Subscribe
    <2> QED BY <2>1, <2>2, <2>3 DEF TypeOK
<1>4. ASSUME NEW a \in Attempt, Receive(a) PROVE TypeOK'
    BY <1>4 DEF Receive, TypeOK
<1>5. ASSUME NEW a \in Attempt, TimeOut(a) PROVE TypeOK'
    BY <1>5 DEF TimeOut, TypeOK
<1>6. ASSUME NEW a \in Attempt, Unsubscribe(a) PROVE TypeOK'
    <2>1. subs' \in [Node -> SUBSET Attempt]
        BY <1>6, HomeAssumption DEF Unsubscribe, TypeOK
    <2> QED BY <1>6, <2>1 DEF Unsubscribe, TypeOK
<1>7. ASSUME NEW b \in Callback, Begin(b) PROVE TypeOK'
    BY <1>7 DEF Begin, TypeOK
<1>8. ASSUME NEW b \in Callback, GetState(b) PROVE TypeOK'
    <2>1. stored' \in [Callback -> BOOLEAN] /\ rErr' \in [Callback -> BOOLEAN]
        <3>1. stored \in [Callback -> BOOLEAN] /\ rErr \in [Callback -> BOOLEAN]
            BY DEF TypeOK
        <3>2. CASE stored' = [stored EXCEPT ![b] = state[b] \in states] /\ UNCHANGED rErr
            <4> DEFINE found == state[b] \in states
            <4>1. found \in BOOLEAN OBVIOUS
            <4>2. stored' = [stored EXCEPT ![b] = found] BY <3>2
            <4> HIDE DEF found
            <4> QED BY <3>1, <3>2, <4>1, <4>2
        <3>3. CASE rErr' = [rErr EXCEPT ![b] = TRUE] /\ UNCHANGED stored
            BY <3>1, <3>3
        <3> QED BY <1>8, <3>2, <3>3 DEF GetState
    <2>2. cpc' \in [Callback -> {"init", "get", "delete", "compare", "exchange",
                                 "store", "publish", "done"}]
        BY <1>8 DEF GetState, TypeOK
    <2>3. UNCHANGED <<kv, broker, attempts, state, wrote, late, used, failed>>
        BY <1>8 DEF GetState
    <2> QED BY <2>1, <2>2, <2>3 DEF TypeOK
<1>9. ASSUME NEW b \in Callback, DeleteState(b) PROVE TypeOK'
    <2>1. state[b] \in Attempt
        BY <1>9 DEF DeleteState, Proceeding, Deciding
    <2> QED BY <1>9, <2>1 DEF DeleteState, TypeOK
<1>10. ASSUME NEW b \in Callback, CompareState(b) PROVE TypeOK'
    BY <1>10 DEF CompareState, TypeOK
<1>11. ASSUME NEW b \in Callback, Exchange(b) PROVE TypeOK'
    BY <1>11 DEF Exchange, TypeOK
<1>12. ASSUME NEW b \in Callback, StoreToken(b) PROVE TypeOK'
    BY <1>12 DEF StoreToken, TypeOK
<1>13. ASSUME NEW b \in Callback, Publish(b) PROVE TypeOK'
    <2>1. Home[b] \in Node BY HomeAssumption
    <2>2. buf' \in [Attempt -> {"empty", "nil", "err"}] /\ panicked' \in BOOLEAN
        <3>1. CASE closed[Home[b]]
            BY <1>13, <3>1 DEF Publish, TypeOK
        <3>2. CASE ~closed[Home[b]]
            <4> DEFINE result == IF rErr[b] THEN "err" ELSE "nil"
            <4>1. Send(Home[b], result) BY <1>13, <3>2 DEF Publish
            <4>2. result \in {"nil", "err"} OBVIOUS
            <4> HIDE DEF result
            <4> QED BY <4>1, <4>2, <2>1, SendTyped
        <3> QED BY <3>1, <3>2
    <2>3. events' \subseteq Callback \X Node
        BY <1>13 DEF Publish, TypeOK
    <2>4. Return(b) /\ UNCHANGED <<kv, closed, subs, shut, attempts>>
        BY <1>13 DEF Publish
    <2>5. UNCHANGED <<wrote, used, failed>>
        BY <2>4 DEF Return
    <2> QED BY <2>2, <2>3, <2>4, <2>5, ReturnTyped DEF TypeOK
<1>14. ASSUME NEW e \in events, HandleClusterEvent(e) PROVE TypeOK'
    <2>1. e[2] \in Node BY DEF TypeOK
    <2>2. buf' \in [Attempt -> {"empty", "nil", "err"}] /\ panicked' \in BOOLEAN
        BY <1>14, <2>1, SendTyped DEF HandleClusterEvent, TypeOK
    <2> QED BY <1>14, <2>2 DEF HandleClusterEvent, TypeOK
<1>15. ASSUME NEW n \in Node, Close(n) PROVE TypeOK'
    <2>1. closed' \in [Node -> BOOLEAN] /\ shut' \subseteq Attempt /\ panicked' \in BOOLEAN
        BY <1>15 DEF Close, TypeOK
    <2>2. UNCHANGED <<kv, subs, buf, events, attempts, callbacks>>
        BY <1>15 DEF Close
    <2> QED BY <2>1, <2>2 DEF TypeOK
<1>16. CASE Disconnect
    BY <1>16 DEF Disconnect, TypeOK
<1> QED
    BY <1>1, <1>2, <1>3, <1>4, <1>5, <1>6, <1>7, <1>8, <1>9, <1>10, <1>11, <1>12, <1>13,
       <1>14, <1>15, <1>16
    DEF Next, Goroutine, CallbackStep

\* No attempt goes back to its beginning, and no callback changes its state parameter
\* before it returns.
LEMMA ProceedingStep == TypeOK /\ Proceeding /\ [Next]_vars => Proceeding'
<1> SUFFICES ASSUME TypeOK, Proceeding, [Next]_vars, NEW b \in Callback, Deciding(b)'
             PROVE  (state[b] \in Attempt /\ apc[state[b]] # "init")'
    BY DEF Proceeding
<1> USE DEF AGoto, CGoto, Fail, broker, kv, attempts, callbacks
<1>1. \A a \in Attempt : apc[a] # "init" => apc'[a] # "init"
    BY DEF TypeOK, Next, vars, Goroutine, CallbackStep, StoreState, Subscribe, Receive, TimeOut,
           Unsubscribe, Begin, GetState, DeleteState, CompareState, Exchange, StoreToken, Publish,
           HandleClusterEvent, Close, Disconnect
<1>2. (Deciding(b) /\ state'[b] = state[b]) \/ Begin(b)
    <2>1. ASSUME NEW c \in Callback, Publish(c)
          PROVE  Deciding(b) /\ state'[b] = state[b]
        <3>1. Return(c) BY <2>1 DEF Publish
        <3> QED BY <3>1 DEF Return, Deciding, TypeOK
    <2>2. ASSUME NEW c \in Callback, Begin(c)
          PROVE  (Deciding(b) /\ state'[b] = state[b]) \/ Begin(b)
        BY <2>2 DEF Begin, Deciding, TypeOK
    <2>3. ASSUME NEW c \in Callback,
                 \/ GetState(c) \/ DeleteState(c) \/ CompareState(c) \/ Exchange(c)
                 \/ StoreToken(c)
          PROVE  Deciding(b) /\ state'[b] = state[b]
        BY <2>3 DEF GetState, DeleteState, CompareState, Exchange, StoreToken, Deciding, TypeOK
    <2>4. CASE UNCHANGED <<cpc, state>>
        BY <2>4 DEF Deciding
    <2> QED BY <2>1, <2>2, <2>3, <2>4
        DEF Next, vars, Goroutine, CallbackStep, StoreState, Subscribe, Receive, TimeOut,
            Unsubscribe, HandleClusterEvent, Close, Disconnect
<1>3. CASE Deciding(b) /\ state'[b] = state[b]
    BY <1>1, <1>3 DEF Proceeding
<1>4. CASE Begin(b)
    <2>1. cpc'[b] # "publish" BY DEF Deciding
    <2>2. PICK a \in Attempt : /\ apc[a] \in {"wait", "unsubscribe", "done"}
                               /\ state' = [state EXCEPT ![b] = a]
        BY <1>4, <2>1 DEF Begin, TypeOK
    <2>3. state'[b] = a BY <2>2 DEF TypeOK
    <2> QED BY <2>2, <2>3, <1>1
<1> QED BY <1>2, <1>3, <1>4

\* TypeOK is inductive together with Proceeding.
LEMMA Typed == Spec => [](TypeOK /\ Proceeding)
<1>1. Init => TypeOK /\ Proceeding
    BY TypeInit DEF Init, Proceeding, Deciding
<1>2. TypeOK /\ Proceeding /\ [Next]_vars => (TypeOK /\ Proceeding)'
    BY TypeStep, ProceedingStep
<1> QED BY <1>1, <1>2, PTL DEF Spec

\* Every variable keeps its type: in particular a callback deletes only states that
\* attempts have stored (api.go:230-277).
THEOREM OAuthTypes == Spec => []TypeOK
BY Typed, PTL

(***************************************************************************)
(* The broker's channels.  A closed channel belongs to a closed broker,    *)
(* and a channel is subscribed to its own node's broker only.              *)
(***************************************************************************)

Channels ==
    /\ ~panicked
    /\ \A n \in Node : \A a \in subs[n] : Home[a] = n
    /\ \A a \in shut : closed[Home[a]]

\* The subscribers of an open broker have open channels.
LEMMA OpenIsOpen ==
    ASSUME Channels, NEW n \in Node, ~closed[n]
    PROVE  subs[n] \cap shut = {}
BY DEF Channels

LEMMA ChannelsInit == Init => Channels
BY DEF Init, Channels

\* Only a subscription, its end, a publish, an event or a close touches a channel.
LEMMA ChannelsStep == TypeOK /\ Channels /\ [Next]_vars => Channels'
<1> SUFFICES ASSUME TypeOK, Channels, [Next]_vars PROVE Channels'
    OBVIOUS
<1>1. ASSUME NEW a \in Attempt, Subscribe(a) PROVE Channels'
    <2>1. Home[a] \in Node BY HomeAssumption
    <2>2. \A n \in Node : subs'[n] = IF n = Home[a] THEN subs[n] \cup {a} ELSE subs[n]
        BY <1>1, <2>1 DEF Subscribe, TypeOK
    <2>3. UNCHANGED <<panicked, shut, closed>>
        BY <1>1 DEF Subscribe
    <2>4. ASSUME NEW n \in Node, NEW d \in subs'[n] PROVE Home[d] = n
        BY <2>2, <2>4 DEF Channels
    <2> QED BY <2>3, <2>4 DEF Channels
<1>2. ASSUME NEW a \in Attempt, Unsubscribe(a) PROVE Channels'
    <2>1. Home[a] \in Node BY HomeAssumption
    <2>2. \A n \in Node : subs'[n] \subseteq subs[n]
        BY <1>2, <2>1 DEF Unsubscribe, TypeOK
    <2>3. UNCHANGED <<panicked, shut, closed>>
        BY <1>2 DEF Unsubscribe
    <2> QED BY <2>2, <2>3 DEF Channels
<1>3. ASSUME NEW b \in Callback, Publish(b) PROVE Channels'
    <2>1. Home[b] \in Node BY HomeAssumption
    <2>2. ~panicked'
        BY <1>3, <2>1, OpenIsOpen DEF Publish, Send, Channels
    <2> QED BY <1>3, <2>2 DEF Publish, Channels
<1>4. ASSUME NEW e \in events, HandleClusterEvent(e) PROVE Channels'
    <2>1. e[2] \in Node BY DEF TypeOK
    <2>2. ~panicked'
        BY <1>4, <2>1, OpenIsOpen DEF HandleClusterEvent, Send, Channels
    <2> QED BY <1>4, <2>2 DEF HandleClusterEvent, Channels
<1>5. ASSUME NEW n \in Node, Close(n) PROVE Channels'
    <2>1. CASE closed[n]
        BY <1>5, <2>1 DEF Close, Channels
    <2>2. CASE ~closed[n]
        <3>1. ~panicked' BY <1>5, <2>2, OpenIsOpen DEF Close, Channels
        <3>2. shut' = shut \cup subs[n] /\ closed' = [closed EXCEPT ![n] = TRUE]
            BY <1>5, <2>2 DEF Close
        <3>3. \A a \in shut' : closed'[Home[a]]
            <4> SUFFICES ASSUME NEW a \in shut' PROVE closed'[Home[a]]
                OBVIOUS
            <4>1. CASE a \in shut
                <5>1. closed[Home[a]] BY <4>1 DEF Channels
                <5>2. Home[a] \in Node BY <4>1, HomeAssumption DEF TypeOK
                <5> QED BY <5>1, <5>2, <3>2 DEF TypeOK
            <4>2. CASE a \in subs[n]
                BY <4>2, <3>2 DEF Channels, TypeOK
            <4> QED BY <4>1, <4>2, <3>2
        <3>4. UNCHANGED subs BY <1>5 DEF Close
        <3> QED BY <3>1, <3>3, <3>4 DEF Channels
    <2> QED BY <2>1, <2>2
<1>6. CASE UNCHANGED <<panicked, subs, shut, closed>>
    BY <1>6 DEF Channels
<1> QED
    BY <1>1, <1>2, <1>3, <1>4, <1>5, <1>6
    DEF Next, vars, Goroutine, CallbackStep, StoreState, Receive, TimeOut, Begin, GetState,
        DeleteState, CompareState, Exchange, StoreToken, Disconnect, broker

\* No order of requests, events, timeouts and deactivations sends on a closed channel
\* or closes one twice (oauthbroker.go).
THEOREM NoChannelPanics == Spec => []NeverPanics
<1>1. Channels => NeverPanics
    BY DEF Channels, NeverPanics
<1> QED BY <1>1, Typed, ChannelsInit, ChannelsStep, PTL DEF Spec

(***************************************************************************)
(* Replays.  A state that was consumed is not stored again, so a callback  *)
(* that begins later finds none.                                           *)
(***************************************************************************)

Consumed == \A a \in used : a \notin states /\ apc[a] # "init"
LateFindsNone == \A b \in late :
    /\ state[b] \in used /\ b \notin wrote
    /\ cpc[b] \in {"get", "delete", "compare", "publish"}
    /\ cpc[b] \in {"delete", "compare"} => ~stored[b]
NotYet == \A b \in Callback : cpc[b] = "init" => b \notin wrote
Replays == Consumed /\ LateFindsNone /\ NotYet

LEMMA ReplaysInit == Init => Replays
BY DEF Init, Replays, Consumed, LateFindsNone, NotYet

\* A state is stored once, at the beginning of its attempt.
LEMMA ConsumedStep == TypeOK /\ Proceeding /\ Consumed /\ [Next]_vars => Consumed'
<1> SUFFICES ASSUME TypeOK, Proceeding, Consumed, [Next]_vars PROVE Consumed'
    OBVIOUS
<1> USE DEF AGoto, CGoto, broker, kv, attempts, callbacks
<1>1. ASSUME NEW a \in Attempt, StoreState(a) PROVE Consumed'
    BY <1>1 DEF StoreState, Consumed, TypeOK
<1>2. ASSUME NEW a \in Attempt, Subscribe(a) \/ Goroutine(a) PROVE Consumed'
    BY <1>2 DEF Subscribe, Goroutine, Receive, TimeOut, Unsubscribe, Consumed, TypeOK
<1>3. ASSUME NEW b \in Callback, DeleteState(b) PROVE Consumed'
    <2>1. apc[state[b]] # "init"
        BY <1>3 DEF DeleteState, Proceeding, Deciding
    <2> QED BY <1>3, <2>1 DEF DeleteState, Consumed
<1>4. ASSUME NEW b \in Callback, Publish(b) PROVE Consumed'
    BY <1>4 DEF Publish, Return, Consumed
<1>5. CASE UNCHANGED <<states, used, apc>>
    BY <1>5 DEF Consumed
<1> QED
    BY <1>1, <1>2, <1>3, <1>4, <1>5
    DEF Next, vars, CallbackStep, Begin, GetState, CompareState, Exchange, StoreToken,
        HandleClusterEvent, Close, Disconnect

\* What callback b does to itself; every other one keeps what it has.
LEMMA LateStep ==
    TypeOK /\ Proceeding /\ Replays /\ [Next]_vars => LateFindsNone' /\ NotYet'
<1> SUFFICES ASSUME TypeOK, Proceeding, Replays, [Next]_vars
             PROVE  LateFindsNone' /\ NotYet'
    OBVIOUS
<1> USE DEF AGoto, CGoto, Fail, broker, kv, attempts, callbacks, Replays
<1>1. ASSUME NEW b \in Callback, Begin(b) PROVE LateFindsNone' /\ NotYet'
    BY <1>1 DEF Begin, LateFindsNone, NotYet, TypeOK
<1>2. ASSUME NEW b \in Callback, GetState(b) PROVE LateFindsNone' /\ NotYet'
    <2>1. b \in late => state[b] \notin states
        BY DEF Consumed, LateFindsNone
    <2>2. NotYet' /\ UNCHANGED <<late, state, used, wrote>>
        BY <1>2 DEF GetState, NotYet, TypeOK
    <2>3. b \in late => cpc'[b] = "publish" \/ (cpc'[b] = "delete" /\ ~stored'[b])
        BY <1>2, <2>1 DEF GetState, TypeOK
    <2>4. \A d \in late \ {b} : cpc'[d] = cpc[d] /\ stored'[d] = stored[d]
        BY <1>2 DEF GetState, TypeOK
    <2> QED BY <2>2, <2>3, <2>4 DEF LateFindsNone
<1>3. ASSUME NEW b \in Callback, DeleteState(b) PROVE LateFindsNone' /\ NotYet'
    BY <1>3 DEF DeleteState, LateFindsNone, NotYet, TypeOK
<1>4. ASSUME NEW b \in Callback, CompareState(b) PROVE LateFindsNone' /\ NotYet'
    BY <1>4 DEF CompareState, LateFindsNone, NotYet, TypeOK
<1>5. ASSUME NEW b \in Callback, Exchange(b) PROVE LateFindsNone' /\ NotYet'
    BY <1>5 DEF Exchange, LateFindsNone, NotYet, TypeOK
<1>6. ASSUME NEW b \in Callback, StoreToken(b) PROVE LateFindsNone' /\ NotYet'
    BY <1>6 DEF StoreToken, LateFindsNone, NotYet, TypeOK
<1>7. ASSUME NEW b \in Callback, Publish(b) PROVE LateFindsNone' /\ NotYet'
    <2>1. Return(b) BY <1>7 DEF Publish
    <2> QED BY <2>1 DEF Return, LateFindsNone, NotYet, TypeOK
<1>8. CASE UNCHANGED callbacks
    BY <1>8 DEF LateFindsNone, NotYet
<1> QED
    BY <1>1, <1>2, <1>3, <1>4, <1>5, <1>6, <1>7, <1>8
    DEF Next, vars, Goroutine, CallbackStep, StoreState, Subscribe, Receive, TimeOut,
        Unsubscribe, HandleClusterEvent, Close, Disconnect

\* A callback that begins after its state was consumed never exchanges its code and
\* stores no token (api.go:268-292).
THEOREM ReplaysAreRefused == Spec => []ReplayRefused
<1>1. Replays => ReplayRefused
    BY DEF Replays, LateFindsNone, ReplayRefused
<1>2. TypeOK /\ Proceeding /\ Replays /\ [Next]_vars => Replays'
    BY ConsumedStep, LateStep DEF Replays
<1> QED BY <1>1, <1>2, Typed, ReplaysInit, PTL DEF Spec

(***************************************************************************)
(* Reports.                                                                *)
(***************************************************************************)

\* Until it has decided, a callback has no error and has stored nothing; what it is
\* about to publish is then what it did.
Truthful == \A b \in Callback :
    /\ cpc[b] = "init" \/ Deciding(b) => b \notin wrote
    /\ b \notin failed =>
        /\ cpc[b] = "init" \/ Deciding(b) => ~rErr[b]
        /\ cpc[b] = "publish" => (rErr[b] <=> b \notin wrote)

LEMMA ReportInit == Init => Truthful
BY DEF Init, Truthful, Deciding

\* Every way out of the handler sets rErr or stores the token, or counts as failed.
LEMMA ReportStep == TypeOK /\ Truthful /\ [Next]_vars => Truthful'
<1> SUFFICES ASSUME TypeOK, Truthful, [Next]_vars PROVE Truthful'
    OBVIOUS
<1> USE DEF AGoto, CGoto, Fail, broker, kv, attempts, callbacks, Deciding
<1>1. ASSUME NEW b \in Callback, Begin(b) PROVE Truthful'
    BY <1>1 DEF Begin, Truthful, TypeOK
<1>2. ASSUME NEW b \in Callback, GetState(b) PROVE Truthful'
    BY <1>2 DEF GetState, Truthful, TypeOK
<1>3. ASSUME NEW b \in Callback, DeleteState(b) PROVE Truthful'
    BY <1>3 DEF DeleteState, Truthful, TypeOK
<1>4. ASSUME NEW b \in Callback, CompareState(b) PROVE Truthful'
    BY <1>4 DEF CompareState, Truthful, TypeOK
<1>5. ASSUME NEW b \in Callback, Exchange(b) PROVE Truthful'
    BY <1>5 DEF Exchange, Truthful, TypeOK
<1>6. ASSUME NEW b \in Callback, StoreToken(b) PROVE Truthful'
    BY <1>6 DEF StoreToken, Truthful, TypeOK
<1>7. ASSUME NEW b \in Callback, Publish(b) PROVE Truthful'
    <2>1. Return(b) BY <1>7 DEF Publish
    <2> QED BY <2>1 DEF Return, Truthful, TypeOK
<1>8. CASE UNCHANGED callbacks
    BY <1>8 DEF Truthful
<1> QED
    BY <1>1, <1>2, <1>3, <1>4, <1>5, <1>6, <1>7, <1>8
    DEF Next, vars, Goroutine, CallbackStep, StoreState, Subscribe, Receive, TimeOut,
        Unsubscribe, HandleClusterEvent, Close, Disconnect

\* The deferred publish reports an error exactly when no token was stored, on every
\* way out of the handler but the two that forget rErr (api.go:277-283, 301-312).
THEOREM ReportsAreTrue == Spec => []ReportIsTrue
<1>1. Truthful => ReportIsTrue
    BY DEF Truthful, ReportIsTrue
<1> QED BY <1>1, Typed, ReportInit, ReportStep, PTL DEF Spec

(***************************************************************************)
(* What the waiting goroutines are told.  A nil on its way, in a channel   *)
(* or in a cluster event, comes from a callback that has stored a token.   *)
(***************************************************************************)

NilsEarned == failed = {} =>
    /\ events # {} => wrote # {}
    /\ \A a \in Attempt : buf[a] = "nil" => wrote # {}
    /\ \A a \in Attempt : outcome[a] = "nil" => wrote # {} \/ closed[Home[a]]

LEMMA NilsInit == Init => NilsEarned
BY DEF Init, NilsEarned

\* Tokens stored, failures and closed brokers only become more.
LEMMA Monotone ==
    ASSUME TypeOK, [Next]_vars
    PROVE  /\ wrote \subseteq wrote' /\ failed \subseteq failed'
           /\ \A n \in Node : closed[n] => closed'[n]
<1> USE DEF callbacks, broker
<1>1. ASSUME NEW b \in Callback, Publish(b)
      PROVE  wrote \subseteq wrote' /\ failed \subseteq failed' /\ UNCHANGED closed
    <2>1. Return(b) BY <1>1 DEF Publish
    <2> QED BY <1>1, <2>1 DEF Publish, Return
<1>2. ASSUME NEW n \in Node, Close(n)
      PROVE  /\ wrote \subseteq wrote' /\ failed \subseteq failed'
             /\ \A m \in Node : closed[m] => closed'[m]
    BY <1>2 DEF Close, TypeOK
<1>3. ASSUME NEW b \in Callback, Begin(b) \/ GetState(b) \/ CompareState(b)
      PROVE  UNCHANGED <<wrote, failed, closed>>
    BY <1>3 DEF Begin, GetState, CompareState
<1>4. ASSUME NEW b \in Callback, DeleteState(b) \/ Exchange(b) \/ StoreToken(b)
      PROVE  wrote \subseteq wrote' /\ failed \subseteq failed' /\ UNCHANGED closed
    BY <1>4 DEF DeleteState, Exchange, StoreToken
<1>5. ASSUME NEW a \in Attempt, StoreState(a) \/ Subscribe(a) \/ Goroutine(a)
      PROVE  UNCHANGED <<wrote, failed, closed>>
    BY <1>5 DEF StoreState, Subscribe, Goroutine, Receive, TimeOut, Unsubscribe
<1>6. ASSUME NEW e \in events, HandleClusterEvent(e)
      PROVE  UNCHANGED <<wrote, failed, closed>>
    BY <1>6 DEF HandleClusterEvent
<1>7. CASE Disconnect \/ UNCHANGED vars
    BY <1>7 DEF Disconnect, vars
<1> QED BY <1>1, <1>2, <1>3, <1>4, <1>5, <1>6, <1>7 DEF Next, CallbackStep

\* A nil is sent by a callback without an error, which has stored a token, or taken
\* from an event, and received from a channel or from a closed one.
LEMMA NilsStep ==
    TypeOK /\ Channels /\ Truthful /\ NilsEarned /\ [Next]_vars => NilsEarned'
<1> SUFFICES ASSUME TypeOK, Channels, Truthful, NilsEarned, [Next]_vars, failed' = {}
             PROVE  /\ events' # {} => wrote' # {}
                    /\ \A a \in Attempt : buf'[a] = "nil" => wrote' # {}
                    /\ \A a \in Attempt : outcome'[a] = "nil" => wrote' # {} \/ closed'[Home[a]]
    BY DEF NilsEarned
<1> DEFINE Goal == /\ events' # {} => wrote' # {}
                   /\ \A a \in Attempt : buf'[a] = "nil" => wrote' # {}
                   /\ \A a \in Attempt : outcome'[a] = "nil" => wrote' # {} \/ closed'[Home[a]]
<1> USE DEF AGoto, broker, attempts, callbacks
<1>1. failed = {} /\ (wrote # {} => wrote' # {})
    BY Monotone
<1>2. \A a \in Attempt : closed[Home[a]] => closed'[Home[a]]
    BY Monotone, HomeAssumption
<1>3. ASSUME NEW a \in Attempt, Receive(a) PROVE Goal
    <2>1. a \in shut => closed[Home[a]]
        BY DEF Channels
    <2>2. outcome'[a] = "nil" => buf[a] = "nil" \/ closed[Home[a]]
        BY <1>3, <2>1 DEF Receive, TypeOK
    <2>3. \A d \in Attempt \ {a} : outcome'[d] = outcome[d]
        BY <1>3 DEF Receive, TypeOK
    <2>4. \A d \in Attempt : buf'[d] = "nil" => buf[d] = "nil"
        BY <1>3 DEF Receive, TypeOK
    <2>5. UNCHANGED events
        BY <1>3 DEF Receive
    <2> QED BY <1>1, <1>2, <2>2, <2>3, <2>4, <2>5 DEF NilsEarned
<1>4. ASSUME NEW a \in Attempt, TimeOut(a) PROVE Goal
    BY <1>1, <1>2, <1>4 DEF TimeOut, NilsEarned, TypeOK
<1>5. ASSUME NEW a \in Attempt, Unsubscribe(a) PROVE Goal
    BY <1>1, <1>2, <1>5 DEF Unsubscribe, NilsEarned, TypeOK
<1>6. ASSUME NEW b \in Callback, Publish(b) PROVE Goal
    <2>1. ~rErr[b] => b \in wrote
        BY <1>1, <1>6 DEF Publish, Truthful, TypeOK
    <2>2. events' # {} => events # {} \/ ~rErr[b]
        BY <1>6 DEF Publish
    <2>3. \A a \in Attempt : buf'[a] = "nil" => buf[a] = "nil" \/ ~rErr[b]
        BY <1>6 DEF Publish, Send, TypeOK
    <2>4. UNCHANGED outcome
        BY <1>6 DEF Publish
    <2> QED BY <1>1, <1>2, <2>1, <2>2, <2>3, <2>4 DEF NilsEarned
<1>7. ASSUME NEW e \in events, HandleClusterEvent(e) PROVE Goal
    <2>1. wrote # {}
        BY <1>1 DEF NilsEarned
    <2> QED BY <1>1, <2>1
<1>8. CASE UNCHANGED <<events, buf, outcome>>
    BY <1>1, <1>2, <1>8 DEF NilsEarned
<1> QED
    BY <1>3, <1>4, <1>5, <1>6, <1>7, <1>8
    DEF Next, vars, Goroutine, CallbackStep, StoreState, Subscribe, Begin, GetState,
        DeleteState, CompareState, Exchange, StoreToken, Close, Disconnect

\* A goroutine that reports no error, on whichever node it waits, was told so because
\* a callback stored a token, unless its node's plugin was deactivated or one of the
\* two forgotten errors happened (api.go:160-212, oauthbroker.go).
THEOREM NilIsEarned == Spec => []NilMeansStored
<1>1. NilsEarned => NilMeansStored
    BY DEF NilsEarned, NilMeansStored
<1> QED
    BY <1>1, Typed, ChannelsInit, ChannelsStep, ReportInit, ReportStep, NilsInit, NilsStep, PTL
    DEF Spec
=============================================================================
