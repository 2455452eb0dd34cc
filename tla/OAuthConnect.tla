----------------------------- MODULE OAuthConnect -----------------------------
(***************************************************************************)
(* Connecting ONE user's Google account (server/plugin/api.go, the         *)
(* OAuthBroker, cluster.go, and /google-drive disconnect).                 *)
(*                                                                         *)
(* An attempt is one visit of /oauth/connect: it stores a state token,     *)
(* subscribes to the broker of the node that serves it, and leaves behind  *)
(* a goroutine that waits 45 seconds for the outcome.  A callback is one   *)
(* visit of /oauth/complete, perhaps on another node, carrying the state   *)
(* of an attempt (the user may reload the page) or a malformed one.  The   *)
(* outcome reaches other nodes as a cluster event.                         *)
(***************************************************************************)
EXTENDS Naturals, FiniteSets

CONSTANTS
    Attempt,    \* requests to /oauth/connect; each names its own state token
    Callback,   \* requests to /oauth/complete
    BadState,   \* a state parameter that fails the checks of api.go:230-266
    Node,       \* the cluster's nodes
    Home,       \* which node serves each request
    Faults      \* subset of {"delete", "encrypt", "close"}

ASSUME HomeAssumption ==
    /\ Attempt \cap Callback = {} /\ BadState \notin Attempt
    /\ Home \in [Attempt \cup Callback -> Node]
ASSUME FaultAssumption == Faults \subseteq {"delete", "encrypt", "close"}

VARIABLES
    states,    \* KV: the stored state tokens
    token,     \* KV: is an encrypted user token stored
    closed,    \* broker of each node: Close was called
    subs,      \* broker of each node: the attempts' subscribed channels
    buf,       \* each attempt's channel, buffer of one: "empty" | "nil" | "err"
    shut,      \* the channels that were closed
    panicked,  \* a send on, or a second close of, a closed channel
    apc,       \* where each connect handler, then its goroutine, is
    outcome,   \* what the goroutine saw: "none" | "nil" | "err" | "timeout"
    cpc,       \* where each callback is
    state,     \* callback: its state parameter
    stored,    \* callback: storedState equals the state parameter
    rErr,      \* callback: the error its deferred publish reports
    wrote,     \* history: the callbacks that stored a user token
    late,      \* history: the running callbacks that began after their state was deleted
    used,      \* history: the states some callback has deleted
    failed,    \* history: the callbacks whose state deletion or encryption failed
    events     \* cluster events on their way: <<callback, node>>

broker == <<closed, subs, buf, shut, panicked, events>>
kv == <<states, token>>
attempts == <<apc, outcome>>
callbacks == <<cpc, state, stored, rErr, wrote, late, used, failed>>
vars == <<states, token, closed, subs, buf, shut, panicked, apc, outcome, cpc,
          state, stored, rErr, wrote, late, used, failed, events>>

TypeOK ==
    /\ states \subseteq Attempt /\ token \in BOOLEAN
    /\ closed \in [Node -> BOOLEAN]
    /\ subs \in [Node -> SUBSET Attempt]
    /\ buf \in [Attempt -> {"empty", "nil", "err"}]
    /\ shut \subseteq Attempt /\ panicked \in BOOLEAN
    /\ apc \in [Attempt -> {"init", "subscribe", "wait", "unsubscribe", "done"}]
    /\ outcome \in [Attempt -> {"none", "nil", "err", "timeout"}]
    /\ cpc \in [Callback -> {"init", "get", "delete", "compare", "exchange",
                             "store", "publish", "done"}]
    /\ state \in [Callback -> Attempt \cup {BadState}]
    /\ stored \in [Callback -> BOOLEAN] /\ rErr \in [Callback -> BOOLEAN]
    /\ wrote \subseteq Callback /\ late \subseteq Callback /\ used \subseteq Attempt
    /\ failed \subseteq Callback
    /\ events \subseteq Callback \X Node

Init ==
    /\ states = {} /\ token = FALSE
    /\ closed = [n \in Node |-> FALSE]
    /\ subs = [n \in Node |-> {}]
    /\ buf = [a \in Attempt |-> "empty"]
    /\ shut = {} /\ panicked = FALSE
    /\ apc = [a \in Attempt |-> "init"]
    /\ outcome = [a \in Attempt |-> "none"]
    /\ cpc = [b \in Callback |-> "init"]
    /\ state = [b \in Callback |-> BadState]
    /\ stored = [b \in Callback |-> FALSE]
    /\ rErr = [b \in Callback |-> FALSE]
    /\ wrote = {} /\ late = {} /\ used = {} /\ failed = {} /\ events = {}

AGoto(a, label) == apc' = [apc EXCEPT ![a] = label]
CGoto(b, label) == cpc' = [cpc EXCEPT ![b] = label]
Fail(b) == CGoto(b, "publish") /\ rErr' = [rErr EXCEPT ![b] = TRUE]

\* The callback returns: its locals are gone.
Return(b) ==
    /\ CGoto(b, "done")
    /\ state' = [state EXCEPT ![b] = BadState]
    /\ stored' = [stored EXCEPT ![b] = FALSE]
    /\ rErr' = [rErr EXCEPT ![b] = FALSE]
    /\ late' = late \ {b}
    /\ UNCHANGED <<wrote, used, failed>>

-----------------------------------------------------------------------------
(* connectUserToGoogle and its goroutine.                                  *)

StoreState(a) ==
    /\ apc[a] = "init"
    /\ \/ states' = states \cup {a} /\ AGoto(a, "subscribe")
       \/ AGoto(a, "done") /\ UNCHANGED states      \* can't store state oauth2
    /\ UNCHANGED <<token, broker, outcome, callbacks>>

\* SubscribeOAuthComplete, the start of the goroutine, and the redirect.
Subscribe(a) ==
    /\ apc[a] = "subscribe"
    /\ subs' = [subs EXCEPT ![Home[a]] = @ \cup {a}]
    /\ AGoto(a, "wait")
    /\ UNCHANGED <<kv, closed, buf, shut, panicked, events, outcome, callbacks>>

\* (A mistake the checks must find: the channel is read without waiting.)
ReceiveNow(a) ==
    /\ apc[a] = "wait"
    /\ outcome' = [outcome EXCEPT ![a] = buf[a]]
    /\ buf' = [buf EXCEPT ![a] = "empty"]
    /\ AGoto(a, "unsubscribe")
    /\ UNCHANGED <<kv, closed, subs, shut, panicked, events, callbacks>>

\* "case err := <-ch": a buffered value first, then nil if the channel is closed.
Receive(a) ==
    /\ apc[a] = "wait"
    /\ \/ buf[a] # "empty" /\ outcome' = [outcome EXCEPT ![a] = buf[a]]
       \/ buf[a] = "empty" /\ a \in shut /\ outcome' = [outcome EXCEPT ![a] = "nil"]
    /\ buf' = [buf EXCEPT ![a] = "empty"]
    /\ AGoto(a, "unsubscribe")
    /\ UNCHANGED <<kv, closed, subs, shut, panicked, events, callbacks>>

\* (A mistake: the goroutine returns at the timeout.)
TimeOutReturns(a) ==
    /\ apc[a] = "wait"
    /\ outcome' = [outcome EXCEPT ![a] = "timeout"]
    /\ AGoto(a, "done")
    /\ UNCHANGED <<kv, broker, callbacks>>

\* "case <-ctx.Done()": 45 seconds have passed.
TimeOut(a) ==
    /\ apc[a] = "wait"
    /\ outcome' = [outcome EXCEPT ![a] = "timeout"]
    /\ AGoto(a, "unsubscribe")
    /\ UNCHANGED <<kv, broker, callbacks>>

\* UnsubscribeOAuthComplete, after the direct message if there was an error.
\* The goroutine's locals are gone, and with them its channel.
Unsubscribe(a) ==
    /\ apc[a] = "unsubscribe"
    /\ subs' = [subs EXCEPT ![Home[a]] = @ \ {a}]
    /\ AGoto(a, "done")
    /\ outcome' = [outcome EXCEPT ![a] = "none"]
    /\ buf' = [buf EXCEPT ![a] = "empty"]
    /\ UNCHANGED <<kv, closed, shut, panicked, events, callbacks>>

-----------------------------------------------------------------------------
(* completeConnectUserToGoogle.                                            *)

\* The checks on code and state; a well-formed state was handed out by the
\* redirect of an attempt of this user.
Begin(b) ==
    /\ cpc[b] = "init"
    /\ \/ \E a \in Attempt :
            /\ apc[a] \in {"wait", "unsubscribe", "done"} /\ a \in states \cup used
            /\ state' = [state EXCEPT ![b] = a]
            /\ late' = IF a \in used THEN late \cup {b} ELSE late
            /\ CGoto(b, "get") /\ UNCHANGED rErr
       \/ Fail(b) /\ UNCHANGED <<state, late>>
    /\ UNCHANGED <<kv, broker, attempts, stored, wrote, used, failed>>

\* GetOAuthStateToken: a missing key is not an error, it reads as "".
GetState(b) ==
    /\ cpc[b] = "get"
    /\ \/ /\ stored' = [stored EXCEPT ![b] = state[b] \in states]
          /\ CGoto(b, "delete") /\ UNCHANGED rErr
       \/ Fail(b) /\ UNCHANGED stored
    /\ UNCHANGED <<kv, broker, attempts, state, wrote, late, used, failed>>

\* DeleteOAuthStateToken: on failure rErr is set, the error is written to the
\* response, and the handler goes on (api.go:277-283 has no return).
DeleteState(b) ==
    /\ cpc[b] = "delete"
    /\ \/ /\ states' = states \ {state[b]} /\ used' = used \cup {state[b]}
          /\ UNCHANGED <<rErr, failed>>
       \/ /\ "delete" \in Faults /\ failed' = failed \cup {b}
          /\ rErr' = [rErr EXCEPT ![b] = TRUE] /\ UNCHANGED <<states, used>>
    /\ CGoto(b, "compare")
    /\ UNCHANGED <<token, broker, attempts, state, stored, wrote, late>>

\* (A mistake: a wrong state is not noticed.)
CompareNothing(b) ==
    /\ cpc[b] = "compare"
    /\ CGoto(b, "exchange")
    /\ UNCHANGED <<kv, broker, attempts, state, stored, rErr, wrote, late, used, failed>>

CompareState(b) ==
    /\ cpc[b] = "compare"
    /\ IF stored[b] THEN CGoto(b, "exchange") /\ UNCHANGED rErr ELSE Fail(b)
    /\ UNCHANGED <<kv, broker, attempts, state, stored, wrote, late, used, failed>>

\* (A mistake: a refused code is not reported.)
ExchangeSilently(b) ==
    /\ cpc[b] = "exchange"
    /\ CGoto(b, "store") \/ CGoto(b, "publish")
    /\ UNCHANGED <<kv, broker, attempts, state, stored, rErr, wrote, late, used, failed>>

\* oauthConfig.Exchange: Google may refuse the code.  json.Marshal and
\* utils.Encrypt, which touch nothing shared: on failure the handler returns
\* without setting rErr (api.go:301-312).
Exchange(b) ==
    /\ cpc[b] = "exchange"
    /\ \/ CGoto(b, "store") /\ UNCHANGED <<rErr, failed>>
       \/ Fail(b) /\ UNCHANGED failed
       \/ /\ "encrypt" \in Faults /\ failed' = failed \cup {b}
          /\ CGoto(b, "publish") /\ UNCHANGED rErr
    /\ UNCHANGED <<kv, broker, attempts, state, stored, wrote, late, used>>

\* StoreGoogleUserToken, then the welcome post and the websocket event.
StoreToken(b) ==
    /\ cpc[b] = "store"
    /\ \/ /\ token' = TRUE /\ wrote' = wrote \cup {b}
          /\ CGoto(b, "publish") /\ UNCHANGED rErr
       \/ Fail(b) /\ UNCHANGED <<token, wrote>>
    /\ UNCHANGED <<states, broker, attempts, state, stored, late, used, failed>>

\* The non-blocking send of publishOAuthComplete to every subscriber of node n;
\* sending on a closed channel panics.
Send(n, result) ==
    /\ buf' = [a \in Attempt |-> IF a \in subs[n] /\ buf[a] = "empty" THEN result ELSE buf[a]]
    /\ panicked' = (panicked \/ subs[n] \cap shut # {})

\* (Two mistakes: an event for an error reaches the other nodes without it,
\* and a closed broker publishes.)
PublishAll(b) ==
    /\ cpc[b] = "publish"
    /\ LET n == Home[b] IN
       IF closed[n] THEN UNCHANGED <<buf, panicked, events>>
       ELSE /\ Send(n, IF rErr[b] THEN "err" ELSE "nil")
            /\ events' = events \cup {<<b, m>> : m \in Node \ {n}}
    /\ Return(b)
    /\ UNCHANGED <<kv, closed, subs, shut, attempts>>
PublishClosed(b) ==
    /\ cpc[b] = "publish"
    /\ Send(Home[b], IF rErr[b] THEN "err" ELSE "nil")
    /\ Return(b)
    /\ UNCHANGED <<kv, closed, subs, shut, events, attempts>>

\* The deferred publishOAuthComplete(c.UserID, rErr, false).  The other nodes
\* get the event, but an error marshals to {} and does not unmarshal into the
\* error interface, so HandleClusterEvent drops it.
Publish(b) ==
    /\ cpc[b] = "publish"
    /\ LET n == Home[b] IN
       IF closed[n] THEN UNCHANGED <<buf, panicked, events>>
       ELSE /\ Send(n, IF rErr[b] THEN "err" ELSE "nil")
            /\ events' = IF rErr[b] THEN events
                         ELSE events \cup {<<b, m>> : m \in Node \ {n}}
    /\ Return(b)
    /\ UNCHANGED <<kv, closed, subs, shut, attempts>>

\* HandleClusterEvent: publishOAuthComplete(event.UserID, event.Err, true).
HandleClusterEvent(e) ==
    /\ e \in events
    /\ events' = events \ {e}
    /\ IF closed[e[2]] THEN UNCHANGED <<buf, panicked>> ELSE Send(e[2], "nil")
    /\ UNCHANGED <<kv, closed, subs, shut, attempts, callbacks>>

-----------------------------------------------------------------------------
\* OnDeactivate: OAuthBroker.Close, which may be called again.
Close(n) ==
    /\ "close" \in Faults
    /\ IF closed[n] THEN UNCHANGED <<closed, shut, panicked>>
       ELSE /\ closed' = [closed EXCEPT ![n] = TRUE]
            /\ shut' = shut \cup subs[n]
            /\ panicked' = (panicked \/ subs[n] \cap shut # {})
    /\ UNCHANGED <<kv, subs, buf, events, attempts, callbacks>>

\* handleDisconnect.  What it reads only chooses its answer, and deleting no
\* token changes nothing, so its effect is that of its second KV call.
Disconnect ==
    /\ token /\ token' = FALSE
    /\ UNCHANGED <<states, broker, attempts, callbacks>>

Goroutine(a) == Receive(a) \/ TimeOut(a) \/ Unsubscribe(a)
CallbackStep(b) ==
    \/ GetState(b) \/ DeleteState(b) \/ CompareState(b) \/ Exchange(b)
    \/ StoreToken(b) \/ Publish(b)

Next ==
    \/ \E a \in Attempt : StoreState(a) \/ Subscribe(a) \/ Goroutine(a)
    \/ \E b \in Callback : Begin(b) \/ CallbackStep(b)
    \/ \E e \in events : HandleClusterEvent(e)
    \/ \E n \in Node : Close(n)
    \/ Disconnect

Spec == Init /\ [][Next]_vars

\* A request that has begun runs on, the goroutine is scheduled and its timer
\* fires; nothing obliges the user to come back from Google.
FairSpec ==
    /\ Spec
    /\ \A a \in Attempt : WF_vars(Subscribe(a)) /\ WF_vars(Goroutine(a))
    /\ \A b \in Callback : WF_vars(CallbackStep(b))

-----------------------------------------------------------------------------
\* A callback that reports an error has not connected the user: "There was an
\* error connecting to your Google account" (api.go:200) is true when it is
\* sent because of that callback.  Breaks when deleting the state fails.
ErrorMeansNotConnected ==
    \A b \in Callback : cpc[b] = "publish" /\ rErr[b] => b \notin wrote

\* The deferred publish tells the truth on every way out of the handler: it
\* reports an error exactly if this callback stored no token.  (Not when the
\* state could not be deleted or the token could not be encrypted.)
ReportIsTrue ==
    \A b \in Callback \ failed : cpc[b] = "publish" => (rErr[b] <=> b \notin wrote)

\* A goroutine that is told nil by the broker, on the callback's node or
\* through the cluster, was told so because some callback stored a token.
\* (Not after such a failure, and not when the plugin of its node is
\* deactivated: Close reads as nil too.)
NilMeansStored ==
    failed = {} =>
        \A a \in Attempt : outcome[a] = "nil" => wrote # {} \/ closed[Home[a]]

\* A state token is good once: a callback that begins after another one has
\* consumed the state never exchanges its code.
ReplayRefused ==
    \A b \in late : cpc[b] \notin {"exchange", "store"} /\ b \notin wrote

\* Publishing never sends on a closed channel and Close never closes one
\* twice, in whatever order requests, events and deactivation come.
NeverPanics == ~panicked

\* Every waiting goroutine ends, by an answer or by its timer, and takes its
\* channel out of the broker: none is left there once the user stops trying.
WaitersLeave == (\E n \in Node : subs[n] # {}) ~> (\A n \in Node : subs[n] = {})
=============================================================================
