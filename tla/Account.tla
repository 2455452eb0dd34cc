------------------------------- MODULE Account -------------------------------
(***************************************************************************)
(* WatchChannel together with what OAuthConnect decides: whether the user  *)
(* has a Google account connected.  Disconnecting deletes the token from   *)
(* the KV store and nothing else (handleDisconnect, server/plugin/         *)
(* command.go): the watch channel goes on, its record stays, and webhooks, *)
(* workers and commands find out from Google's client.                     *)
(*                                                                         *)
(* A process builds its Drive service anew, with the token it finds at     *)
(* that moment (NewDriveService, server/plugin/google/google.go).  Without *)
(* one a service can be built too, but every call it makes fails.          *)
(***************************************************************************)
EXTENDS WatchChannel

CONSTANT MaxConnects  \* bound: how often the user connects

ASSUME ConnectsAssumption == MaxConnects \in Nat

VARIABLES
    token,    \* KV: the user's token is there
    service,  \* the processes whose Drive service has a token
    away,     \* history: the user was told "Disconnected", and has not connected since
    gone,     \* history: the processes that began since then
    connects  \* bound: how often the user has connected

account == <<token, service, away, gone, connects>>
accountVars == <<vars, account>>

AccountTypeOK ==
    /\ token \in BOOLEAN /\ away \in BOOLEAN
    /\ service \subseteq Proc /\ gone \subseteq Proc
    /\ connects \in 0 .. MaxConnects

AccountInit ==
    Init /\ token = FALSE /\ service = {} /\ away = FALSE /\ gone = {} /\ connects = 0

-----------------------------------------------------------------------------
\* What Google answers is answered to a service with a token.
Authorised(p) ==
    /\ pc[p] = "getPage" /\ pc'[p] = "watch" => token
    /\ pc[p] = "read" /\ pc'[p] = "list" /\ data.page = 0 => token
    /\ pc[p] = "list" /\ calls'[p] > calls[p] => p \in service
    /\ chan' # chan => p \in service

\* (A mistake the checks must find: services are built once and kept.)
KeepService(p) ==
    service' = IF token /\ pc[p] \in {"getPage", "delete", "read"} THEN service \cup {p}
               ELSE service

\* NewDriveService, at the three places where it is called.
NewDriveService(p) ==
    service' = IF pc'[p] = "idle" THEN service \ {p}
               ELSE IF pc[p] \notin {"getPage", "delete", "read"} THEN service
               ELSE IF token THEN service \cup {p} ELSE service \ {p}

\* A step of process p of WatchChannel.
With(p) ==
    /\ Authorised(p) /\ NewDriveService(p)
    /\ gone' = IF pc'[p] = "idle" THEN gone \ {p}
               ELSE IF pc[p] = "idle" /\ away THEN gone \cup {p} ELSE gone
    /\ UNCHANGED <<token, away, connects>>

\* completeConnectUserToGoogle stores a token.
Connect ==
    /\ connects < MaxConnects /\ connects' = connects + 1
    /\ token' = TRUE /\ away' = FALSE /\ gone' = {}
    /\ UNCHANGED <<vars, service>>

\* (A mistake: an error is not looked at.)
DisconnectAnyway ==
    /\ token /\ token' \in BOOLEAN /\ away' = TRUE
    /\ UNCHANGED <<vars, service, gone, connects>>

\* handleDisconnect: it reads the token, deletes it and says so.  A delete that
\* fails changes nothing.
Disconnect ==
    /\ token /\ token' = FALSE /\ away' = TRUE
    /\ UNCHANGED <<vars, service, gone, connects>>

AccountNext ==
    \/ \E p \in Proc :
        \/ StartCheck(p) /\ With(p)
        \/ StopCheck(p) /\ With(p)
        \/ RefreshPick(p) /\ With(p)
        \/ Steps(p) /\ With(p)
        \/ Crash(p) /\ With(p)
    \/ \E p \in Hooks, c \in Chan : HookCheck(p, c) /\ With(p)
    \/ (Change \/ LockExpires) /\ UNCHANGED account
    \/ Connect \/ Disconnect

AccountSpec == AccountInit /\ [][AccountNext]_accountVars

-----------------------------------------------------------------------------
\* The process has something from Google in hand, or is about to get a channel.
InTouch(p) == pc[p] \in {"watch", "store", "activity", "dispatch", "save"}

\* After "Disconnected your Google account." (command.go:218) no command, worker or
\* webhook that begins gets a channel or a change from Google, although the channel
\* is still alive and its record still there; only those already on their way, with
\* the service they have built, go on.
NothingAfterDisconnect == \A p \in gone : ~InTouch(p)
=============================================================================
