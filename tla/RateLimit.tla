------------------------------- MODULE RateLimit -------------------------------
(***************************************************************************)
(* How the Google client keeps within Google's quotas (the services of     *)
(* server/plugin/google, and the flags in server/plugin/kvstore): a call   *)
(* that Google refuses sets a flag in the KV store, for the user or for    *)
(* the whole project, which stops later calls until it expires.            *)
(*                                                                         *)
(* A caller is one goroutine working for one user: it builds a service,    *)
(* then calls it again and again.  Only Drive has the local token bucket.  *)
(***************************************************************************)
EXTENDS Naturals, FiniteSets

CONSTANTS
    User, Service,
    Bucketed,     \* the services with a limiter: Drive
    Caller,       \* goroutines
    UserOf,       \* the user each caller works for
    BurstSize,    \* tokens in the bucket
    Details,      \* the sets of details Google may attach to rateLimitExceeded
    Faults        \* subset of {"write"}

\* A detail that names the per-user quota, one that names another quota, and
\* one that names none (a link to documentation, say).
Detail == {"perUser", "project", "help"}

ASSUME CallerAssumption == UserOf \in [Caller -> User] /\ Bucketed \subseteq Service
ASSUME NumberAssumption == BurstSize \in Nat \ {0}
ASSUME AnswerAssumption ==
    Details \subseteq SUBSET Detail /\ Faults \subseteq {"write"}

VARIABLES
    userFlag,     \* KV: user-rate_limited-<service>-<user>, 10 seconds
    projectFlag,  \* KV: user-rate_limited-<service>, 10 seconds
    tokens,       \* limiter of the one Drive bucket
    pc,           \* caller: "idle" | "ready" | "wait" | "send"
    service,      \* caller: the service it has built
    blamed,       \* history: the services whose project quota Google named
    late          \* history: calls each caller has sent while a flag forbade them

vars == <<userFlag, projectFlag, tokens, pc, service, blamed, late>>

Flags == Service \X User

TypeOK ==
    /\ userFlag \subseteq Flags /\ projectFlag \subseteq Service
    /\ tokens \in 0 .. BurstSize
    /\ pc \in [Caller -> {"idle", "ready", "wait", "send"}]
    /\ service \in [Caller -> Service]
    /\ blamed \subseteq Service
    /\ late \in [Caller -> Nat]

Init ==
    /\ userFlag = {} /\ projectFlag = {}
    /\ tokens = BurstSize
    /\ pc = [c \in Caller |-> "idle"]
    /\ service \in [Caller -> Service]
    /\ blamed = {}
    /\ late = [c \in Caller |-> 0]

-----------------------------------------------------------------------------
\* checkKVStoreLimitExceeded answers nil.
Allowed(s, u) == <<s, u>> \notin userFlag /\ s \notin projectFlag

\* NewDriveService and the other four.
NewService(c, s) ==
    /\ pc[c] = "idle"
    /\ Allowed(s, UserOf[c])
    /\ service' = [service EXCEPT ![c] = s]
    /\ pc' = [pc EXCEPT ![c] = "ready"]
    /\ late' = [late EXCEPT ![c] = 0]
    /\ UNCHANGED <<userFlag, projectFlag, tokens, blamed>>

\* (A mistake: the flags were read when the service was built, so only the
\* bucket is asked.)
CheckBucketOnly(c) ==
    /\ pc[c] = "ready"
    /\ pc' = [pc EXCEPT ![c] = IF service[c] \in Bucketed THEN "wait" ELSE "send"]
    /\ UNCHANGED <<userFlag, projectFlag, tokens, service, blamed, late>>

\* checkRateLimits: a flag ends the call, and its request; otherwise the bucket
\* is asked for a token.
CheckRateLimits(c) ==
    /\ pc[c] = "ready"
    /\ pc' = [pc EXCEPT ![c] =
                IF ~Allowed(service[c], UserOf[c]) THEN "idle"
                ELSE IF service[c] \in Bucketed THEN "wait" ELSE "send"]
    /\ UNCHANGED <<userFlag, projectFlag, tokens, service, blamed, late>>

\* (A mistake the checks must find: a token is taken that is not there.)
WaitNot(c) ==
    /\ pc[c] = "wait"
    /\ tokens' = tokens - 1 /\ pc' = [pc EXCEPT ![c] = "send"]
    /\ UNCHANGED <<userFlag, projectFlag, service, blamed, late>>

\* limiter.WaitN(ctx, 1), or the context's end.
WaitN(c) ==
    /\ pc[c] = "wait"
    /\ \/ tokens > 0 /\ tokens' = tokens - 1 /\ pc' = [pc EXCEPT ![c] = "send"]
       \/ pc' = [pc EXCEPT ![c] = "idle"] /\ UNCHANGED tokens
    /\ UNCHANGED <<userFlag, projectFlag, service, blamed, late>>

Refill ==
    /\ tokens < BurstSize
    /\ tokens' = tokens + 1
    /\ UNCHANGED <<userFlag, projectFlag, pc, service, blamed, late>>

-----------------------------------------------------------------------------
\* The call goes out, and the caller goes on with the service or is done.
Send(c) ==
    /\ pc[c] = "send"
    /\ late' = IF Allowed(service[c], UserOf[c]) THEN late ELSE [late EXCEPT ![c] = @ + 1]
    /\ pc' \in {[pc EXCEPT ![c] = "ready"], [pc EXCEPT ![c] = "idle"]}
    /\ UNCHANGED <<tokens, service>>

\* Google answers, or refuses for a reason that is no quota.
Succeed(c) == Send(c) /\ UNCHANGED <<userFlag, projectFlag, blamed>>

\* checkForRateLimitErrors: reason userRateLimitExceeded.
RefuseUser(c) ==
    /\ Send(c)
    /\ \/ userFlag' = userFlag \cup {<<service[c], UserOf[c]>>}
       \/ "write" \in Faults /\ UNCHANGED userFlag
    /\ UNCHANGED <<projectFlag, blamed>>

\* checkForRateLimitErrors: reason rateLimitExceeded.  A detail that names the
\* per-user quota sets the user's flag, any other one the project's; a store
\* that fails ends the loop over the details.
RefuseDetailed(c, details) ==
    /\ Send(c)
    /\ blamed' = IF "project" \in details THEN blamed \cup {service[c]} ELSE blamed
    /\ \E done \in IF "write" \in Faults THEN SUBSET details ELSE {details} :
        /\ userFlag' = IF "perUser" \in done
                       THEN userFlag \cup {<<service[c], UserOf[c]>>} ELSE userFlag
        /\ projectFlag' = IF done \ {"perUser"} # {}
                          THEN projectFlag \cup {service[c]} ELSE projectFlag

-----------------------------------------------------------------------------
\* Ten seconds after a flag was last set; a caller no flag stops any more has a
\* clean slate.
Forgive == late' = [c \in Caller |->
    IF /\ <<service[c], UserOf[c]>> \notin userFlag'
       /\ service[c] \notin projectFlag'
    THEN 0 ELSE late[c]]

UserFlagExpires(flag) ==
    /\ flag \in userFlag
    /\ userFlag' = userFlag \ {flag}
    /\ UNCHANGED <<projectFlag, tokens, pc, service, blamed>>
    /\ Forgive

ProjectFlagExpires(s) ==
    /\ s \in projectFlag
    /\ projectFlag' = projectFlag \ {s}
    /\ blamed' = blamed \ {s}
    /\ UNCHANGED <<userFlag, tokens, pc, service>>
    /\ Forgive

Next ==
    \/ \E c \in Caller :
        \/ \E s \in Service : NewService(c, s)
        \/ CheckRateLimits(c) \/ WaitN(c) \/ Succeed(c) \/ RefuseUser(c)
        \/ \E details \in Details : RefuseDetailed(c, details)
    \/ Refill
    \/ \E flag \in userFlag : UserFlagExpires(flag)
    \/ \E s \in projectFlag : ProjectFlagExpires(s)

Spec == Init /\ [][Next]_vars

-----------------------------------------------------------------------------
\* Once Google has refused a user's or the project's calls, each goroutine that
\* was on its way sends at most one more before the flags have expired: the
\* flags are read before every call, also by services built earlier, although
\* the call may wait long for its token after that.
AtMostOneLate == \A c \in Caller : late[c] <= 1

\* "we need to check the QuotaLimit field in the metadata because it might only
\* apply to this specific user" (google.go:281): the whole project is stopped only
\* when Google named another quota than the user's.  (The code breaks this: any
\* further detail of such a refusal, a link to documentation say, sets the project's
\* flag, google.go:287-293.)
ProjectFlagEarned == projectFlag \subseteq blamed
=============================================================================
