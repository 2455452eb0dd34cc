------------------------- MODULE GoogleClientProofs -------------------------
(***************************************************************************)
(* What is proved of RateLimit for every set of users, services and        *)
(* goroutines and every size of the bucket, and of PluginConfig for every  *)
(* set of nodes, texts, keys and rates and any number of saves.            *)
(***************************************************************************)
EXTENDS RateLimit, PluginConfig, TLAPS

(***************************************************************************)
(* Type correctness.                                                       *)
(***************************************************************************)

\* A call that goes out leaves the caller's variables in their types.
LEMMA SendTyped ==
    ASSUME TypeOK, NEW c \in Caller, Send(c)
    PROVE  /\ late' \in [Caller -> Nat]
           /\ pc' \in [Caller -> {"idle", "ready", "wait", "send"}]
           /\ UNCHANGED <<tokens, service>>
<1>1. late' \in [Caller -> Nat]
    <2>1. CASE Allowed(service[c], UserOf[c])
        BY <2>1 DEF Send, TypeOK
    <2>2. CASE ~Allowed(service[c], UserOf[c])
        BY <2>2 DEF Send, TypeOK
    <2> QED BY <2>1, <2>2
<1>2. pc' \in [Caller -> {"idle", "ready", "wait", "send"}]
    BY DEF Send, TypeOK
<1> QED BY <1>1, <1>2 DEF Send

\* The user's flag that a caller may set is one of the flags.
LEMMA FlagTyped ==
    ASSUME TypeOK, NEW c \in Caller
    PROVE  <<service[c], UserOf[c]>> \in Flags /\ service[c] \in Service
BY CallerAssumption DEF TypeOK, Flags

\* What a refusal does to the flags, whatever it says: they only grow, by flags of
\* the caller's service.
LEMMA RefusalsTyped ==
    ASSUME TypeOK, NEW c \in Caller, NEW details \in Details, RefuseDetailed(c, details)
    PROVE  /\ userFlag' \subseteq Flags /\ userFlag \subseteq userFlag'
           /\ projectFlag' \subseteq Service /\ projectFlag \subseteq projectFlag'
           /\ blamed' \subseteq Service /\ blamed \subseteq blamed'
<1>1. PICK done \in SUBSET details :
        /\ userFlag' = IF "perUser" \in done
                       THEN userFlag \cup {<<service[c], UserOf[c]>>} ELSE userFlag
        /\ projectFlag' = IF done \ {"perUser"} # {}
                          THEN projectFlag \cup {service[c]} ELSE projectFlag
    BY DEF RefuseDetailed
<1>2. blamed' = IF "project" \in details THEN blamed \cup {service[c]} ELSE blamed
    BY DEF RefuseDetailed
<1> QED BY <1>1, <1>2, FlagTyped DEF TypeOK

\* Forgiving keeps the counts in their type.
LEMMA ForgiveTyped == ASSUME TypeOK, Forgive PROVE late' \in [Caller -> Nat]
BY DEF Forgive, TypeOK

\* Every variable starts in its type.
LEMMA TypeInit == Init => TypeOK
BY NumberAssumption DEF Init, TypeOK

\* Every step keeps every variable in its type.
LEMMA TypeStep == TypeOK /\ [Next]_vars => TypeOK'
<1> SUFFICES ASSUME TypeOK, [Next]_vars PROVE TypeOK'
    OBVIOUS
<1>1. CASE UNCHANGED vars
    BY <1>1 DEF vars, TypeOK
<1>2. ASSUME NEW c \in Caller, NEW s \in Service, NewService(c, s) PROVE TypeOK'
    BY <1>2 DEF NewService, TypeOK
<1>3. ASSUME NEW c \in Caller, CheckRateLimits(c) PROVE TypeOK'
    <2>1. pc' \in [Caller -> {"idle", "ready", "wait", "send"}]
        BY <1>3 DEF CheckRateLimits, TypeOK
    <2> QED BY <1>3, <2>1 DEF CheckRateLimits, TypeOK
<1>4. ASSUME NEW c \in Caller, WaitN(c) PROVE TypeOK'
    BY <1>4, NumberAssumption DEF WaitN, TypeOK
<1>5. ASSUME NEW c \in Caller, Succeed(c) PROVE TypeOK'
    BY <1>5, SendTyped DEF Succeed, TypeOK
<1>6. ASSUME NEW c \in Caller, RefuseUser(c) PROVE TypeOK'
    BY <1>6, SendTyped, FlagTyped DEF RefuseUser, TypeOK
<1>7. ASSUME NEW c \in Caller, NEW details \in Details, RefuseDetailed(c, details)
      PROVE  TypeOK'
    <2>1. Send(c) BY <1>7 DEF RefuseDetailed
    <2> QED BY <1>7, <2>1, SendTyped, RefusalsTyped DEF TypeOK
<1>8. CASE Refill
    BY <1>8, NumberAssumption DEF Refill, TypeOK
<1>9. ASSUME NEW flag \in userFlag, UserFlagExpires(flag) PROVE TypeOK'
    BY <1>9, ForgiveTyped DEF UserFlagExpires, TypeOK
<1>10. ASSUME NEW s \in projectFlag, ProjectFlagExpires(s) PROVE TypeOK'
    BY <1>10, ForgiveTyped DEF ProjectFlagExpires, TypeOK
<1> QED BY <1>1, <1>2, <1>3, <1>4, <1>5, <1>6, <1>7, <1>8, <1>9, <1>10 DEF Next

\* Every variable keeps its type: the bucket never holds less than nothing nor more
\* than its burst, however many goroutines wait for it (google.go:327).
THEOREM RateLimitTypes == Spec => []TypeOK
BY TypeInit, TypeStep, PTL DEF Spec

(***************************************************************************)
(* One late call at most.  The invariant says where a goroutine that has   *)
(* sent a late call can be: it has not passed checkRateLimits again, and   *)
(* will not, because the flag is still there.                              *)
(***************************************************************************)

Stopped(c) == ~Allowed(service[c], UserOf[c]) /\ pc[c] \in {"idle", "ready"}
LateStopped == \A c \in Caller : late[c] = 0 \/ (late[c] = 1 /\ Stopped(c))

\* A call that goes out is the caller's first late one, or not late, and no flag goes
\* away while Google answers it.
LEMMA SendLate ==
    ASSUME TypeOK, LateStopped, NEW c \in Caller, Send(c),
           userFlag \subseteq userFlag', projectFlag \subseteq projectFlag'
    PROVE  LateStopped'
<1> SUFFICES ASSUME NEW d \in Caller
             PROVE  late'[d] = 0 \/ (late'[d] = 1 /\ Stopped(d)')
    BY DEF LateStopped
<1>1. ~Allowed(service[d], UserOf[d]) => ~Allowed(service[d], UserOf[d])'
    BY DEF Send, Allowed
<1>2. CASE d = c
    <2>1. late[c] = 0 BY DEF Send, LateStopped, Stopped
    <2>2. pc'[c] \in {"idle", "ready"} BY DEF Send, TypeOK
    <2>3. late'[c] = IF Allowed(service[c], UserOf[c]) THEN 0 ELSE 1
        BY <2>1 DEF Send, TypeOK
    <2> QED BY <1>1, <1>2, <2>2, <2>3 DEF Stopped
<1>3. CASE d # c
    <2>1. late'[d] = late[d] /\ pc'[d] = pc[d]
        BY <1>3 DEF Send, TypeOK
    <2> QED BY <1>1, <2>1 DEF LateStopped, Stopped
<1> QED BY <1>2, <1>3

\* When a flag expires, a goroutine that another flag still stops keeps its count,
\* and one that none stops loses it.
LEMMA ForgiveLate ==
    ASSUME TypeOK, LateStopped, Forgive, UNCHANGED <<pc, service>>
    PROVE  LateStopped'
<1> SUFFICES ASSUME NEW d \in Caller
             PROVE  late'[d] = 0 \/ (late'[d] = 1 /\ Stopped(d)')
    BY DEF LateStopped
<1>1. late'[d] = IF Allowed(service[d], UserOf[d])' THEN 0 ELSE late[d]
    BY DEF Forgive, Allowed
<1> QED BY <1>1 DEF LateStopped, Stopped

LEMMA LateInit == Init => LateStopped
BY DEF Init, LateStopped

\* Every step keeps the invariant.
LEMMA LateStep == TypeOK /\ LateStopped /\ [Next]_vars => LateStopped'
<1> SUFFICES ASSUME TypeOK, LateStopped, [Next]_vars PROVE LateStopped'
    OBVIOUS
<1>1. CASE UNCHANGED vars
    BY <1>1 DEF vars, LateStopped, Stopped, Allowed
<1>2. ASSUME NEW c \in Caller, NEW s \in Service, NewService(c, s) PROVE LateStopped'
    BY <1>2 DEF NewService, TypeOK, LateStopped, Stopped, Allowed
<1>3. ASSUME NEW c \in Caller, CheckRateLimits(c) PROVE LateStopped'
    BY <1>3 DEF CheckRateLimits, TypeOK, LateStopped, Stopped, Allowed
<1>4. ASSUME NEW c \in Caller, WaitN(c) PROVE LateStopped'
    BY <1>4 DEF WaitN, TypeOK, LateStopped, Stopped, Allowed
<1>5. ASSUME NEW c \in Caller, Succeed(c) PROVE LateStopped'
    BY <1>5, SendLate DEF Succeed
<1>6. ASSUME NEW c \in Caller, RefuseUser(c) PROVE LateStopped'
    BY <1>6, SendLate DEF RefuseUser
<1>7. ASSUME NEW c \in Caller, NEW details \in Details, RefuseDetailed(c, details)
      PROVE  LateStopped'
    <2>1. Send(c) BY <1>7 DEF RefuseDetailed
    <2> QED BY <1>7, <2>1, SendLate, RefusalsTyped
<1>8. CASE Refill
    BY <1>8 DEF Refill, LateStopped, Stopped, Allowed
<1>9. ASSUME NEW flag \in userFlag, UserFlagExpires(flag) PROVE LateStopped'
    BY <1>9, ForgiveLate DEF UserFlagExpires
<1>10. ASSUME NEW s \in projectFlag, ProjectFlagExpires(s) PROVE LateStopped'
    BY <1>10, ForgiveLate DEF ProjectFlagExpires
<1> QED BY <1>1, <1>2, <1>3, <1>4, <1>5, <1>6, <1>7, <1>8, <1>9, <1>10 DEF Next

\* After a refusal every goroutine sends at most the one call that was already past
\* checkRateLimits (google.go:321), however long it waited for its token.
THEOREM OneLateCall == Spec => []AtMostOneLate
<1>1. LateStopped => AtMostOneLate
    BY DEF LateStopped, AtMostOneLate
<1> QED BY <1>1, TypeInit, TypeStep, LateInit, LateStep, PTL DEF Spec

-----------------------------------------------------------------------------
(***************************************************************************)
(* The configuration.                                                      *)
(***************************************************************************)

\* ConfigAssumption, under a name that steps can cite.
Assumptions == ValueAssumption /\ RateAssumption /\ InitialAssumption /\ FaultAssumption

(***************************************************************************)
(* Type correctness.                                                       *)
(***************************************************************************)

\* Trimming and filling in defaults make configurations of configurations, and keep a
\* key that is there.
LEMMA SanitizeTyped ==
    ASSUME Assumptions, NEW c \in Config
    PROVE  Sanitize(c) \in Config /\ Sanitize(c).key = c.key
BY DEF Assumptions, ValueAssumption, Sanitize, Trim, Config

LEMMA DefaultsTyped ==
    ASSUME Assumptions, NEW c \in Config, NEW k \in Key
    PROVE  SetDefaults(c, k) \in Config /\ (c.key # None => SetDefaults(c, k).key = c.key)
BY DEF Assumptions, RateAssumption, SetDefaults, Config

LEMMA CredentialsTyped ==
    ASSUME NEW c \in Config PROVE CredentialsOf(c) \in Credentials
BY DEF CredentialsOf, Credentials, Config

LEMMA ZeroTyped ==
    ASSUME Assumptions
    PROVE  /\ Zero \in Config /\ NoCredentials \in Credentials
           /\ NoForm \in [at : {"idle", "secret", "save"}, node : Node \cup {None},
                          shared : BOOLEAN, struct : Config, typed : Credentials]
           /\ NoCallback \in [node : Node \cup {None}, key : Key \cup {None}, fresh : BOOLEAN]
BY DEF Assumptions, RateAssumption, Zero, Config, NoForm, NoCallback, NoCredentials, Credentials

\* Every variable starts in its type.
LEMMA ConfigTypeInit == Assumptions /\ ConfigInit => ConfigTypeOK
<1> SUFFICES ASSUME Assumptions, ConfigInit PROVE ConfigTypeOK
    OBVIOUS
<1>1. saved \in Config /\ saves \in 0 .. MaxSaves
    BY DEF ConfigInit, Assumptions, InitialAssumption, ValueAssumption
<1>2. isNil \in [Node -> BOOLEAN] /\ kept \in BOOLEAN /\ fresh \in BOOLEAN
    BY DEF ConfigInit
<1>3. step \in Step
    BY DEF ConfigInit, Step
<1>4. limiter \in [Node -> Rate]
    BY DEF ConfigInit, Assumptions, RateAssumption
<1> QED BY <1>1, <1>2, <1>3, <1>4, ZeroTyped DEF ConfigInit, ConfigTypeOK

\* Saving replaces the settings and tells some of the nodes.
LEMMA SaveTyped ==
    ASSUME ConfigTypeOK, NEW c \in Config, NEW makers \in SUBSET Node,
           SavePluginConfig(c, makers)
    PROVE  /\ saved' \in Config /\ notice' \subseteq Node
           /\ since' \subseteq Node /\ fresh' \in BOOLEAN
BY DEF SavePluginConfig, ConfigTypeOK

\* A callback under way stays one, of the same node and with the same key.
LEMMA StaleTyped ==
    ASSUME ConfigTypeOK
    PROVE  /\ Stale(callback) \in [node : Node \cup {None}, key : Key \cup {None},
                                  fresh : BOOLEAN]
           /\ Stale(callback).node = callback.node /\ Stale(callback).key = callback.key
           /\ Stale(callback).fresh <=> callback.fresh /\ saved'.key = saved.key
<1> DEFINE fresher == callback.fresh /\ saved'.key = saved.key
<1>1. Stale(callback) = [callback EXCEPT !.fresh = fresher]
    BY DEF Stale
<1>2. callback \in [node : Node \cup {None}, key : Key \cup {None}, fresh : BOOLEAN]
    BY DEF ConfigTypeOK
<1>3. fresher \in BOOLEAN
    OBVIOUS
<1> HIDE DEF fresher
<1>4. /\ Stale(callback) \in [node : Node \cup {None}, key : Key \cup {None}, fresh : BOOLEAN]
      /\ Stale(callback).node = callback.node /\ Stale(callback).key = callback.key
      /\ Stale(callback).fresh = fresher
    BY <1>1, <1>2, <1>3
<1> QED BY <1>4 DEF fresher

\* A form that is being submitted is on an active node: it ends when the node stops.
Held ==
    \/ form = NoForm
    \/ form.at \in {"secret", "save"} /\ form.node \in Node /\ up[form.node] = "active"

\* Every step of the specification keeps every variable in its type.
LEMMA ConfigTypeStep ==
    Assumptions /\ ConfigTypeOK /\ Held /\ [ConfigNext]_configVars => ConfigTypeOK'
<1> SUFFICES ASSUME Assumptions, ConfigTypeOK, Held, [ConfigNext]_configVars PROVE ConfigTypeOK'
    OBVIOUS
<1> USE DEF server, keyHistory, clients, hooks, wizard, unmoved, Goto, At, ReturnEarly
<1>1. CASE UNCHANGED configVars
    BY <1>1 DEF configVars, ConfigTypeOK
<1>2. CASE Console
    <2>1. PICK c \in Config : SavePluginConfig(c, {})
        <3>1. ASSUME NEW r \in Rate PROVE [saved EXCEPT !.rate = r] \in Config
            BY DEF ConfigTypeOK, Config
        <3>2. ASSUME NEW t \in Text PROVE [saved EXCEPT !.id = t, !.secret = t] \in Config
            BY DEF ConfigTypeOK, Config
        <3>3. ASSUME NEW k \in Key PROVE [saved EXCEPT !.key = k] \in Config
            BY DEF ConfigTypeOK, Config
        <3> QED BY <1>2, <3>1, <3>2, <3>3 DEF Console
    <2>2. saves' \in 0 .. MaxSaves
        <3>1. saves < MaxSaves /\ saves' = saves + 1 /\ saves \in 0 .. MaxSaves
            BY <1>2 DEF Console, ConfigTypeOK
        <3>2. MaxSaves \in Nat
            BY DEF Assumptions, ValueAssumption
        <3> QED BY <3>1, <3>2
    <2> QED BY <1>2, <2>1, <2>2, SaveTyped, StaleTyped DEF Console, ConfigTypeOK
<1>3. ASSUME NEW n \in Node, Start(n) PROVE ConfigTypeOK'
    BY <1>3 DEF Start, ConfigTypeOK
<1>4. ASSUME NEW n \in Node, Activate(n) PROVE ConfigTypeOK'
    <2>1. conf' \in [Node -> Config] /\ taken' \in [Node -> Config]
        <3>1. conf[n] \in Config
            BY DEF ConfigTypeOK
        <3>2. \/ UNCHANGED <<conf, taken>>
              \/ \E k \in Key :
                   /\ conf' = conf \/ conf' = [conf EXCEPT ![n] = SetDefaults(conf[n], k)]
                   /\ \/ taken' = taken
                      \/ taken' = [taken EXCEPT ![n] = SetDefaults(conf[n], k)]
            BY <1>4 DEF Activate
        <3>3. conf \in [Node -> Config] /\ taken \in [Node -> Config]
            BY DEF ConfigTypeOK
        <3>4. ASSUME NEW k \in Key PROVE SetDefaults(conf[n], k) \in Config
            BY <3>1, DefaultsTyped
        <3> QED BY <3>2, <3>3, <3>4
    <2>2. up' \in [Node -> {"off", "starting", "save", "schedule", "oauth", "oauthSet",
                            "client", "clientSet", "active", "failed"}]
        BY <1>4 DEF Activate, ConfigTypeOK
    <2>3. UNCHANGED <<server, token, isNil, clients, hooks, wizard, callback, unsaved,
                    keyHistory>>
        BY <1>4 DEF Activate
    <2> QED BY <2>1, <2>2, <2>3 DEF ConfigTypeOK
<1>5. ASSUME NEW n \in Node, SaveDefaults(n) PROVE ConfigTypeOK'
    <2>1. taken[n] \in Config BY DEF ConfigTypeOK
    <2>2. /\ saved' \in Config /\ notice' \subseteq Node
          /\ since' \subseteq Node /\ fresh' \in BOOLEAN
        BY <1>5, <2>1, SaveTyped DEF SaveDefaults, ConfigTypeOK
    <2> QED BY <1>5, <2>2, ZeroTyped, StaleTyped DEF SaveDefaults, ConfigTypeOK
<1>6. ASSUME NEW n \in Node, Schedule(n) PROVE ConfigTypeOK'
    BY <1>6 DEF Schedule, ConfigTypeOK
<1>7. ASSUME NEW n \in Node, GetOAuthConfig(n) \/ NewGoogleClient(n) PROVE ConfigTypeOK'
    BY <1>7 DEF GetOAuthConfig, NewGoogleClient, ConfigTypeOK
<1>8. ASSUME NEW n \in Node, SetOAuthConfig(n) \/ SetGoogleClient(n) PROVE ConfigTypeOK'
    <2>1. taken[n].key \in Key \cup {None} /\ taken[n].rate \in Rate
        BY DEF ConfigTypeOK, Config
    <2>2. CredentialsOf(taken[n]) \in Credentials
        BY CredentialsTyped DEF ConfigTypeOK
    <2> QED BY <1>8, <2>1, <2>2, ZeroTyped DEF SetOAuthConfig, SetGoogleClient, ConfigTypeOK
<1>9. ASSUME NEW n \in Node, Stop(n) PROVE ConfigTypeOK'
    <2>1. conf' \in [Node -> Config] /\ isNil' \in [Node -> BOOLEAN]
        BY <1>9, ZeroTyped DEF Stop, ConfigTypeOK
    <2>2. oauthConfig' \in [Node -> Credentials] /\ loaded' \in [Node -> Config]
        BY <1>9, ZeroTyped DEF Stop, ConfigTypeOK
    <2>3. clientKey' \in [Node -> Key \cup {None}] /\ limiter' \in [Node -> Rate]
        BY <1>9 DEF Stop, ConfigTypeOK, Assumptions, RateAssumption
    <2>4. /\ form' = NoForm \/ form' = form
          /\ callback' = NoCallback \/ callback' = callback
        BY <1>9 DEF Stop
    <2>5. /\ up' \in [Node -> {"off", "starting", "save", "schedule", "oauth", "oauthSet",
                               "client", "clientSet", "active", "failed"}]
          /\ hook' \in [Node -> {"idle", "set", "register", "oauth", "google"}]
        BY <1>9 DEF Stop, ConfigTypeOK
    <2>6. /\ notice' \subseteq Node /\ behind' \subseteq Node /\ unsaved' \subseteq Node
          /\ since' \subseteq Node /\ overtaken' \subseteq Node \X {"oauth", "client"}
        BY <1>9 DEF Stop, ConfigTypeOK
    <2>7. UNCHANGED <<saved, saves, token, taken, step, kept, fresh>>
        BY <1>9 DEF Stop
    <2> QED BY <2>1, <2>2, <2>3, <2>4, <2>5, <2>6, <2>7, ZeroTyped DEF ConfigTypeOK
<1>10. ASSUME NEW n \in Node, Load(n) PROVE ConfigTypeOK'
    BY <1>10, SanitizeTyped DEF Load, ConfigTypeOK
<1>11. ASSUME NEW n \in Node, SetConfiguration(n) PROVE ConfigTypeOK'
    <2>1. form' \in [at : {"idle", "secret", "save"}, node : Node \cup {None},
                     shared : BOOLEAN, struct : Config, typed : Credentials]
        BY <1>11 DEF SetConfiguration, ConfigTypeOK
    <2>2. conf' \in [Node -> Config] /\ loaded' \in [Node -> Config]
          /\ isNil' \in [Node -> BOOLEAN]
        BY <1>11, ZeroTyped DEF SetConfiguration, ConfigTypeOK
    <2> QED BY <1>11, <2>1, <2>2 DEF SetConfiguration, ConfigTypeOK
<1>12. ASSUME NEW n \in Node, Register(n) PROVE ConfigTypeOK'
    BY <1>12 DEF Register, ConfigTypeOK
<1>13. ASSUME NEW n \in Node, ReloadConfig(n) PROVE ConfigTypeOK'
    BY <1>13, CredentialsTyped DEF ReloadConfig, Missed, ConfigTypeOK
<1>14. ASSUME NEW n \in Node, ReloadConfigs(n) PROVE ConfigTypeOK'
    <2>1. conf[n].rate \in Rate BY DEF ConfigTypeOK, Config
    <2> QED BY <1>14, <2>1 DEF ReloadConfigs, Missed, ConfigTypeOK
<1>15. CASE StartSetupWizard \/ Press \/ Announce
    <2>1. step' \in Step /\ kept' \in BOOLEAN
        BY <1>15 DEF StartSetupWizard, Press, Announce, Step, ConfigTypeOK
    <2>2. UNCHANGED <<unmoved, form>>
        BY <1>15 DEF StartSetupWizard, Press, Announce
    <2> QED BY <2>1, <2>2 DEF ConfigTypeOK
<1>16. ASSUME NEW n \in Node, NEW typed \in Typed, SubmitOAuthConfig(n, typed) PROVE ConfigTypeOK'
    <2>1. Trim(typed.id) \in Text \cup {None} /\ Trim(typed.secret) \in Text \cup {None}
        BY DEF Trim, Assumptions, ValueAssumption
    <2>2. [Zero EXCEPT !.id = Trim(typed.id)] \in Config
          /\ [conf[n] EXCEPT !.id = Trim(typed.id)] \in Config
        BY <2>1, ZeroTyped DEF Config, ConfigTypeOK
    <2>3. [id |-> Trim(typed.id), secret |-> Trim(typed.secret)] \in Credentials
        BY <2>1 DEF Credentials
    <2>4. conf' \in [Node -> Config]
        BY <1>16, <2>2 DEF SubmitOAuthConfig, ConfigTypeOK
    <2>5. isNil[n] \in BOOLEAN BY DEF ConfigTypeOK
    <2>6. form' \in [at : {"idle", "secret", "save"}, node : Node \cup {None},
                     shared : BOOLEAN, struct : Config, typed : Credentials]
        BY <1>16, <2>2, <2>3, <2>5, ZeroTyped DEF SubmitOAuthConfig
    <2>7. UNCHANGED <<server, token, up, isNil, taken, clients, hooks, step, kept, callback,
                      unsaved, keyHistory>>
        BY <1>16 DEF SubmitOAuthConfig
    <2> QED BY <2>4, <2>6, <2>7 DEF ConfigTypeOK
<1>17. CASE WriteSecret
    <2> DEFINE struct == IF form.shared THEN conf[form.node] ELSE form.struct
               config == [struct EXCEPT !.secret = form.typed.secret]
    <2>1. form.node \in Node
        BY <1>17 DEF WriteSecret, Held, NoForm
    <2>2. struct \in Config /\ form.typed.secret \in Text \cup {None}
        BY <2>1 DEF ConfigTypeOK, Credentials
    <2>3. config \in Config
        BY <2>2 DEF Config
    <2>4. /\ conf' = IF form.shared THEN [conf EXCEPT ![form.node] = config] ELSE conf
          /\ form' = [form EXCEPT !.at = "save", !.struct = config]
          /\ UNCHANGED <<server, token, up, isNil, taken, clients, hooks, step, kept,
                         callback, unsaved, keyHistory>>
        BY <1>17 DEF WriteSecret
    <2> HIDE DEF config
    <2>5. conf' \in [Node -> Config]
        BY <2>3, <2>4 DEF ConfigTypeOK
    <2>6. form' \in [at : {"idle", "secret", "save"}, node : Node \cup {None},
                     shared : BOOLEAN, struct : Config, typed : Credentials]
        BY <2>3, <2>4 DEF ConfigTypeOK
    <2> QED BY <2>4, <2>5, <2>6 DEF ConfigTypeOK
<1>18. CASE SaveForm
    <2>1. form.struct \in Config BY DEF ConfigTypeOK
    <2>2. /\ saved' \in Config /\ notice' \subseteq Node
          /\ since' \subseteq Node /\ fresh' \in BOOLEAN
        BY <1>18, <2>1, SaveTyped DEF SaveForm, ConfigTypeOK
    <2>3. step' \in Step /\ kept' \in BOOLEAN
        BY <1>18 DEF SaveForm, Step, ConfigTypeOK
    <2>4. unsaved' \subseteq Node
        BY <1>18 DEF SaveForm, Held, NoForm, ConfigTypeOK
    <2>5. /\ form' = NoForm /\ callback' = Stale(callback)
          /\ UNCHANGED <<saves, token, up, conf, isNil, taken, clients, hooks>>
        BY <1>18 DEF SaveForm
    <2> QED BY <2>2, <2>3, <2>4, <2>5, ZeroTyped, StaleTyped DEF ConfigTypeOK
<1>19. ASSUME NEW n \in Node, Callback(n) PROVE ConfigTypeOK'
    <2>1. conf[n].key \in Key \cup {None}
        BY DEF ConfigTypeOK, Config
    <2> QED BY <1>19, <2>1 DEF Callback, ConfigTypeOK
<1>20. CASE StoreToken
    BY <1>20, ZeroTyped DEF StoreToken, ConfigTypeOK
<1> QED
    BY <1>1, <1>2, <1>3, <1>4, <1>5, <1>6, <1>7, <1>8, <1>9, <1>10, <1>11, <1>12, <1>13,
       <1>14, <1>15, <1>16, <1>17, <1>18, <1>19, <1>20
    DEF ConfigNext

\* Only Stop ends an active node, and it ends what runs there.
LEMMA HeldStep == Assumptions /\ ConfigTypeOK /\ Held /\ [ConfigNext]_configVars => Held'
<1> SUFFICES ASSUME Assumptions, ConfigTypeOK, Held, [ConfigNext]_configVars PROVE Held'
    OBVIOUS
<1> USE DEF server, keyHistory, clients, hooks, wizard, unmoved, Goto
<1>1. ASSUME NEW n \in Node,
             \/ Start(n) \/ Activate(n) \/ SaveDefaults(n) \/ Schedule(n)
             \/ GetOAuthConfig(n) \/ SetOAuthConfig(n) \/ NewGoogleClient(n)
             \/ SetGoogleClient(n)
      PROVE  Held'
    <2>1. UNCHANGED form
        BY <1>1 DEF Start, Activate, SaveDefaults, Schedule, GetOAuthConfig, SetOAuthConfig,
                    NewGoogleClient, SetGoogleClient
    <2>2. \A m \in Node : up[m] = "active" => up'[m] = "active"
        BY <1>1 DEF Start, Activate, SaveDefaults, Schedule, GetOAuthConfig, SetOAuthConfig,
                    NewGoogleClient, SetGoogleClient, ConfigTypeOK
    <2> QED BY <2>1, <2>2 DEF Held
<1>2. ASSUME NEW n \in Node, Stop(n) PROVE Held'
    <2>1. \A m \in Node \ {n} : up'[m] = up[m]
        BY <1>2 DEF Stop, ConfigTypeOK
    <2>2. form' = IF form.node = n THEN NoForm ELSE form
        BY <1>2 DEF Stop
    <2> QED BY <2>1, <2>2 DEF Held
<1>3. ASSUME NEW n \in Node, SetConfiguration(n) PROVE Held'
    <2>1. /\ form' = IF form.node = n /\ form.shared
                     THEN [form EXCEPT !.shared = FALSE, !.struct = conf[n]] ELSE form
          /\ UNCHANGED up
        BY <1>3 DEF SetConfiguration
    <2>2. form = NoForm => ~form.shared
        BY DEF NoForm
    <2> QED BY <2>1, <2>2 DEF Held, ConfigTypeOK
<1>4. ASSUME NEW n \in Node, NEW typed \in Typed, SubmitOAuthConfig(n, typed) PROVE Held'
    BY <1>4 DEF SubmitOAuthConfig, Held
<1>5. CASE WriteSecret
    <2>1. form # NoForm
        BY <1>5 DEF WriteSecret, NoForm
    <2>2. form'.at = "save" /\ form'.node = form.node /\ UNCHANGED up
        BY <1>5 DEF WriteSecret, ConfigTypeOK
    <2> QED BY <2>1, <2>2 DEF Held
<1>6. CASE SaveForm
    BY <1>6 DEF SaveForm, Held
<1>7. CASE UNCHANGED <<form, up>>
    BY <1>7 DEF Held
<1> QED
    BY <1>1, <1>2, <1>3, <1>4, <1>5, <1>6, <1>7
    DEF ConfigNext, configVars, Console, Load, Register, ReloadConfig, ReloadConfigs,
        StartSetupWizard, Press, Announce, Callback, StoreToken

\* ConfigTypeOK is inductive together with Held.
LEMMA AlwaysTyped == ConfigSpec => [](ConfigTypeOK /\ Held)
<1>0. Assumptions
    BY ConfigAssumption DEF Assumptions
<1>1. ConfigInit => ConfigTypeOK /\ Held
    BY <1>0, ConfigTypeInit DEF ConfigInit, Held
<1>2. ConfigTypeOK /\ Held /\ [ConfigNext]_configVars => (ConfigTypeOK /\ Held)'
    BY <1>0, ConfigTypeStep, HeldStep
<1> QED BY <1>1, <1>2, PTL DEF ConfigSpec

\* Every variable keeps its type: in particular what is saved, whoever saves it, is
\* always a whole configuration (flow.go:261, plugin.go:77-84).
THEOREM ConfigTypes == ConfigSpec => []ConfigTypeOK
BY AlwaysTyped, PTL

(***************************************************************************)
(* One key.  A node that was started since the saved key last changed, and *)
(* could load the settings then, or that made the key, has it in every     *)
(* copy that is past OnActivate's save; any change of the key starts over. *)
(***************************************************************************)

\* How far OnActivate has to be for the saved key to be there.
Keyed == {"schedule", "oauth", "oauthSet", "client", "clientSet", "active"}

KeyAt(n) ==
    /\ up[n] = "off" => n \notin since \cup notice /\ isNil[n] /\ hook[n] = "idle"
    /\ up[n] = "save" => taken[n].key # None
    /\ n \in since =>
        /\ isNil[n] => up[n] = "starting" /\ (n \in notice \/ hook[n] = "set")
        /\ hook[n] = "set" => loaded[n].key = saved.key
        /\ ~isNil[n] => \/ conf[n].key = saved.key
                        \/ saved.key = None /\ up[n] \in {"save", "failed"}
        /\ up[n] \in Keyed => saved.key # None
        /\ up[n] = "clientSet" => taken[n].key = saved.key
        /\ up[n] = "active" => clientKey[n] = saved.key

\* What is kept for the user is of the saved key too.
TokenAgrees ==
    /\ fresh => token = saved.key
    /\ callback.fresh => callback.key = saved.key

KeysAgree == TokenAgrees /\ \A n \in Node : KeyAt(n)

\* A node that a step leaves alone keeps its key, whoever saves what.
LEMMA KeyFrame ==
    ASSUME NEW n \in Node, KeyAt(n), n \in since' => n \in since /\ saved'.key = saved.key,
           UNCHANGED <<up[n], isNil[n], hook[n], loaded[n], taken[n], clientKey[n]>>,
           conf'[n].key = conf[n].key,
           n \in notice /\ up[n] # "off" => n \in notice',
           n \in notice' => n \in notice \/ up[n] # "off"
    PROVE  KeyAt(n)'
BY DEF KeyAt, Keyed

\* A save keeps the key, or makes every copy one of before.
LEMMA KeySave ==
    ASSUME ConfigTypeOK, TokenAgrees, NEW c, NEW makers, SavePluginConfig(c, makers),
           callback' = Stale(callback), UNCHANGED token
    PROVE  /\ TokenAgrees'
           /\ \A n \in Node :
                /\ n \in since' => (n \in since /\ saved'.key = saved.key) \/ n \in makers
                /\ n \in notice' <=> up[n] # "off"
BY StaleTyped DEF SavePluginConfig, TokenAgrees

LEMMA KeyInit == ConfigInit => KeysAgree
BY DEF ConfigInit, KeysAgree, TokenAgrees, KeyAt, Keyed, NoCallback

\* Every step keeps the invariant.
LEMMA KeysStep ==
    Assumptions /\ ConfigTypeOK /\ Held /\ KeysAgree /\ [ConfigNext]_configVars => KeysAgree'
<1> SUFFICES ASSUME Assumptions, ConfigTypeOK, Held, KeysAgree, [ConfigNext]_configVars
             PROVE  KeysAgree'
    OBVIOUS
<1> USE DEF server, keyHistory, clients, hooks, wizard, unmoved, Goto, At, ReturnEarly
<1>1. TokenAgrees /\ \A m \in Node : KeyAt(m)
    BY DEF KeysAgree
<1>2. UNCHANGED <<saved, token, callback, fresh>> => TokenAgrees'
    BY <1>1 DEF TokenAgrees
<1>3. ASSUME NEW n \in Node, Start(n) PROVE KeysAgree'
    <2>1. ASSUME NEW m \in Node PROVE KeyAt(m)'
        <3>1. CASE m = n
            BY <1>1, <1>3, <3>1 DEF Start, KeyAt, Keyed, ConfigTypeOK
        <3>2. CASE m # n
            BY <1>1, <1>3, <3>2, KeyFrame DEF Start, ConfigTypeOK
        <3> QED BY <3>1, <3>2
    <2> QED BY <1>2, <1>3, <2>1 DEF Start, KeysAgree
<1>4. ASSUME NEW n \in Node, Activate(n) PROVE KeysAgree'
    <2>1. up[n] = "starting" /\ n \notin notice /\ hook[n] = "idle"
          /\ UNCHANGED <<server, token, isNil, clients, hooks, callback, keyHistory>>
        BY <1>4 DEF Activate
    <2>2. up'[n] = "save" => taken'[n].key # None
        <3>1. \A k \in Key : SetDefaults(conf[n], k).key # None
            BY DEF SetDefaults, ConfigTypeOK, Config, Assumptions, ValueAssumption
        <3> QED BY <1>4, <3>1 DEF Activate, ConfigTypeOK
    <2>3. ASSUME NEW m \in Node PROVE KeyAt(m)'
        <3>1. CASE m = n /\ n \notin since
            BY <1>4, <2>1, <2>2, <3>1 DEF Activate, KeyAt, ConfigTypeOK
        <3>2. CASE m = n /\ n \in since
            <4>1. ~isNil[n] /\ conf[n].key = saved.key
                BY <1>1, <2>1, <3>2 DEF KeyAt
            <4>2. CASE up'[n] = "failed" /\ UNCHANGED <<conf, taken>>
                BY <2>1, <3>2, <4>1, <4>2 DEF KeyAt, Keyed
            <4>3. CASE up'[n] # "failed" \/ ~UNCHANGED <<conf, taken>>
                <5> DEFINE config(k) == SetDefaults(conf[n], k)
                <5>1. PICK k \in Key :
                        /\ conf' = [conf EXCEPT ![n] = config(k)]
                        /\ IF config(k) = conf[n] THEN up' = [up EXCEPT ![n] = "schedule"]
                           ELSE /\ up' = [up EXCEPT ![n] = "save"]
                                /\ taken' = [taken EXCEPT ![n] = config(k)]
                    BY <1>4, <4>1, <4>3 DEF Activate, ConfigTypeOK
                <5>2. conf[n] \in Config /\ None \notin Key
                    BY DEF ConfigTypeOK, Assumptions, ValueAssumption
                <5>3. /\ config(k).key # None
                      /\ conf[n].key # None => config(k).key = conf[n].key
                    BY <5>2 DEF SetDefaults, Config
                <5> HIDE DEF config
                <5>4. conf'[n] = config(k)
                    BY <5>1 DEF ConfigTypeOK
                <5>5. CASE config(k) = conf[n]
                    <6>1. up'[n] = "schedule" BY <5>1, <5>5 DEF ConfigTypeOK
                    <6> QED BY <2>1, <3>2, <4>1, <5>3, <5>4, <5>5, <6>1 DEF KeyAt, Keyed
                <5>6. CASE config(k) # conf[n]
                    <6>1. up'[n] = "save" /\ taken'[n] = config(k)
                        BY <5>1, <5>6 DEF ConfigTypeOK
                    <6> QED BY <2>1, <3>2, <4>1, <5>3, <5>4, <6>1 DEF KeyAt, Keyed
                <5> QED BY <5>5, <5>6
            <4> QED BY <4>2, <4>3
        <3>3. CASE m # n
            BY <1>1, <1>4, <3>3, KeyFrame DEF Activate, ConfigTypeOK
        <3> QED BY <3>1, <3>2, <3>3
    <2> QED BY <1>2, <2>1, <2>3 DEF KeysAgree
<1>5. CASE Console
    <2>1. \E c : SavePluginConfig(c, {})
        BY <1>5 DEF Console
    <2>2. TokenAgrees' /\ \A n \in Node : /\ n \in since' => n \in since /\ saved'.key = saved.key
                                          /\ n \in notice' <=> up[n] # "off"
        <3>1. PICK c : SavePluginConfig(c, {})
            BY <2>1
        <3>2. UNCHANGED token /\ callback' = Stale(callback)
            BY <1>5 DEF Console
        <3> QED BY <1>1, <3>1, <3>2, KeySave
    <2>3. ASSUME NEW m \in Node PROVE KeyAt(m)'
        BY <1>1, <1>5, <2>2, KeyFrame DEF Console
    <2> QED BY <2>2, <2>3 DEF KeysAgree
<1>6. CASE SaveForm
    <2>1. CASE SavePluginConfig(form.struct, {})
        <3>1. TokenAgrees' /\ \A n \in Node :
                                /\ n \in since' => n \in since /\ saved'.key = saved.key
                                /\ n \in notice' <=> up[n] # "off"
            BY <1>1, <1>6, <2>1, KeySave DEF SaveForm
        <3>2. ASSUME NEW m \in Node PROVE KeyAt(m)'
            BY <1>1, <1>6, <3>1, KeyFrame DEF SaveForm
        <3> QED BY <3>1, <3>2 DEF KeysAgree
    <2>2. CASE ~SavePluginConfig(form.struct, {})
        <3>1. UNCHANGED <<saved, notice, keyHistory, token>> /\ callback' = Stale(callback)
            BY <1>6, <2>2 DEF SaveForm
        <3>2. ASSUME NEW m \in Node PROVE KeyAt(m)'
            BY <1>1, <1>6, <3>1, KeyFrame DEF SaveForm
        <3> QED BY <1>1, <3>1, <3>2, StaleTyped DEF KeysAgree, TokenAgrees
    <2> QED BY <2>1, <2>2
<1>7. ASSUME NEW n \in Node, SaveDefaults(n) PROVE KeysAgree'
    <2>1. CASE /\ SavePluginConfig(taken[n], IF Makes(n) THEN {n} ELSE {})
               /\ up' = [up EXCEPT ![n] = "schedule"]
        <3>1. TokenAgrees' /\ \A m \in Node :
                                /\ m \in since' => \/ (m \in since /\ saved'.key = saved.key)
                                                   \/ (m = n /\ Makes(n))
                                /\ m \in notice' <=> up[m] # "off"
            BY <1>1, <1>7, <2>1, KeySave DEF SaveDefaults
        <3>2. ASSUME NEW m \in Node PROVE KeyAt(m)'
            <4>1. CASE m = n
                <5>1. saved' = taken[n] /\ up[n] = "save" /\ up'[n] = "schedule"
                    BY <1>7, <2>1 DEF SaveDefaults, SavePluginConfig, ConfigTypeOK
                <5>2. UNCHANGED <<conf, isNil, hook, loaded>>
                    BY <1>7 DEF SaveDefaults
                <5>3. taken[n].key # None
                    BY <1>1, <5>1 DEF KeyAt
                <5>4. CASE Makes(n)
                    BY <1>1, <3>1, <4>1, <5>1, <5>2, <5>3, <5>4 DEF KeyAt, Keyed, Makes
                <5>5. CASE ~Makes(n)
                    BY <1>1, <3>1, <4>1, <5>1, <5>2, <5>3, <5>5 DEF KeyAt, Keyed
                <5> QED BY <5>4, <5>5
            <4>2. CASE m # n
                BY <1>1, <1>7, <2>1, <3>1, <4>2, KeyFrame DEF SaveDefaults, ConfigTypeOK
            <4> QED BY <4>1, <4>2
        <3> QED BY <3>1, <3>2 DEF KeysAgree
    <2>2. CASE UNCHANGED <<saved, notice, keyHistory>> /\ up' = [up EXCEPT ![n] = "failed"]
        <3>1. ASSUME NEW m \in Node PROVE KeyAt(m)'
            <4>1. CASE m = n
                <5>1. up[n] = "save" /\ up'[n] = "failed"
                    BY <1>7, <2>2 DEF SaveDefaults, ConfigTypeOK
                <5>2. UNCHANGED <<conf, isNil, hook, loaded>>
                    BY <1>7 DEF SaveDefaults
                <5> QED BY <1>1, <2>2, <4>1, <5>1, <5>2 DEF KeyAt, Keyed
            <4>2. CASE m # n
                BY <1>1, <1>7, <2>2, <4>2, KeyFrame DEF SaveDefaults, ConfigTypeOK
            <4> QED BY <4>1, <4>2
        <3> QED BY <1>1, <1>7, <2>2, <3>1, StaleTyped DEF SaveDefaults, KeysAgree, TokenAgrees
    <2> QED BY <1>7, <2>1, <2>2 DEF SaveDefaults
<1>8. ASSUME NEW n \in Node,
             \/ Schedule(n) \/ GetOAuthConfig(n) \/ SetOAuthConfig(n)
             \/ NewGoogleClient(n) \/ SetGoogleClient(n)
      PROVE  KeysAgree'
    <2> USE DEF Schedule, GetOAuthConfig, SetOAuthConfig, NewGoogleClient, SetGoogleClient
    <2>1. UNCHANGED <<server, token, conf, isNil, hooks, callback, keyHistory>>
        BY <1>8
    <2>2. ASSUME NEW m \in Node PROVE KeyAt(m)'
        <3>1. CASE m = n /\ n \notin since
            BY <1>8, <2>1, <3>1 DEF KeyAt, ConfigTypeOK
        <3>2. CASE m = n /\ n \in since
            <4>1. /\ up[n] \in Keyed /\ up'[n] \in Keyed \cup {"failed"}
                  /\ up'[n] = "clientSet" => taken'[n].key = conf[n].key
                  /\ up'[n] = "active" => up[n] = "clientSet" /\ clientKey'[n] = taken[n].key
                BY <1>8 DEF Keyed, ConfigTypeOK
            <4>2. up[n] # "starting" /\ up[n] \notin {"save", "failed"}
                  /\ up'[n] # "save" /\ up'[n] # "off"
                BY <4>1 DEF Keyed
            <4> QED BY <1>1, <2>1, <3>2, <4>1, <4>2 DEF KeyAt
        <3>3. CASE m # n
            BY <1>1, <1>8, <3>3, KeyFrame DEF ConfigTypeOK
        <3> QED BY <3>1, <3>2, <3>3
    <2> QED BY <1>2, <2>1, <2>2 DEF KeysAgree
<1>9. ASSUME NEW n \in Node, Stop(n) PROVE KeysAgree'
    <2>1. TokenAgrees'
        BY <1>1, <1>9 DEF Stop, TokenAgrees, NoCallback
    <2>2. ASSUME NEW m \in Node PROVE KeyAt(m)'
        <3>1. CASE m = n
            BY <1>9, <3>1 DEF Stop, KeyAt, ConfigTypeOK
        <3>2. CASE m # n
            BY <1>1, <1>9, <3>2, KeyFrame DEF Stop, ConfigTypeOK
        <3> QED BY <3>1, <3>2
    <2> QED BY <2>1, <2>2 DEF KeysAgree
<1>10. ASSUME NEW n \in Node, Load(n) PROVE KeysAgree'
    <2>1. ASSUME NEW m \in Node PROVE KeyAt(m)'
        <3>1. CASE m = n
            <4>1. /\ n \in notice /\ hook[n] = "idle" /\ n \notin notice'
                  /\ UNCHANGED <<saved, up, conf, isNil, taken, clientKey>>
                  /\ \/ /\ hook'[n] = "set" /\ loaded'[n] = Sanitize(saved)
                        /\ UNCHANGED since
                     \/ /\ hook'[n] = "idle" /\ since' = IF isNil[n] THEN since \ {n} ELSE since
                BY <1>10 DEF Load, ConfigTypeOK
            <4>2. Sanitize(saved).key = saved.key
                BY SanitizeTyped DEF ConfigTypeOK
            <4> QED BY <1>1, <3>1, <4>1, <4>2 DEF KeyAt, Keyed
        <3>2. CASE m # n
            BY <1>1, <1>10, <3>2, KeyFrame DEF Load, ConfigTypeOK
        <3> QED BY <3>1, <3>2
    <2> QED BY <1>2, <1>10, <2>1 DEF Load, KeysAgree
<1>11. ASSUME NEW n \in Node, SetConfiguration(n) PROVE KeysAgree'
    <2>1. ASSUME NEW m \in Node PROVE KeyAt(m)'
        <3>1. CASE m = n
            <4>1. /\ hook[n] = "set" /\ hook'[n] = "register" /\ ~isNil'[n]
                  /\ conf'[n] = loaded[n]
                  /\ UNCHANGED <<saved, notice, up, taken, clientKey, since>>
                BY <1>11 DEF SetConfiguration, ConfigTypeOK
            <4> QED BY <1>1, <3>1, <4>1 DEF KeyAt, Keyed
        <3>2. CASE m # n
            BY <1>1, <1>11, <3>2, KeyFrame DEF SetConfiguration, ConfigTypeOK
        <3> QED BY <3>1, <3>2
    <2> QED BY <1>2, <1>11, <2>1 DEF SetConfiguration, KeysAgree
<1>12. ASSUME NEW n \in Node, Register(n) \/ ReloadConfig(n) \/ ReloadConfigs(n)
       PROVE  KeysAgree'
    <2> USE DEF Register, ReloadConfig, ReloadConfigs
    <2>1. UNCHANGED <<server, token, up, conf, isNil, taken, clientKey, loaded, callback,
                      keyHistory>>
        BY <1>12
    <2>2. ASSUME NEW m \in Node PROVE KeyAt(m)'
        <3>1. hook'[m] = hook[m]
              \/ (hook[m] \notin {"idle", "set"} /\ hook'[m] \in {"idle", "oauth", "google"})
            BY <1>12 DEF ConfigTypeOK
        <3> QED BY <1>1, <2>1, <3>1 DEF KeyAt, Keyed
    <2> QED BY <1>2, <2>1, <2>2 DEF KeysAgree
<1>13. CASE StartSetupWizard \/ Press \/ Announce \/ UNCHANGED configVars
    <2>1. UNCHANGED <<server, token, up, conf, isNil, taken, clients, hooks, callback,
                      keyHistory>>
        BY <1>13 DEF StartSetupWizard, Press, Announce, configVars
    <2>2. ASSUME NEW m \in Node PROVE KeyAt(m)'
        BY <1>1, <2>1, KeyFrame
    <2> QED BY <1>2, <2>1, <2>2 DEF KeysAgree
<1>14. ASSUME NEW n \in Node, NEW typed \in Typed, SubmitOAuthConfig(n, typed)
       PROVE  KeysAgree'
    <2>1. UNCHANGED <<server, token, up, isNil, taken, clients, hooks, callback, keyHistory>>
        BY <1>14 DEF SubmitOAuthConfig
    <2>2. ASSUME NEW m \in Node PROVE KeyAt(m)'
        <3>1. conf'[m].key = conf[m].key
            <4>1. \/ conf' = conf
                  \/ conf' = [conf EXCEPT ![n] = [conf[n] EXCEPT !.id = Trim(typed.id)]]
                BY <1>14 DEF SubmitOAuthConfig
            <4>2. conf \in [Node -> Config] /\ conf[m] \in Config
                BY DEF ConfigTypeOK
            <4>3. CASE m = n
                <5>1. \A t : [conf[m] EXCEPT !.id = t].key = conf[m].key
                    BY <4>2 DEF Config
                <5> QED BY <4>1, <4>2, <4>3, <5>1
            <4>4. CASE m # n
                BY <4>1, <4>2, <4>4
            <4> QED BY <4>3, <4>4
        <3> QED BY <1>1, <2>1, <3>1, KeyFrame
    <2> QED BY <1>2, <2>1, <2>2 DEF KeysAgree
<1>15. CASE WriteSecret
    <2>1. UNCHANGED <<server, token, up, isNil, taken, clients, hooks, callback, keyHistory>>
        BY <1>15 DEF WriteSecret
    <2>2. ASSUME NEW m \in Node PROVE KeyAt(m)'
        <3>1. conf'[m].key = conf[m].key
            <4>1. \/ conf' = conf
                  \/ conf' = [conf EXCEPT ![form.node] =
                                [conf[form.node] EXCEPT !.secret = form.typed.secret]]
                BY <1>15 DEF WriteSecret
            <4>2. conf \in [Node -> Config] /\ conf[m] \in Config
                BY DEF ConfigTypeOK
            <4>3. CASE m = form.node
                <5>1. \A t : [conf[m] EXCEPT !.secret = t].key = conf[m].key
                    BY <4>2 DEF Config
                <5> QED BY <4>1, <4>2, <4>3, <5>1
            <4>4. CASE m # form.node
                BY <4>1, <4>2, <4>4
            <4> QED BY <4>3, <4>4
        <3> QED BY <1>1, <2>1, <3>1, KeyFrame
    <2> QED BY <1>2, <2>1, <2>2 DEF KeysAgree
<1>16. ASSUME NEW n \in Node, Callback(n) PROVE KeysAgree'
    <2>1. UNCHANGED <<server, token, up, conf, isNil, taken, clients, hooks, keyHistory>>
        BY <1>16 DEF Callback
    <2>2. ASSUME NEW m \in Node PROVE KeyAt(m)'
        BY <1>1, <2>1, KeyFrame
    <2>3. n \in since => conf[n].key = saved.key
        BY <1>1, <1>16 DEF Callback, KeyAt
    <2>4. callback'.fresh = (n \in since) /\ callback'.key = conf[n].key
        BY <1>16 DEF Callback
    <2> QED BY <1>1, <2>1, <2>2, <2>3, <2>4 DEF KeysAgree, TokenAgrees
<1>17. CASE StoreToken
    <2>1. UNCHANGED <<server, up, conf, isNil, taken, clients, hooks, since>>
        BY <1>17 DEF StoreToken
    <2>2. ASSUME NEW m \in Node PROVE KeyAt(m)'
        BY <1>1, <2>1, KeyFrame
    <2>3. TokenAgrees'
        BY <1>1, <1>17 DEF StoreToken, TokenAgrees, NoCallback
    <2> QED BY <2>2, <2>3 DEF KeysAgree
<1> QED
    BY <1>3, <1>4, <1>5, <1>6, <1>7, <1>8, <1>9, <1>10, <1>11, <1>12, <1>13, <1>14, <1>15,
       <1>16, <1>17
    DEF ConfigNext

\* A token stored from the node that made the saved key, or from one that has started and
\* loaded it since, can be decrypted on every such node, with any number of nodes, of keys
\* that they generate and replace, of forms and of failing calls (plugin.json:48).
THEOREM OneKey == ConfigSpec => []TokensReadable
<1>0. Assumptions
    BY ConfigAssumption DEF Assumptions
<1>1. ConfigInit => ConfigTypeOK /\ Held /\ KeysAgree
    BY <1>0, ConfigTypeInit, KeyInit DEF ConfigInit, Held
<1>2. ConfigTypeOK /\ Held /\ KeysAgree /\ [ConfigNext]_configVars
        => (ConfigTypeOK /\ Held /\ KeysAgree)'
    BY <1>0, ConfigTypeStep, HeldStep, KeysStep
<1>3. ConfigTypeOK /\ KeysAgree => TokensReadable
    <2> SUFFICES ASSUME ConfigTypeOK, KeysAgree, fresh, NEW n \in since, up[n] = "active"
                 PROVE  clientKey[n] = token
        BY DEF TokensReadable
    <2>1. n \in Node /\ KeyAt(n)
        BY DEF ConfigTypeOK, KeysAgree
    <2> QED BY <2>1 DEF KeyAt, KeysAgree, TokenAgrees
<1> QED BY <1>1, <1>2, <1>3, PTL DEF ConfigSpec

(***************************************************************************)
(* The wizard's form.  Its two values reach the struct that is saved, even *)
(* when the hook replaces the configuration between the two writes.        *)
(***************************************************************************)

FormTrue ==
    form # NoForm =>
        /\ form.at = "secret" =>
              (IF form.shared THEN conf[form.node].id ELSE form.struct.id) = form.typed.id
        /\ form.at = "save" => /\ CredentialsOf(form.struct) = form.typed
                               /\ form.shared => conf[form.node] = form.struct

LEMMA FormStep == Assumptions /\ ConfigTypeOK /\ Held /\ FormTrue /\ [ConfigNext]_configVars
        => FormTrue'
<1> SUFFICES ASSUME Assumptions, ConfigTypeOK, Held, FormTrue, [ConfigNext]_configVars
             PROVE  FormTrue'
    OBVIOUS
<1> USE DEF server, keyHistory, clients, hooks, wizard, unmoved, Goto
<1>1. CASE UNCHANGED <<form, conf>>
    BY <1>1 DEF FormTrue
<1>2. ASSUME NEW n \in Node, Activate(n) PROVE FormTrue'
    <2>1. UNCHANGED form /\ (form # NoForm => form.node # n)
        BY <1>2 DEF Activate, Held
    <2>2. \A m \in Node \ {n} : conf'[m] = conf[m]
        BY <1>2 DEF Activate, ConfigTypeOK
    <2>3. form # NoForm => form.node \in Node
        BY DEF Held
    <2> QED BY <2>1, <2>2, <2>3 DEF FormTrue
<1>3. ASSUME NEW n \in Node, Stop(n) PROVE FormTrue'
    <2>1. form' = NoForm \/ (form' = form /\ form.node # n)
        BY <1>3 DEF Stop
    <2>2. \A m \in Node \ {n} : conf'[m] = conf[m]
        BY <1>3 DEF Stop, ConfigTypeOK
    <2>3. form # NoForm => form.node \in Node
        BY DEF Held
    <2> QED BY <2>1, <2>2, <2>3 DEF FormTrue
<1>4. ASSUME NEW n \in Node, SetConfiguration(n) PROVE FormTrue'
    <2>1. \A m \in Node \ {n} : conf'[m] = conf[m]
        BY <1>4 DEF SetConfiguration, ConfigTypeOK
    <2>2. form # NoForm => form.node \in Node
        BY DEF Held
    <2>3. CASE form # NoForm /\ form.node = n /\ form.shared
        <3>1. /\ form'.at = form.at /\ ~form'.shared /\ form'.struct = conf[n]
              /\ form'.typed = form.typed
            BY <1>4, <2>3 DEF SetConfiguration, ConfigTypeOK
        <3>2. /\ form.at = "secret" => conf[n].id = form.typed.id
              /\ form.at = "save" => CredentialsOf(conf[n]) = form.typed
            BY <2>3 DEF FormTrue
        <3> QED BY <3>1, <3>2 DEF FormTrue, CredentialsOf
    <2>4. CASE form = NoForm \/ form.node # n \/ ~form.shared
        <3>1. form' = form
            BY <1>4, <2>4 DEF SetConfiguration, NoForm
        <3> QED BY <2>1, <2>2, <2>4, <3>1 DEF FormTrue
    <2> QED BY <2>3, <2>4
<1>5. ASSUME NEW n \in Node, NEW typed \in Typed, SubmitOAuthConfig(n, typed) PROVE FormTrue'
    <2>1. /\ form'.at = "secret" /\ form'.node = n /\ form'.shared = ~isNil[n]
          /\ form'.struct = IF isNil[n] THEN [Zero EXCEPT !.id = Trim(typed.id)] ELSE Zero
          /\ form'.typed.id = Trim(typed.id)
        BY <1>5 DEF SubmitOAuthConfig
    <2>2. conf' = IF isNil[n] THEN conf ELSE [conf EXCEPT ![n].id = Trim(typed.id)]
        BY <1>5 DEF SubmitOAuthConfig
    <2>3. ~isNil[n] => conf'[n].id = Trim(typed.id)
        <3>1. conf[n] \in Config /\ conf \in [Node -> Config]
            BY DEF ConfigTypeOK
        <3> QED BY <2>2, <3>1 DEF Config
    <2>4. isNil[n] => form'.struct.id = Trim(typed.id)
        <3>1. [Zero EXCEPT !.id = Trim(typed.id)].id = Trim(typed.id)
            BY DEF Zero
        <3> QED BY <2>1, <3>1
    <2>5. isNil[n] \in BOOLEAN
        BY DEF ConfigTypeOK
    <2>6. (IF form'.shared THEN conf'[form'.node].id ELSE form'.struct.id) = form'.typed.id
        BY <2>1, <2>3, <2>4, <2>5
    <2> QED BY <2>1, <2>6 DEF FormTrue
<1>6. CASE WriteSecret
    <2> DEFINE struct == IF form.shared THEN conf[form.node] ELSE form.struct
               config == [struct EXCEPT !.secret = form.typed.secret]
    <2>1. form.node \in Node /\ form # NoForm /\ form.at = "secret"
        BY <1>6 DEF WriteSecret, Held, NoForm
    <2>2. struct \in Config /\ form.typed \in Credentials /\ struct.id = form.typed.id
        BY <2>1 DEF FormTrue, ConfigTypeOK
    <2>3. CredentialsOf(config) = form.typed
        BY <2>2 DEF Config, Credentials, CredentialsOf
    <2>4. /\ form' = [form EXCEPT !.at = "save", !.struct = config]
          /\ conf' = IF form.shared THEN [conf EXCEPT ![form.node] = config] ELSE conf
        BY <1>6 DEF WriteSecret
    <2> HIDE DEF config
    <2>5. /\ form'.at = "save" /\ form'.struct = config /\ form'.typed = form.typed
          /\ form'.node = form.node /\ form'.shared = form.shared
        BY <2>4 DEF ConfigTypeOK
    <2>6. form'.shared => conf'[form'.node] = form'.struct
        BY <2>1, <2>4, <2>5 DEF ConfigTypeOK
    <2> QED BY <2>3, <2>5, <2>6 DEF FormTrue, CredentialsOf
<1>7. CASE SaveForm
    BY <1>7 DEF SaveForm, FormTrue
<1> QED
    BY <1>1, <1>2, <1>3, <1>4, <1>5, <1>6, <1>7
    DEF ConfigNext, configVars, Console, Start, SaveDefaults, Schedule, GetOAuthConfig,
        SetOAuthConfig, NewGoogleClient, SetGoogleClient, Load, Register, ReloadConfig,
        ReloadConfigs, StartSetupWizard, Press, Announce, Callback, StoreToken

\* Nothing but the saved form leads past the dialog.
LEMMA DoneStep == FormTrue /\ DoneMeansSaved /\ [ConfigNext]_configVars => DoneMeansSaved'
<1> SUFFICES ASSUME FormTrue, DoneMeansSaved, [ConfigNext]_configVars PROVE DoneMeansSaved'
    OBVIOUS
<1> USE DEF server, keyHistory, clients, hooks, wizard, unmoved, Goto
<1>1. CASE StartSetupWizard \/ Press \/ Announce
    BY <1>1 DEF StartSetupWizard, Press, Announce, DoneMeansSaved
<1>2. CASE SaveForm
    <2>1. CredentialsOf(form.struct) = form.typed
        BY <1>2 DEF SaveForm, FormTrue, NoForm
    <2> QED BY <1>2, <2>1 DEF SaveForm, DoneMeansSaved
<1>3. CASE UNCHANGED <<step, kept>>
    BY <1>3 DEF DoneMeansSaved
<1> QED
    BY <1>1, <1>2, <1>3
    DEF ConfigNext, configVars, Console, Start, Activate, SaveDefaults, Schedule, GetOAuthConfig,
        SetOAuthConfig, NewGoogleClient, SetGoogleClient, Stop, Load, SetConfiguration,
        Register, ReloadConfig, ReloadConfigs, SubmitOAuthConfig, WriteSecret, Callback,
        StoreToken

\* The wizard congratulates only an administrator whose two values were saved as
\* typed, whatever the hook did to the struct between the writes and the save.
THEOREM WizardSaves == ConfigSpec => []DoneMeansSaved
<1>0. Assumptions
    BY ConfigAssumption DEF Assumptions
<1>1. ConfigInit => ConfigTypeOK /\ Held /\ FormTrue /\ DoneMeansSaved
    BY <1>0, ConfigTypeInit DEF ConfigInit, Held, FormTrue, DoneMeansSaved
<1>2. ConfigTypeOK /\ Held /\ FormTrue /\ DoneMeansSaved /\ [ConfigNext]_configVars
        => (ConfigTypeOK /\ Held /\ FormTrue /\ DoneMeansSaved)'
    BY <1>0, ConfigTypeStep, HeldStep, FormStep, DoneStep
<1> QED BY <1>1, <1>2, PTL DEF ConfigSpec

(***************************************************************************)
(* Every copy of the settings is current.  What a copy is current with     *)
(* depends on how far the hook is: a copy is behind only while the hook is *)
(* called for (notice), has not come to it yet, or came to an error; while *)
(* somebody has written into the struct and not yet saved it; or because   *)
(* the hook has overtaken OnActivate.                                      *)
(***************************************************************************)

\* Nobody is to call the hook of the node, and its struct is as the hook left it.
Untouched(n) ==
    /\ n \notin notice \cup unsaved /\ up[n] \notin {"off", "save", "failed"}
    /\ ~(form.node = n /\ form.shared)

\* The hook is at one of the places, or has come to its end.
Reached(n, places) == hook[n] \in places \/ (hook[n] = "idle" /\ n \notin behind)

CurrentAt(n) ==
    /\ hook[n] = "set" /\ n \notin notice /\ up[n] # "off" => loaded[n] = Sanitize(saved)
    /\ Untouched(n) /\ Reached(n, {"register", "oauth", "google"}) => conf[n] = Sanitize(saved)
    /\ Untouched(n) /\ Reached(n, {"google"}) =>
          \/ <<n, "oauth">> \in overtaken
          \/ /\ up[n] = "oauthSet" => CredentialsOf(taken[n]) = CredentialsOf(conf[n])
             /\ up[n] \in {"client", "clientSet", "active"} =>
                   oauthConfig[n] = CredentialsOf(conf[n])
    /\ Untouched(n) /\ Reached(n, {}) =>
          \/ <<n, "client">> \in overtaken
          \/ /\ up[n] = "clientSet" => taken[n].rate = conf[n].rate
             /\ up[n] = "active" => limiter[n] = conf[n].rate

Current == \A n \in Node : CurrentAt(n)

\* What a step may do without making a node's copies stale: save, and tell the node.
LEMMA CurrentFrame ==
    ASSUME NEW n \in Node, CurrentAt(n),
           UNCHANGED <<conf[n], taken[n], loaded[n], oauthConfig[n], limiter[n], hook[n]>>,
           up'[n] = up[n] \/ up'[n] \in {"off", "save", "failed"}
              \/ (up[n] \notin {"off", "save", "failed"}
                    /\ up'[n] \notin {"oauthSet", "client", "clientSet", "active"}),
           \A client : <<n, client>> \in overtaken' <=> <<n, client>> \in overtaken,
           Untouched(n)' => Untouched(n),
           n \in behind' <=> n \in behind,
           n \notin notice' => n \notin notice,
           saved' = saved \/ n \in notice' \/ up'[n] = "off",
           up'[n] # "off" => up[n] # "off" \/ hook[n] # "set"
    PROVE  CurrentAt(n)'
BY DEF CurrentAt, Reached, Untouched

LEMMA CurrentInit == ConfigInit => Current
BY DEF ConfigInit, Current, CurrentAt, Untouched

\* A save tells every node that is up, so no node's copies become stale unnoticed.
LEMMA CurrentStep ==
    Assumptions /\ ConfigTypeOK /\ Held /\ Current /\ [ConfigNext]_configVars => Current'
<1> SUFFICES ASSUME Assumptions, ConfigTypeOK, Held, Current, [ConfigNext]_configVars,
                    NEW m \in Node
             PROVE  CurrentAt(m)'
    BY DEF Current
<1> USE DEF server, keyHistory, clients, hooks, wizard, unmoved, Goto, At, ReturnEarly
<1>0. CurrentAt(m)
    BY DEF Current
<1>1. CASE Console
    <2>1. m \in notice' \/ up[m] = "off"
        BY <1>1 DEF Console, SavePluginConfig
    <2> QED BY <1>0, <1>1, <2>1 DEF Console, CurrentAt, Untouched
<1>2. ASSUME NEW n \in Node, Start(n) PROVE CurrentAt(m)'
    <2>1. m \in notice' \/ (m \notin notice /\ up'[m] = up[m])
        BY <1>2 DEF Start, ConfigTypeOK
    <2> QED BY <1>0, <1>2, <2>1 DEF Start, CurrentAt, Untouched, Reached
<1>3. ASSUME NEW n \in Node, Activate(n) PROVE CurrentAt(m)'
    <2>1. CASE m # n
        BY <1>0, <1>3, <2>1, CurrentFrame DEF Activate, Untouched, ConfigTypeOK
    <2>2. CASE m = n
        <3>1. CASE up'[n] \in {"save", "failed"}
            BY <1>3, <2>2, <3>1 DEF Activate, CurrentAt, Untouched
        <3>2. CASE up'[n] \notin {"save", "failed"}
            <4>1. up'[n] = "schedule" /\ UNCHANGED <<conf, taken>>
                BY <1>3, <3>2 DEF Activate, ConfigTypeOK
            <4> QED BY <1>0, <1>3, <2>2, <4>1, CurrentFrame DEF Activate, Untouched
        <3> QED BY <3>1, <3>2
    <2> QED BY <2>1, <2>2
<1>4. ASSUME NEW n \in Node, SaveDefaults(n) PROVE CurrentAt(m)'
    <2>1. CASE SavePluginConfig(taken[n], IF Makes(n) THEN {n} ELSE {})
        <3>1. m \in notice' \/ up'[m] = "off"
            BY <1>4, <2>1 DEF SaveDefaults, SavePluginConfig, ConfigTypeOK
        <3> QED BY <1>4, <3>1 DEF CurrentAt, Untouched
    <2>2. CASE UNCHANGED <<saved, notice>> /\ up' = [up EXCEPT ![n] = "failed"]
        BY <1>0, <1>4, <2>2 DEF SaveDefaults, CurrentAt, Untouched, Reached, ConfigTypeOK
    <2> QED BY <1>4, <2>1, <2>2 DEF SaveDefaults
<1>5. ASSUME NEW n \in Node, Schedule(n) PROVE CurrentAt(m)'
    BY <1>0, <1>5, CurrentFrame DEF Schedule, Untouched, ConfigTypeOK
<1>6. ASSUME NEW n \in Node, GetOAuthConfig(n) \/ SetOAuthConfig(n) PROVE CurrentAt(m)'
    BY <1>0, <1>6 DEF GetOAuthConfig, SetOAuthConfig, CurrentAt, Untouched, Reached, ConfigTypeOK
<1>7. ASSUME NEW n \in Node, NewGoogleClient(n) \/ SetGoogleClient(n) PROVE CurrentAt(m)'
    BY <1>0, <1>7
    DEF NewGoogleClient, SetGoogleClient, CurrentAt, Untouched, Reached, ConfigTypeOK
<1>8. ASSUME NEW n \in Node, Stop(n) PROVE CurrentAt(m)'
    <2>1. CASE m # n
        BY <1>0, <1>8, <2>1, CurrentFrame DEF Stop, Untouched, ConfigTypeOK
    <2>2. CASE m = n
        BY <1>8, <2>2 DEF Stop, CurrentAt, Untouched, ConfigTypeOK
    <2> QED BY <2>1, <2>2
<1>9. ASSUME NEW n \in Node, Load(n) PROVE CurrentAt(m)'
    <2>1. CASE m # n
        BY <1>0, <1>9, <2>1, CurrentFrame DEF Load, Untouched, ConfigTypeOK
    <2>2. CASE m = n
        BY <1>9, <2>2 DEF Load, CurrentAt, Reached, ConfigTypeOK
    <2> QED BY <2>1, <2>2
<1>10. ASSUME NEW n \in Node, SetConfiguration(n) PROVE CurrentAt(m)'
    <2>1. CASE m # n
        BY <1>0, <1>10, <2>1, CurrentFrame DEF SetConfiguration, Untouched, ConfigTypeOK
    <2>2. CASE m = n
        BY <1>0, <1>10, <2>2 DEF SetConfiguration, CurrentAt, Untouched, Reached, ConfigTypeOK
    <2> QED BY <2>1, <2>2
<1>11. ASSUME NEW n \in Node, Register(n) \/ ReloadConfig(n) \/ ReloadConfigs(n)
       PROVE  CurrentAt(m)'
    <2>1. CASE m # n
        BY <1>0, <1>11, <2>1, CurrentFrame
        DEF Register, ReloadConfig, ReloadConfigs, Missed, Untouched, ConfigTypeOK
    <2>2. CASE m = n
        BY <1>0, <1>11, <2>2
        DEF Register, ReloadConfig, ReloadConfigs, Missed, CurrentAt, Untouched, Reached,
            ConfigTypeOK
    <2> QED BY <2>1, <2>2
<1>12. ASSUME NEW n \in Node, NEW typed \in Typed, SubmitOAuthConfig(n, typed)
       PROVE  CurrentAt(m)'
    <2>1. CASE m = n /\ ~isNil[n]
        <3>1. form'.node = m /\ form'.shared
            BY <1>12, <2>1 DEF SubmitOAuthConfig
        <3> QED BY <1>0, <1>12, <3>1 DEF SubmitOAuthConfig, CurrentAt, Untouched
    <2>2. CASE m # n \/ isNil[n]
        <3>1. conf'[m] = conf[m]
            BY <1>12, <2>2 DEF SubmitOAuthConfig, ConfigTypeOK
        <3>2. Untouched(m)' => Untouched(m)
            BY <1>12 DEF SubmitOAuthConfig, Untouched, NoForm
        <3> QED BY <1>0, <1>12, <3>1, <3>2, CurrentFrame DEF SubmitOAuthConfig
    <2> QED BY <2>1, <2>2
<1>13. CASE WriteSecret
    <2>1. /\ form'.node = form.node /\ form'.shared = form.shared
          /\ conf'[m] = conf[m] \/ (form.shared /\ form.node = m)
        BY <1>13 DEF WriteSecret, ConfigTypeOK
    <2> QED BY <1>0, <1>13, <2>1 DEF WriteSecret, CurrentAt, Untouched, Reached
<1>14. CASE SaveForm
    <2>1. CASE SavePluginConfig(form.struct, {})
        <3>1. m \in notice' \/ up[m] = "off"
            BY <2>1 DEF SavePluginConfig
        <3> QED BY <1>14, <3>1 DEF SaveForm, CurrentAt, Untouched
    <2>2. CASE ~SavePluginConfig(form.struct, {})
        <3>1. /\ UNCHANGED <<saved, notice>>
              /\ unsaved' = IF form.shared THEN unsaved \cup {form.node} ELSE unsaved
            BY <1>14, <2>2 DEF SaveForm
        <3> QED BY <1>0, <1>14, <3>1, CurrentFrame DEF SaveForm, Untouched
    <2> QED BY <2>1, <2>2
<1>15. CASE UNCHANGED <<saved, notice, up, conf, taken, oauthConfig, limiter, hook, loaded,
                        behind, overtaken, unsaved, form>>
    BY <1>0, <1>15 DEF CurrentAt, Untouched, Reached
<1> QED
    BY <1>1, <1>2, <1>3, <1>4, <1>5, <1>6, <1>7, <1>8, <1>9, <1>10, <1>11, <1>12, <1>13,
       <1>14, <1>15
    DEF ConfigNext, configVars, StartSetupWizard, Press, Announce, Callback, StoreToken

\* With any number of nodes, saves, wizards' forms and failed calls, a node whose hook
\* has nothing left to do works with what was last saved (plugin.go:258-300), but for
\* a client that OnActivate set to what it had read before the hook came by
\* (plugin.go:172-174).
THEOREM SettingsConverge == ConfigSpec => []Converged
<1>0. Assumptions
    BY ConfigAssumption DEF Assumptions
<1>1. ConfigInit => ConfigTypeOK /\ Held /\ Current
    BY <1>0, ConfigTypeInit, CurrentInit DEF ConfigInit, Held
<1>2. ConfigTypeOK /\ Held /\ Current /\ [ConfigNext]_configVars
        => (ConfigTypeOK /\ Held /\ Current)'
    BY <1>0, ConfigTypeStep, HeldStep, CurrentStep
<1>3. Current => Converged
    BY DEF Current, CurrentAt, Untouched, Reached, Converged
<1> QED BY <1>1, <1>2, <1>3, PTL DEF ConfigSpec

=============================================================================
