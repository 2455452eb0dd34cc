------------------------------ MODULE PluginConfig ------------------------------
(***************************************************************************)
(* The plugin's settings: where Mattermost saves them, the copies each     *)
(* node works with, and who changes them (server/plugin/plugin.go,         *)
(* flow.go, config/configuration.go, the reload in google/google.go and    *)
(* oauth2/oauth2.go).                                                      *)
(*                                                                         *)
(*   OnActivate             fills in defaults, then builds the clients     *)
(*   OnConfigurationChange  loads what was saved, then reloads the clients *)
(*   the setup wizard       writes into the node's configuration and saves *)
(*   the OAuth callback     encrypts a user's token with the configuration *)
(*                                                                         *)
(* Configuration is a pointer that the hook replaces, while OnActivate and *)
(* the wizard write through it.  A struct that was replaced is held by its *)
(* holder alone, so only the current one is shared here.  One wizard and   *)
(* one callback run at a time; a node's hook is called once at a time, but *)
(* perhaps while OnActivate runs.  QueriesPerMinute stands for BurstSize   *)
(* too, which is treated alike.                                            *)
(***************************************************************************)
EXTENDS Naturals, FiniteSets

CONSTANTS
    Node,
    Text,      \* what may be typed for a client ID or secret, and Blank
    Typed,     \* the pairs of them that are typed into the wizard
    Blank,     \* white space
    None,      \* the empty string
    Key,       \* encryption keys
    Rate,      \* values of QueriesPerMinute; 0 is unset
    Default,   \* the 12000 of SetDefaults
    Initial,   \* what may have been saved before the plugin starts
    MaxSaves,  \* bound: saves in the System Console
    ConfigFaults  \* the calls that may fail, and "restart"

Config == [id : Text \cup {None}, secret : Text \cup {None}, key : Key \cup {None},
           rate : Rate]
Zero == [id |-> None, secret |-> None, key |-> None, rate |-> 0]
Credentials == [id : Text \cup {None}, secret : Text \cup {None}]
NoCredentials == [id |-> None, secret |-> None]

ValueAssumption ==
    /\ Blank \in Text /\ None \notin Text \cup Key /\ Key # {} /\ MaxSaves \in Nat
    /\ Typed \subseteq [id : Text, secret : Text]
RateAssumption == Rate \subseteq Nat /\ 0 \in Rate /\ Default \in Rate \ {0}
InitialAssumption == Initial \subseteq Config
FaultAssumption ==
    ConfigFaults \subseteq {"start", "load", "register", "save", "restart"}
ASSUME ConfigAssumption ==
    ValueAssumption /\ RateAssumption /\ InitialAssumption /\ FaultAssumption

VARIABLES
    saved,        \* Mattermost: the plugin's settings
    saves,        \* Mattermost: saves in the System Console so far
    notice,       \* Mattermost: the nodes whose hook is to be called
    token,        \* KV: the key the user's token is encrypted with, or None
    up,           \* each node: how far OnActivate is
    conf,         \* each node: *p.configuration
    isNil,        \* each node: p.configuration is nil
    taken,        \* OnActivate: what it has read, to be saved or to build a client from
    oauthConfig,  \* each node: the credentials in p.oauthConfig, once it is set
    clientKey,    \* each node: GoogleClient.config.EncryptionKey, once it is set
    limiter,      \* each node: the rate of GoogleClient.driveLimiter
    hook,         \* each node: where OnConfigurationChange is
    loaded,       \* OnConfigurationChange: configuration, before it is set
    step,         \* the wizard's step
    form,         \* submitOAuthConfig: its node, place, struct and what was typed
    callback,     \* completeConnectUserToGoogle: its node and config.EncryptionKey
    behind,       \* history: nodes whose last OnConfigurationChange returned early
    overtaken,    \* history: clients the last hook found nil, about to be set to old settings
    unsaved,      \* history: nodes whose configuration holds what could not be saved
    kept,         \* history: what the wizard has saved is what was typed
    since,        \* history: nodes that started, and loaded, since the saved key last
                  \* changed, and the one that made the key
    fresh         \* history: the token is from a callback begun on one of them since

server == <<saved, saves, notice>>
keyHistory == <<since, fresh>>
clients == <<oauthConfig, clientKey, limiter>>
hooks == <<hook, loaded, behind, overtaken>>
wizard == <<step, form, kept>>
configVars == <<saved, saves, notice, token, up, conf, isNil, taken, oauthConfig, clientKey,
          limiter, hook, loaded, step, form, callback, behind, overtaken, unsaved, kept, since,
          fresh>>

Step == {"none", "welcome", "oauth-info", "oauth-input", "oauth-connect",
         "announcement-question", "announcement-confirmation", "done", "cancel"}
\* No form is being submitted; no callback runs.
NoForm == [at |-> "idle", node |-> None, shared |-> FALSE, struct |-> Zero,
           typed |-> NoCredentials]
NoCallback == [node |-> None, key |-> None, fresh |-> FALSE]

ConfigTypeOK ==
    /\ saved \in Config /\ saves \in 0 .. MaxSaves /\ notice \subseteq Node
    /\ token \in Key \cup {None}
    /\ up \in [Node -> {"off", "starting", "save", "schedule", "oauth", "oauthSet",
                        "client", "clientSet", "active", "failed"}]
    /\ conf \in [Node -> Config] /\ isNil \in [Node -> BOOLEAN]
    /\ taken \in [Node -> Config]
    /\ oauthConfig \in [Node -> Credentials]
    /\ clientKey \in [Node -> Key \cup {None}] /\ limiter \in [Node -> Rate]
    /\ hook \in [Node -> {"idle", "set", "register", "oauth", "google"}]
    /\ loaded \in [Node -> Config]
    /\ step \in Step
    /\ form \in [at : {"idle", "secret", "save"}, node : Node \cup {None},
                 shared : BOOLEAN, struct : Config, typed : Credentials]
    /\ callback \in [node : Node \cup {None}, key : Key \cup {None}, fresh : BOOLEAN]
    /\ behind \subseteq Node /\ unsaved \subseteq Node
    /\ overtaken \subseteq Node \X {"oauth", "client"}
    /\ kept \in BOOLEAN /\ since \subseteq Node /\ fresh \in BOOLEAN

ConfigInit ==
    /\ saved \in Initial /\ saves = 0 /\ notice = {}
    /\ token = None
    /\ up = [n \in Node |-> "off"]
    /\ conf = [n \in Node |-> Zero] /\ isNil = [n \in Node |-> TRUE]
    /\ taken = [n \in Node |-> Zero]
    /\ oauthConfig = [n \in Node |-> NoCredentials]
    /\ clientKey = [n \in Node |-> None] /\ limiter = [n \in Node |-> 0]
    /\ hook = [n \in Node |-> "idle"] /\ loaded = [n \in Node |-> Zero]
    /\ step = "none" /\ form = NoForm /\ callback = NoCallback
    /\ behind = {} /\ overtaken = {} /\ unsaved = {}
    /\ kept = FALSE /\ since = {} /\ fresh = FALSE

-----------------------------------------------------------------------------
(* The configuration.                                                      *)

\* strings.TrimSpace.
Trim(t) == IF t = Blank THEN None ELSE t

\* (A mistake the checks must find: only the credentials are kept.)
SanitizeCredentials(c) == [id |-> Trim(c.id), secret |-> Trim(c.secret)]

Sanitize(c) == [c EXCEPT !.id = Trim(@), !.secret = Trim(@)]

\* SetDefaults, which generates key k if there is none.
SetDefaults(c, k) ==
    [c EXCEPT !.key = IF @ = None THEN k ELSE @,
              !.rate = IF @ = 0 THEN Default ELSE @]

CredentialsOf(c) == [id |-> c.id, secret |-> c.secret]

\* SavePluginConfig: replaces all of the settings and tells every running node.  A new
\* key is new to all but its makers.
SavePluginConfig(c, makers) ==
    /\ saved' = c
    /\ notice' = {n \in Node : up[n] # "off"}
    /\ since' = IF c.key = saved.key THEN since ELSE makers
    /\ fresh' = (fresh /\ c.key = saved.key)
\* A callback that is under way when the key changes is not fresh any more.
Stale(c) == [c EXCEPT !.fresh = @ /\ saved'.key = saved.key]

\* The System Console: an administrator changes one setting.
Console ==
    /\ saves < MaxSaves /\ saves' = saves + 1
    /\ \/ \E r \in Rate : SavePluginConfig([saved EXCEPT !.rate = r], {})
       \/ \E t \in Text : SavePluginConfig([saved EXCEPT !.id = t, !.secret = t], {})
       \/ \E k \in Key : SavePluginConfig([saved EXCEPT !.key = k], {})
    /\ callback' = Stale(callback)
    /\ UNCHANGED <<token, up, conf, isNil, taken, clients, hooks, wizard, unsaved>>

-----------------------------------------------------------------------------
(* OnActivate.                                                             *)

\* Mattermost starts the plugin on a node and calls OnConfigurationChange first.
Start(n) ==
    /\ up[n] = "off"
    /\ up' = [up EXCEPT ![n] = "starting"]
    /\ notice' = notice \cup {n} /\ since' = since \cup {n}
    /\ UNCHANGED <<saved, saves, token, conf, isNil, taken, clients, hooks, wizard, callback,
                   unsaved, fresh>>

\* (A mistake: a key that was generated is not saved.)
ActivateUnsaved(n) ==
    /\ up[n] = "starting" /\ n \notin notice /\ hook[n] = "idle"
    /\ \/ \E k \in Key :
            LET config == SetDefaults(conf[n], k) IN
            /\ conf' = IF isNil[n] THEN conf ELSE [conf EXCEPT ![n] = config]
            /\ IF config.rate = conf[n].rate
               THEN up' = [up EXCEPT ![n] = "schedule"] /\ UNCHANGED taken
               ELSE /\ up' = [up EXCEPT ![n] = "save"]
                    /\ taken' = [taken EXCEPT ![n] = config]
       \/ /\ "start" \in ConfigFaults /\ up' = [up EXCEPT ![n] = "failed"]
          /\ UNCHANGED <<conf, taken>>
    /\ UNCHANGED <<server, token, isNil, clients, hooks, wizard, callback, unsaved,
                   keyHistory>>

\* The check of the site URL, then setDefaultConfiguration, which writes into the
\* configuration, or into a struct nobody else has if there is none yet.
Activate(n) ==
    /\ up[n] = "starting" /\ n \notin notice /\ hook[n] = "idle"
    /\ \/ \E k \in Key :
            LET config == SetDefaults(conf[n], k) IN
            /\ conf' = IF isNil[n] THEN conf ELSE [conf EXCEPT ![n] = config]
            /\ IF config = conf[n] THEN up' = [up EXCEPT ![n] = "schedule"] /\ UNCHANGED taken
               ELSE /\ up' = [up EXCEPT ![n] = "save"]
                    /\ taken' = [taken EXCEPT ![n] = config]
       \/ /\ "start" \in ConfigFaults /\ up' = [up EXCEPT ![n] = "failed"]
          /\ UNCHANGED <<conf, taken>>
    /\ UNCHANGED <<server, token, isNil, clients, hooks, wizard, callback, unsaved,
                   keyHistory>>

\* The configuration that OnActivate has filled in is still the node's.
Makes(n) == ~isNil[n] /\ hook[n] # "set" /\ conf[n].key = taken[n].key

SaveDefaults(n) ==
    /\ up[n] = "save"
    /\ \/ /\ SavePluginConfig(taken[n], IF Makes(n) THEN {n} ELSE {})
          /\ up' = [up EXCEPT ![n] = "schedule"]
       \/ /\ "save" \in ConfigFaults /\ up' = [up EXCEPT ![n] = "failed"]
          /\ UNCHANGED <<saved, notice, keyHistory>>
    /\ taken' = [taken EXCEPT ![n] = Zero] /\ callback' = Stale(callback)
    /\ UNCHANGED <<saves, token, conf, isNil, clients, hooks, wizard, unsaved>>

\* initializeAPI, the broker, EnsureBot, the flow manager and the job.
Schedule(n) ==
    /\ up[n] = "schedule"
    /\ \/ up' = [up EXCEPT ![n] = "oauth"]
       \/ "start" \in ConfigFaults /\ up' = [up EXCEPT ![n] = "failed"]
    /\ UNCHANGED <<server, token, conf, isNil, taken, clients, hooks, wizard, callback,
                   unsaved, keyHistory>>

\* oauth2.GetOAuthConfig builds the client from the configuration of this moment ...
GetOAuthConfig(n) ==
    /\ up[n] = "oauth" /\ up' = [up EXCEPT ![n] = "oauthSet"]
    /\ taken' = [taken EXCEPT ![n] = conf[n]]
    /\ UNCHANGED <<server, token, conf, isNil, clients, hooks, wizard, callback, unsaved,
                   keyHistory>>

\* ... and p.oauthConfig is set to it.
SetOAuthConfig(n) ==
    /\ up[n] = "oauthSet" /\ up' = [up EXCEPT ![n] = "client"]
    /\ oauthConfig' = [oauthConfig EXCEPT ![n] = CredentialsOf(taken[n])]
    /\ taken' = [taken EXCEPT ![n] = Zero]
    /\ UNCHANGED <<server, token, conf, isNil, clientKey, limiter, hooks, wizard, callback,
                   unsaved, keyHistory>>

\* google.NewGoogleClient makes the limiter from the configuration of this moment and
\* keeps its struct for good.  Nobody writes the key of a struct after this, so the key
\* it holds is what matters ...
NewGoogleClient(n) ==
    /\ up[n] = "client" /\ up' = [up EXCEPT ![n] = "clientSet"]
    /\ taken' = [taken EXCEPT ![n] = conf[n]]
    /\ UNCHANGED <<server, token, conf, isNil, clients, hooks, wizard, callback, unsaved,
                   keyHistory>>

\* ... and p.GoogleClient is set.
SetGoogleClient(n) ==
    /\ up[n] = "clientSet" /\ up' = [up EXCEPT ![n] = "active"]
    /\ clientKey' = [clientKey EXCEPT ![n] = taken[n].key]
    /\ limiter' = [limiter EXCEPT ![n] = taken[n].rate]
    /\ taken' = [taken EXCEPT ![n] = Zero]
    /\ UNCHANGED <<server, token, conf, isNil, oauthConfig, hooks, wizard, callback, unsaved,
                   keyHistory>>

\* The node stops, after a failed activation or at any time.
Stop(n) ==
    /\ up[n] = "failed" \/ (up[n] = "active" /\ "restart" \in ConfigFaults)
    /\ up' = [up EXCEPT ![n] = "off"]
    /\ notice' = notice \ {n}
    /\ conf' = [conf EXCEPT ![n] = Zero] /\ isNil' = [isNil EXCEPT ![n] = TRUE]
    /\ oauthConfig' = [oauthConfig EXCEPT ![n] = NoCredentials]
    /\ clientKey' = [clientKey EXCEPT ![n] = None] /\ limiter' = [limiter EXCEPT ![n] = 0]
    /\ hook' = [hook EXCEPT ![n] = "idle"] /\ loaded' = [loaded EXCEPT ![n] = Zero]
    /\ form' = IF form.node = n THEN NoForm ELSE form
    /\ callback' = IF callback.node = n THEN NoCallback ELSE callback
    /\ behind' = behind \ {n} /\ unsaved' = unsaved \ {n} /\ since' = since \ {n}
    /\ overtaken' = overtaken \ {<<n, "oauth">>, <<n, "client">>}
    /\ UNCHANGED <<saved, saves, token, taken, step, kept, fresh>>

-----------------------------------------------------------------------------
(* OnConfigurationChange.                                                  *)

At(n, label) == hook' = [hook EXCEPT ![n] = label]

\* An error ends the hook before the clients are reloaded.
ReturnEarly(n) == At(n, "idle") /\ behind' = behind \cup {n}

\* LoadPluginConfiguration and Sanitize.
Load(n) ==
    /\ n \in notice /\ hook[n] = "idle"
    /\ notice' = notice \ {n}
    /\ \/ At(n, "set") /\ loaded' = [loaded EXCEPT ![n] = Sanitize(saved)]
          /\ UNCHANGED <<behind, since>>
       \/ /\ "load" \in ConfigFaults
          /\ ReturnEarly(n) /\ UNCHANGED loaded
          /\ since' = IF isNil[n] THEN since \ {n} ELSE since
    /\ UNCHANGED <<saved, saves, token, up, conf, isNil, taken, clients, overtaken, wizard,
                   callback, unsaved, fresh>>

\* setConfiguration.  A form in hand keeps the struct that was current.
SetConfiguration(n) ==
    /\ hook[n] = "set" /\ At(n, "register")
    /\ conf' = [conf EXCEPT ![n] = loaded[n]] /\ isNil' = [isNil EXCEPT ![n] = FALSE]
    /\ loaded' = [loaded EXCEPT ![n] = Zero]
    /\ form' = IF form.node = n /\ form.shared
               THEN [form EXCEPT !.shared = FALSE, !.struct = conf[n]] ELSE form
    /\ unsaved' = unsaved \ {n}
    /\ UNCHANGED <<server, token, up, taken, clients, step, kept, callback, behind, overtaken,
                   keyHistory>>

\* getCommand and SlashCommand.Register.
Register(n) ==
    /\ hook[n] = "register"
    /\ \/ At(n, "oauth") /\ UNCHANGED behind
       \/ "register" \in ConfigFaults /\ ReturnEarly(n)
    /\ UNCHANGED <<server, token, up, conf, isNil, taken, clients, loaded, overtaken, wizard,
                   callback, unsaved, keyHistory>>

\* The hook has dealt with a client: it missed the new settings if OnActivate holds
\* others, to set the client to.
Missed(n, client, missed) ==
    overtaken' = (overtaken \ {<<n, client>>}) \cup IF missed THEN {<<n, client>>} ELSE {}

\* (A mistake: nothing is reloaded before both clients are there.)
ReloadWhenActive(n) ==
    /\ hook[n] = "oauth" /\ At(n, "google")
    /\ oauthConfig' = IF up[n] = "active"
                      THEN [oauthConfig EXCEPT ![n] = CredentialsOf(conf[n])] ELSE oauthConfig
    /\ Missed(n, "oauth", up[n] = "oauthSet" /\ CredentialsOf(taken[n]) # CredentialsOf(conf[n]))
    /\ UNCHANGED <<server, token, up, conf, isNil, taken, clientKey, limiter, loaded, wizard,
                   callback, behind, unsaved, keyHistory>>

\* oauthConfig.ReloadConfig, if OnActivate has set it.
ReloadConfig(n) ==
    /\ hook[n] = "oauth" /\ At(n, "google")
    /\ oauthConfig' = IF up[n] \in {"client", "clientSet", "active"}
                      THEN [oauthConfig EXCEPT ![n] = CredentialsOf(conf[n])] ELSE oauthConfig
    /\ Missed(n, "oauth", up[n] = "oauthSet" /\ CredentialsOf(taken[n]) # CredentialsOf(conf[n]))
    /\ UNCHANGED <<server, token, up, conf, isNil, taken, clientKey, limiter, loaded, wizard,
                   callback, behind, unsaved, keyHistory>>

\* GoogleClient.ReloadConfigs, if OnActivate has set it.
ReloadConfigs(n) ==
    /\ hook[n] = "google" /\ At(n, "idle")
    /\ limiter' = IF up[n] = "active" THEN [limiter EXCEPT ![n] = conf[n].rate] ELSE limiter
    /\ Missed(n, "client", up[n] = "clientSet" /\ taken[n].rate # conf[n].rate)
    /\ behind' = behind \ {n}
    /\ UNCHANGED <<server, token, up, conf, isNil, taken, oauthConfig, clientKey, loaded,
                   wizard, callback, unsaved,
                   keyHistory>>

-----------------------------------------------------------------------------
(* The setup wizard of one administrator.                                  *)

Goto(name) == step' = name
unmoved == <<server, token, up, conf, isNil, taken, clients, hooks, callback, unsaved,
             keyHistory>>

\* StartSetupWizard, by /google-drive setup or OnInstall.
StartSetupWizard ==
    /\ form = NoForm /\ \E n \in Node : up[n] = "active"
    /\ Goto("welcome") /\ kept' = FALSE
    /\ UNCHANGED <<unmoved, form>>

\* The buttons "Continue", "Cancel setup" and "Not now", and the steps that move on
\* by themselves.
Press ==
    /\ form = NoForm
    /\ \/ step = "welcome" /\ Goto("oauth-info")
       \/ step = "oauth-info" /\ Goto("oauth-input")
       \/ step \in {"oauth-info", "oauth-input"} /\ Goto("cancel")
       \/ step = "oauth-connect" /\ Goto("announcement-question")
       \/ step = "announcement-question" /\ Goto("done")
       \/ step = "announcement-confirmation" /\ Goto("done")
    /\ UNCHANGED <<unmoved, form, kept>>

\* submitChannelAnnouncement; when it fails the wizard stays where it is.
Announce ==
    /\ step = "announcement-question" /\ Goto("announcement-confirmation")
    /\ UNCHANGED <<unmoved, form, kept>>

\* submitOAuthConfig: the client ID is written through the pointer ...
SubmitOAuthConfig(n, typed) ==
    /\ step = "oauth-input" /\ form = NoForm /\ up[n] = "active"
    /\ form' = [at |-> "secret", node |-> n, shared |-> ~isNil[n],
                struct |-> IF isNil[n] THEN [Zero EXCEPT !.id = Trim(typed.id)] ELSE Zero,
                typed |-> [id |-> Trim(typed.id), secret |-> Trim(typed.secret)]]
    /\ conf' = IF isNil[n] THEN conf ELSE [conf EXCEPT ![n].id = Trim(typed.id)]
    /\ UNCHANGED <<server, token, up, isNil, taken, clients, hooks, step, kept, callback,
                   unsaved, keyHistory>>

\* ... and then the secret, and ToMap reads it all back.
WriteSecret ==
    /\ form.at = "secret"
    /\ LET struct == IF form.shared THEN conf[form.node] ELSE form.struct
           config == [struct EXCEPT !.secret = form.typed.secret]
       IN  /\ conf' = IF form.shared THEN [conf EXCEPT ![form.node] = config] ELSE conf
           /\ form' = [form EXCEPT !.at = "save", !.struct = config]
    /\ UNCHANGED <<server, token, up, isNil, taken, clients, hooks, step, kept, callback,
                   unsaved, keyHistory>>

\* (A mistake: the wizard goes on when the settings could not be saved.)
SaveFormAnyway ==
    /\ form.at = "save"
    /\ \/ SavePluginConfig(form.struct, {}) /\ kept' = (CredentialsOf(form.struct) = form.typed)
          /\ UNCHANGED unsaved
       \/ "save" \in ConfigFaults /\ UNCHANGED <<saved, notice, kept, keyHistory>>
          /\ unsaved' = IF form.shared THEN unsaved \cup {form.node} ELSE unsaved
    /\ Goto("oauth-connect") /\ form' = NoForm /\ callback' = Stale(callback)
    /\ UNCHANGED <<saves, token, up, conf, isNil, taken, clients, hooks>>

\* SavePluginConfig.  When it fails the dialog stays, and so do the values written.
SaveForm ==
    /\ form.at = "save"
    /\ \/ SavePluginConfig(form.struct, {}) /\ kept' = (CredentialsOf(form.struct) = form.typed)
          /\ Goto("oauth-connect") /\ UNCHANGED unsaved
       \/ "save" \in ConfigFaults /\ UNCHANGED <<saved, notice, kept, step, keyHistory>>
          /\ unsaved' = IF form.shared THEN unsaved \cup {form.node} ELSE unsaved
    /\ form' = NoForm /\ callback' = Stale(callback)
    /\ UNCHANGED <<saves, token, up, conf, isNil, taken, clients, hooks>>

-----------------------------------------------------------------------------
(* A user's token.                                                         *)

\* completeConnectUserToGoogle takes the configuration at its beginning ...
Callback(n) ==
    /\ callback = NoCallback /\ up[n] = "active"
    /\ callback' = [node |-> n, key |-> conf[n].key, fresh |-> n \in since]
    /\ UNCHANGED <<server, token, up, conf, isNil, taken, clients, hooks, wizard, unsaved,
                   keyHistory>>

\* ... and encrypts the token with its key, if it has one, after many other calls.
StoreToken ==
    /\ callback # NoCallback
    /\ \/ callback.key # None /\ token' = callback.key /\ fresh' = callback.fresh
       \/ UNCHANGED <<token, fresh>>
    /\ callback' = NoCallback
    /\ UNCHANGED <<server, up, conf, isNil, taken, clients, hooks, wizard, unsaved, since>>

ConfigNext ==
    \/ Console
    \/ \E n \in Node :
         \/ Start(n) \/ Activate(n) \/ SaveDefaults(n) \/ Schedule(n)
         \/ GetOAuthConfig(n) \/ SetOAuthConfig(n) \/ NewGoogleClient(n) \/ SetGoogleClient(n)
         \/ Stop(n)
         \/ Load(n) \/ SetConfiguration(n) \/ Register(n) \/ ReloadConfig(n) \/ ReloadConfigs(n)
         \/ Callback(n)
         \/ \E typed \in Typed : SubmitOAuthConfig(n, typed)
    \/ StartSetupWizard \/ Press \/ Announce \/ WriteSecret \/ SaveForm
    \/ StoreToken

ConfigSpec == ConfigInit /\ [][ConfigNext]_configVars

-----------------------------------------------------------------------------
\* When the hook has nothing left to do on an active node, the node works with what
\* was last saved, everywhere: in its configuration, in the OAuth client and in the
\* limiter, whoever wrote into the shared struct.  (Not after a hook that returned
\* early, plugin.go:269-277, nor after the wizard could not save what it had written,
\* flow.go:262; and a client keeps old settings that OnActivate had read before the
\* hook replaced them, and set only after the hook had found it nil, plugin.go:172-174
\* and 275-281, until the next save.)
Converged ==
    \A n \in Node \ (notice \cup behind \cup unsaved) :
        up[n] = "active" /\ hook[n] = "idle" /\ ~(form.node = n /\ form.shared) =>
            /\ conf[n] = Sanitize(saved)
            /\ oauthConfig[n] = CredentialsOf(conf[n]) \/ <<n, "oauth">> \in overtaken
            /\ limiter[n] = conf[n].rate \/ <<n, "client">> \in overtaken

\* "The AES encryption key used to encrypt stored access tokens" (plugin.json:48): a
\* token that one node has stored can be decrypted by every other, although nodes that
\* start at once each make a key, settings are saved from stale structs and keys are
\* replaced.  (This is about the node that made the saved key and the nodes that have
\* started and loaded it since: a client never gets a new key, google/google.go:336-340.)
TokensReadable == fresh => \A n \in since : up[n] = "active" => clientKey[n] = token

\* Past the OAuth dialog the wizard congratulates only an administrator whose values
\* were saved as he typed them, whatever the hook did to the struct meanwhile.
DoneMeansSaved ==
    step \in {"oauth-connect", "announcement-question", "announcement-confirmation", "done"}
        => kept
=============================================================================
