----------------------------- MODULE MCGoogleClient -----------------------------
(***************************************************************************)
(* Small instances of the Google client: RateLimit, what it does with      *)
(* Google's refusals, and PluginConfig, where its configuration comes      *)
(* from.  They share only the limiter, which RateLimit takes as given, so  *)
(* each behaviour is one of one of them.                                   *)
(*                                                                         *)
(* PluginConfig comes twice: one node at a time, with all settings and one *)
(* key; and two nodes with two keys, where the key is all that changes.    *)
(***************************************************************************)
EXTENDS MCRateLimit, PluginConfig

CONSTANTS n1, n2, a, k1, k2

VARIABLE part  \* the component of this behaviour

allVars == <<vars, configVars, part>>

TwoNodes == {n1, n2}
TwoKeys == {k1, k2}
Texts == {a, Blank}
FirstTyped == {[id |-> a, secret |-> a], [id |-> a, secret |-> Blank]}
Rates == {0, 1}
\* The administrator has set a key, and nothing else yet; or nobody has set a key.
KeyOnly == {[id |-> None, secret |-> None, key |-> k, rate |-> 0] : k \in TwoKeys}
ButKey == {[id |-> None, secret |-> None, key |-> None, rate |-> 1]}
KeyOrNot == KeyOnly \cup ButKey
AllConfigFaults == {"start", "load", "register", "save", "restart"}

\* Sound: nodes, and keys, are interchangeable, here and below.
Symmetric == Permutations(TwoNodes) \cup Permutations(TwoKeys)

InitClient ==
    /\ part \in {"RateLimit", "Settings", "Keys"}
    /\ Init /\ (part = "RateLimit" \/ service = [c \in Caller |-> docs])
    /\ ConfigInit /\ (saved \in ButKey <=> part = "Keys")

\* One node at a time, and nobody touches the key.
OneNode ==
    /\ Cardinality({n \in Node : up'[n] # "off"}) <= 1
    /\ saved'.key = saved.key /\ callback' = NoCallback

\* Only keys change, without the wizard; no node fails to start, and no hook fails.
OnlyKeys ==
    /\ CredentialsOf(saved') = NoCredentials /\ saved'.rate = 1
    /\ step' = "none" /\ behind' = {} /\ \A n \in Node : up'[n] # "failed"

NextClient ==
    \/ part = "RateLimit" /\ Next /\ UNCHANGED <<configVars, part>>
    \/ /\ ConfigNext /\ UNCHANGED <<vars, part>>
       /\ (part = "Settings" /\ OneNode) \/ (part = "Keys" /\ OnlyKeys)

SpecClient == InitClient /\ [][NextClient]_allVars
=============================================================================
