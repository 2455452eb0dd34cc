---------------------------- MODULE MCOAuthConnect ----------------------------
(***************************************************************************)
(* Small instances of OAuthConnect: two attempts on one node, callbacks on *)
(* either of two nodes.                                                    *)
(***************************************************************************)
EXTENDS OAuthConnect, TLC

CONSTANTS a1, a2, b1, b2, n1, n2

OneAttempt == {a1}
TwoAttempts == {a1, a2}
TwoNodes == {n1, n2}
OneCallback == {b1}
TwoCallbacks == {b1, b2}
HomeDef == (a1 :> n1) @@ (b1 :> n1) @@ (IF Attempt = TwoAttempts THEN a2 :> n1 ELSE <<>>)
           @@ (IF Callback = TwoCallbacks THEN b2 :> n2 ELSE <<>>)
DeleteFails == {"delete"}
AllFaults == {"delete", "encrypt", "close"}
=============================================================================
