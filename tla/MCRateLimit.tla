------------------------------ MODULE MCRateLimit ------------------------------
(***************************************************************************)
(* Small instances of RateLimit: two goroutines of one user, one of        *)
(* another, a service with the limiter and one without.                    *)
(***************************************************************************)
EXTENDS RateLimit, TLC

CONSTANTS u1, u2, g1, g2, g3, drive, docs

Users == {u1, u2}
Services == {drive, docs}
Drive == {drive}
Callers == {g1, g2, g3}
Owners == (g1 :> u1) @@ (g2 :> u1) @@ (g3 :> u2)
SomeDetails == {{"project"}, {"perUser", "help"}}
UsersQuota == {{"perUser"}, {"perUser", "help"}}
WriteFails == {"write"}
NoneFails == {}
=============================================================================
