----------------------------- MODULE MCRefreshJob -----------------------------
(***************************************************************************)
(* Small instances of RefreshJob.                                          *)
(***************************************************************************)
EXTENDS RefreshJob

CONSTANTS g1, g2

TwoGoroutines == {g1, g2}
ButFirst == 2 .. NKeys     \* key 1 is a token, say
NoJobFaults == {}
AllJobFaults == {"delete", "start", "kv"}
EitherUnit == {1, 1000}
Milliseconds == {1000}
=============================================================================
