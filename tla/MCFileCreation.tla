----------------------------- MODULE MCFileCreation -----------------------------
(***************************************************************************)
(* Small instances of FileCreation: the second of the users submits.       *)
(***************************************************************************)
EXTENDS FileCreation

CONSTANTS anyone

Users == 1 .. 5
FewUsers == 1 .. 3
Bot == {3}
AllFaults == {"google", "mattermost"}
GoogleFails == {"google"}
=============================================================================
