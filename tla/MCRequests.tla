------------------------------- MODULE MCRequests -------------------------------
(***************************************************************************)
(* Small instances of the components that share no state with each other:  *)
(* FileCreation, Uploads and Texts, which answer a user, and FileActivity, *)
(* which writes to him.  Each behaviour is one of one of them, so that no  *)
(* run pays for their product.                                             *)
(***************************************************************************)
EXTENDS MCFileCreation, Uploads, Texts, MCFileActivity

CONSTANTS f1, f2, f3, c1, c2

VARIABLE part  \* the component of this behaviour

Files == {f1, f2, f3}
Comments == {c1, c2}
Spaces == {"blank", "tab"}
Words == {"/google-drive", "notifications", "start", "stop"}

InitRequests ==
    /\ part \in {"FileCreation", "Uploads", "Texts", "FileActivity"}
    /\ Init /\ (part = "FileCreation" \/ members = {})
    /\ UploadsInit /\ TextsInit
    /\ ActivityInit /\ (part = "FileActivity" \/ viewed = 0)

\* The bots neither join the channel nor leave it: others do.
BotsStay == members' \cap Bots = members \cap Bots

NextRequests ==
    \/ /\ part = "FileCreation" /\ Next /\ BotsStay
       /\ UNCHANGED <<uploadVars, textVars, activityVars, part>>
    \/ part = "Uploads" /\ UploadsNext /\ UNCHANGED <<vars, textVars, activityVars, part>>
    \/ part = "Texts" /\ TextsNext /\ UNCHANGED <<vars, uploadVars, activityVars, part>>
    \/ part = "FileActivity" /\ ActivityNext /\ UNCHANGED <<vars, uploadVars, textVars, part>>

SpecRequests ==
    InitRequests /\ [][NextRequests]_<<vars, uploadVars, textVars, activityVars, part>>
=============================================================================
