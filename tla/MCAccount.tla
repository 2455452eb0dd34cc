------------------------------- MODULE MCAccount -------------------------------
(***************************************************************************)
(* A small instance of Account, and of WatchChannel alone where it can be  *)
(* larger.  A behaviour is of one of two parts: "delivery", where webhooks *)
(* race with each other and a command, and the user's account is left out, *)
(* and "account", where the user connects and disconnects while at most    *)
(* one webhook runs beside one command or worker, and no save is lost.     *)
(***************************************************************************)
EXTENDS MCWatchChannel, Account

VARIABLE part

OneAtATime == Cardinality(Busy(Cmds \cup Workers)) <= 1 /\ Cardinality(Busy(Hooks)) <= 1
Small == head' <= 2 /\ redo' = {}

InitParts == AccountInit /\ part \in {"delivery", "account"}
NextParts ==
    \/ part = "delivery" /\ Next /\ Busy(Workers) = {} /\ UNCHANGED <<account, part>>
    \/ part = "account" /\ AccountNext /\ OneAtATime /\ Small /\ UNCHANGED part
SpecParts == InitParts /\ [][NextParts]_<<accountVars, part>>
=============================================================================
