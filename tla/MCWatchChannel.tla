--------------------------- MODULE MCWatchChannel ---------------------------
(***************************************************************************)
(* Small instances of WatchChannel for TLC.                                *)
(***************************************************************************)
EXTENDS WatchChannel, TLC

CONSTANTS c1, c2, c3,  \* channel IDs
          u1, u2,      \* slash commands
          w1, w2,      \* refresh workers
          h1, h2       \* webhook requests

None == {}
OneChan == {c1}
TwoChans == {c1, c2}
ThreeChans == {c1, c2, c3}
OneCmd == {u1}
TwoCmds == {u1, u2}
OneWorker == {w1}
TwoWorkers == {w1, w2}
OneHook == {h1}
TwoHooks == {h1, h2}
AllFaults == {"write", "crash"}

\* Sound for the safety runs: channels, and processes of one kind, are
\* interchangeable.
Symmetric == Permutations(Chan) \cup Permutations(Cmds)
             \cup Permutations(Workers) \cup Permutations(Hooks)

\* Nothing starts while two processes run, nor a command or worker beside another.
\* Starts are the environment's and not fair, so that leaving some of them out
\* takes nothing from the liveness that is checked.
Busy(procs) == {p \in procs : pc'[p] # "idle"}
AtMostTwo == Cardinality(Busy(Proc)) <= 2 /\ Cardinality(Busy(Cmds \cup Workers)) <= 1
=============================================================================
