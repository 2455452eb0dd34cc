------------------------------ MODULE ChangeFeed ------------------------------
(***************************************************************************)
(* What the watch-channel code promises about Google's change log, with    *)
(* no records, mutexes or requests: a position (the saved page token) per  *)
(* channel that only moves forward, and only over changes that have been   *)
(* processed.  Changes are processed at least once and in order between    *)
(* the position and the end of the log.                                    *)
(***************************************************************************)
EXTENDS Naturals

CONSTANT Chan

VARIABLES
    head,    \* the next position of the log; changes are 1 .. head - 1
    opened,  \* head when the channel was created, 0 before
    handed,  \* the changes processed for the channel
    cursor   \* the channel's position, 0 while it has none

feedVars == <<head, opened, handed, cursor>>

Init ==
    /\ head = 1
    /\ opened = [c \in Chan |-> 0]
    /\ handed = [c \in Chan |-> {}]
    /\ cursor = [c \in Chan |-> 0]

\* A file changes.
Grow ==
    /\ head' = head + 1
    /\ UNCHANGED <<opened, handed, cursor>>

\* Google creates a channel.
Open(c) ==
    /\ opened[c] = 0
    /\ opened' = [opened EXCEPT ![c] = head]
    /\ UNCHANGED <<head, handed, cursor>>

\* The channel gets its position, no later than its creation.
Begin(c, pos) ==
    /\ cursor[c] = 0 /\ opened[c] # 0
    /\ 0 < pos /\ pos <= opened[c]
    /\ cursor' = [cursor EXCEPT ![c] = pos]
    /\ UNCHANGED <<head, opened, handed>>

\* A change is processed, after every earlier one since the position.
Process(c, k) ==
    /\ cursor[c] # 0
    /\ cursor[c] <= k /\ k < head
    /\ \A j \in cursor[c] .. k - 1 : j \in handed[c]
    /\ handed' = [handed EXCEPT ![c] = @ \cup {k}]
    /\ UNCHANGED <<head, opened, cursor>>

\* The position moves over processed changes.
Advance(c, pos) ==
    /\ cursor[c] # 0
    /\ cursor[c] < pos /\ pos <= head
    /\ \A j \in cursor[c] .. pos - 1 : j \in handed[c]
    /\ cursor' = [cursor EXCEPT ![c] = pos]
    /\ UNCHANGED <<head, opened, handed>>

Next ==
    \/ Grow
    \/ \E c \in Chan :
        \/ Open(c)
        \/ \E pos \in 1 .. head : Begin(c, pos) \/ Process(c, pos) \/ Advance(c, pos)

Spec == Init /\ [][Next]_feedVars

\* Every change between a channel's creation and its position was processed.
NothingSkipped ==
    \A c \in Chan : \A k \in Nat :
        opened[c] <= k /\ k < cursor[c] => k \in handed[c]
=============================================================================
