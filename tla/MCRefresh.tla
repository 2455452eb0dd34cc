------------------------------- MODULE MCRefresh -------------------------------
(***************************************************************************)
(* A small instance of what starts and stops channels: the commands and    *)
(* workers of WatchChannel on one user's record, and RefreshJob, the job   *)
(* that gives the workers their users.  They share no state, so each       *)
(* behaviour is one of one of them, and no run pays for their product.     *)
(***************************************************************************)
EXTENDS MCWatchChannel, MCRefreshJob

VARIABLE part  \* the component of this behaviour

allVars == <<vars, jobVars, part>>

InitRefresh ==
    /\ part \in {"WatchChannel", "RefreshJob"}
    /\ Init
    /\ JobInit /\ (part = "RefreshJob" \/ (present = {} /\ unit = 1))

OfJob(A) == part = "RefreshJob" /\ A /\ UNCHANGED <<vars, part>>

NextRefresh ==
    \/ part = "WatchChannel" /\ Next /\ UNCHANGED <<jobVars, part>>
    \/ OfJob(JobNext)

\* The fairness of JobFairSpec.
SpecRefresh ==
    /\ InitRefresh /\ [][NextRefresh]_allVars
    /\ WF_allVars(OfJob(Main)) /\ \A w \in Worker : WF_allVars(OfJob(WorkerStep(w)))
=============================================================================
