--------------------------- MODULE RunControlClaims ---------------------------
(***************************************************************************)
(* What the documentation, the comments and the pages of the repository    *)
(* say of a run, stated over RunControl.  Each of these is refuted by a    *)
(* run of its own: the code does something else.                           *)
(***************************************************************************)
EXTENDS RunControlWalk

\* pipeline/routes.py:87, "Approve safety review before execution": a devops run
\* that is parked before its infra_executor is only resumed when the last safety
\* review was approved.
SafetyReviews(r) ==
    {c \in checkpoints : c.run = r /\ AgentAt(WT(r), c.idx) = 3}

SafetyReviewBeforeExecution ==
    [][LET r == loop.cur.run IN
       ResumeRun /\ status[r] = "awaiting_checkpoint" /\ AgentAt(WT(r), stepIdx[r]) = 4
           => \E c \in SafetyReviews(r) :
                 c.status = "approved" /\ \A d \in SafetyReviews(r) : d.id <= c.id]_vars

\* orchestrator/src/main.py:3, "Polls PostgreSQL for new/resumed runs": a run
\* whose reviewer asked for it to be resumed does not stay parked.
ResumedRunsGoOn ==
    \A r \in Runs : action[r] = "resume" /\ status[r] = "awaiting_checkpoint"
                        ~> status[r] # "awaiting_checkpoint"
===============================================================================
