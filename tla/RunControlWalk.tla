---------------------------- MODULE RunControlWalk ----------------------------
(***************************************************************************)
(* RunControl implements PipelineWalk: forget the queries, the queues, the *)
(* poll loop and the requests, and what is left of a task is where on the  *)
(* route it is and whether its agent has answered.                         *)
(***************************************************************************)
EXTENDS RunControlInvariant

RowOf(r) == IF status[r] \in {"unborn", "deleted"} THEN status[r] ELSE "stored"

\* A task that has not read its run yet, or is done with it, walks nothing.
WalkOf(f) ==
    IF f.pc \in {"free", "start", "done"}
    THEN [run |-> NoRun, idx |-> 0, verdict |-> "unanswered"]
    ELSE [run |-> f.run, idx |-> f.idx,
          verdict |-> IF f.pc \in Answering THEN f.answer.outcome.verdict
                      ELSE "unanswered"]

Walk_ == INSTANCE PipelineWalk
            WITH Walkers  <- Tasks,
                 row      <- [r \in Runs |-> RowOf(r)],
                 mark     <- stepIdx,
                 walk     <- [t \in Tasks |-> WalkOf(walker[t])],
                 released <- mrs

\* Whatever users, reviewers and failures do, a run is walked as PipelineWalk
\* says: one walker, stage by stage, each on its own agent's verdict, back only
\* to the rollback target, through no unconditional gate, to the merge request
\* only at the end.
FollowsRoute == Walk_!Spec
===============================================================================
