----------------------------- MODULE PipelineWalk -----------------------------
(***************************************************************************)
(* What the orchestrator promises of a walk, without its queries, queues   *)
(* and tasks: a run is walked by nobody or by one walker, from the stage   *)
(* its row marks; the walker stays at a stage until the agent of that very *)
(* stage has given a verdict; a failed check leads back to the rollback    *)
(* target and nowhere else, an unconditional gate is never walked through, *)
(* and only a walk past the last stage opens a merge request.  Walkers may *)
(* give up at any time, and users may delete a run or send it back to its  *)
(* beginning.  RunControl implements this (RunControlWalk).                *)
(***************************************************************************)
EXTENDS PipelineRoutes

CONSTANTS Runs, WorkTypeOf, Walkers

VARIABLES
    row,       \* "unborn", "stored" or "deleted"
    mark,      \* the stage at which the run would be taken up
    walk,      \* what each walker is doing
    released   \* runs with a merge request

vars == <<row, mark, walk, released>>

\* verdict: of the stage the walker is at, once its agent has answered.
At(r, i, v) == [run |-> r, idx |-> i, verdict |-> v]
Unanswered  == "unanswered"
Nowhere     == At(0, 0, Unanswered)

Away(p)      == walk[p] = Nowhere
Waiting(p)   == ~Away(p) /\ walk[p].verdict = Unanswered
Reported(p)  == ~Away(p) /\ walk[p].verdict # Unanswered

WT(p)    == WorkTypeOf[walk[p].run]
Stage(p) == AgentAt(WT(p), walk[p].idx)
OnRoute(p) == walk[p].idx < RouteLen(WT(p))

\* A row that is gone keeps no mark.
Marked(r, i) == mark' = IF row[r] = "stored" THEN [mark EXCEPT ![r] = i] ELSE mark
Moved(p, w)  == walk' = [walk EXCEPT ![p] = w]

Init ==
    /\ row = [r \in Runs |-> "unborn"]
    /\ mark = [r \in Runs |-> 0]
    /\ walk = [p \in Walkers |-> Nowhere]
    /\ released = {}

File(r) ==
    /\ row[r] = "unborn"
    /\ row' = [row EXCEPT ![r] = "stored"]
    /\ UNCHANGED <<mark, walk, released>>

Delete(r) ==
    /\ row' = [row EXCEPT ![r] = "deleted"]
    /\ mark' = [mark EXCEPT ![r] = 0]
    /\ UNCHANGED <<walk, released>>

SendBack(r) == Marked(r, 0) /\ UNCHANGED <<row, walk, released>>

\* A run nobody walks is taken up where its row says.
TakeUp(p, r) ==
    /\ Away(p) /\ row[r] = "stored"
    /\ \A q \in Walkers : walk[q].run # r
    /\ Moved(p, At(r, mark[r], Unanswered))
    /\ UNCHANGED <<row, mark, released>>

\* The agent of the stage, and no other, has answered.
Report(p) ==
    /\ Waiting(p) /\ OnRoute(p)
    /\ \E v \in ParsedVerdicts(AgentsRegistry(WT(p))[Stage(p)]) \cup {NoVerdict} :
          Moved(p, At(walk[p].run, walk[p].idx, v))
    /\ UNCHANGED <<row, mark, released>>

Failed(p) == walk[p].verdict \in FAIL_VERDICTS

\* The stage has no gate, or none at some risk level.
Pass(p) ==
    /\ Reported(p) /\ ~Failed(p)
    /\ \E risk \in RiskLevels : ~ShouldCheckpoint(Stage(p), WT(p), risk)
    /\ Marked(walk[p].run, walk[p].idx + 1)
    /\ Moved(p, At(walk[p].run, walk[p].idx + 1, Unanswered))
    /\ UNCHANGED <<row, released>>

\* The walker leaves the run at its gate, to be taken up behind it.
Park(p) ==
    /\ Reported(p) /\ ~Failed(p)
    /\ \E risk \in RiskLevels : ShouldCheckpoint(Stage(p), WT(p), risk)
    /\ Marked(walk[p].run, walk[p].idx + 1)
    /\ Moved(p, Nowhere)
    /\ UNCHANGED <<row, released>>

StepBack(p) ==
    LET target == RollbackTarget(Stage(p), WT(p))
        i == FindStepIndex(WT(p), target) IN
    /\ Reported(p) /\ Failed(p) /\ target # NoTarget
    /\ Marked(walk[p].run, i)
    /\ Moved(p, At(walk[p].run, i, Unanswered))
    /\ UNCHANGED <<row, released>>

Release(p) ==
    /\ Waiting(p) /\ ~OnRoute(p)
    /\ released' = released \cup {walk[p].run}
    /\ UNCHANGED <<row, mark, walk>>

\* The route is walked, the run given up, cancelled or lost with its process.
Leave(left) ==
    /\ walk' = [p \in Walkers |-> IF p \in left THEN Nowhere ELSE walk[p]]
    /\ UNCHANGED <<row, mark, released>>

Next ==
    \/ \E r \in Runs : File(r) \/ Delete(r) \/ SendBack(r)
    \/ \E p \in Walkers :
          \/ \E r \in Runs : TakeUp(p, r)
          \/ Report(p) \/ Pass(p) \/ Park(p) \/ StepBack(p) \/ Release(p)
    \/ \E left \in SUBSET Walkers : Leave(left)

Spec == Init /\ [][Next]_vars
===============================================================================
