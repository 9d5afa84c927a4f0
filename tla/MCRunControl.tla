----------------------------- MODULE MCRunControl -----------------------------
(* Instances of RunControl for TLC: the routes that are walked, the bounds on *)
(* what users and faults do, and the symmetry of the invariant runs.          *)
EXTENDS RunControlClaims, RunControlGates, TLC

CONSTANTS t1, t2, t3, t4, u1, u2, w1, w2

Slots  == Permutations(Tasks) \cup Permutations(Users) \cup Permutations(Workers)

All(wt) == [r \in Runs |-> wt]
Bugfix   == All("bugfix")
Refactor == All("refactor")
Feature  == All("feature")
Devops   == All("devops")

May(ops) == [op \in BudgetOps |-> IF op \in ops THEN 1 ELSE 0]

NoFault    == May({})
Recovery   == May({"restart", "orchCrash"})
Mishaps    == May({"cancel", "workerCrash", "jobRejected", "walkerError", "loopError",
                   "webCrash", "lateAnswer"})
Gated      == May({"cancel", "workerCrash", "jobRejected"})
OneRestart == May({"restart"})
BrokerOnly == May({"workerCrash", "jobRejected"})
===============================================================================
