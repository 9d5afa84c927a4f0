---------------------------- MODULE MCStageExecutor ----------------------------
(* Instances of StageExecutor for TLC.                                        *)
EXTENDS StageExecutorClaims, TLC

CONSTANTS w1, w2

Symmetry == Permutations(Workers)

\* The base branch of a repository that has code, without or with the files of an
\* earlier run; a transformation begins with an empty target.
Base(code, v) == [work |-> {}, code |-> code, tree |-> [f \in Files \cup {FallbackFile} |->
                     IF f \in DOMAIN v THEN v[f] ELSE 0]]
Fresh     == Base(TRUE, <<>>)
Passed    == Base(TRUE, "verdict.json" :> EarlierPass @@ "patch-summary.md" :> Earlier)
Failed    == Base(TRUE, "verdict.json" :> Earlier @@ "contract-verdict.json" :> EarlierPass)
Seen == [t \in WorkTypesSeen |->
            IF t = "transformation" THEN {Base(FALSE, <<>>)} ELSE {Fresh, Passed, Failed}]
NewRepo == [t \in WorkTypesSeen |-> {Fresh}]

\* Each mishap once, and at most n of them in a behaviour.
Once(n) == [op \in Mishaps |-> IF op = "total" THEN n ELSE 1]
TwoMishaps == Once(2)

\* A job that is delivered again is the only mishap of its behaviour.
RedeliveryAlone ==
    Unspent({"redelivered"}) \/ \A op \in Mishaps \ {"redelivered", "total"} : Unspent({op})

\* A check fails, and nothing else goes wrong.
FailedCheck == [op \in Mishaps |-> IF op \in {"failVerdict", "total"} THEN 1 ELSE 0]
===============================================================================
