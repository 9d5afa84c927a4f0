---------------------------- MODULE MCJobDelivery ----------------------------
\* Jobs of two runs, and any two of the six mishaps, each at most once.
EXTENDS JobDelivery

CONSTANTS w1, w2

TwoRuns   == <<11, 12>>
TwoOfThem == [op \in BudgetOps |-> IF op = "any" THEN 2 ELSE 1]
===============================================================================
