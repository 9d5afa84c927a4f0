----------------------------- MODULE MCRepoAdmin -----------------------------
\* Two agents, one preset that names fields it may and may not override, one
\* that overrides nothing it may, and one of each kind of mishap.
EXTENDS RepoAdmin, TLC

CONSTANTS u1, u2, p1, p2

Symmetry == Permutations(Users) \cup Permutations(Projects)

TwoAgents ==
    [verification |-> [model |-> "sonnet", artifacts_read |-> "spec.md"],
     implementation |-> [model |-> "sonnet", artifacts_read |-> "impact-map.md"],
     pipeline |-> [max_concurrent_runs |-> "2"]]

Some == [implementation |-> [model |-> "opus", artifacts_read |-> "none"],
         verification |-> [max_turns |-> "3"]]
None == [verification |-> [artifacts_read |-> "none"]]
SomeConfigs == {Some, None}
OneSeed     == <<Some>>

Few == [edit |-> 2, disconnect |-> 1, revive |-> 1, any |-> 3]
===============================================================================
