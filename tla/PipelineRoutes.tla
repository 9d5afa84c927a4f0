---------------------------- MODULE PipelineRoutes ----------------------------
(***************************************************************************)
(* The tables of src/pipeline/routes.py: the route of every work type, the *)
(* human gates on it, where a failed verdict sends the walk back to, and   *)
(* the verdicts an agent's artifacts can be parsed into                    *)
(* (src/pipeline/agent.py: parse_verdict).  Agents are their numbers.      *)
(* Indices into a route count from 0, as in the code.                      *)
(***************************************************************************)
EXTENDS Naturals, Sequences

\* get_agents_registry: the agents of each of the three pipelines, by number.
AGENTS == <<"orchestrator", "spec_builder", "architecture_mapper",
            "implementation", "test_contract", "verification",
            "security_policy", "release_gatekeeper">>

TRANSFORM_AGENTS == <<"code_archeologist", "transformation_architect",
                      "feature_mapper", "transform_implementer",
                      "compatibility_checker", "transform_release">>

DEVOPS_AGENTS == <<"infra_analyst", "change_planner", "safety_reviewer",
                   "infra_executor", "health_checker", "ops_reporter">>

WorkTypes == {"bugfix", "refactor", "migration", "feature", "hotfix",
              "transformation", "devops"}

AgentsRegistry(wt) == IF wt = "transformation" THEN TRANSFORM_AGENTS
                      ELSE IF wt = "devops" THEN DEVOPS_AGENTS ELSE AGENTS

\* ROUTES, with the routes of the two other pipelines.
ROUTES == [bugfix         |-> <<1, 2, 4, 5, 6, 8>>,
           refactor       |-> <<1, 3, 4, 5, 6, 8>>,
           migration      |-> <<1, 2, 3, 4, 5, 6, 7, 8>>,
           feature        |-> <<1, 2, 3, 4, 5, 6, 7, 8>>,
           hotfix         |-> <<1, 2, 4, 5, 6, 8>>,
           transformation |-> <<1, 2, 3, 4, 5, 6>>,
           devops         |-> <<1, 2, 3, 4, 5, 6>>]

GetRoute(wt) == ROUTES[wt]

RouteLen(wt) == Len(GetRoute(wt))

\* route[step_idx]
AgentAt(wt, idx) == GetRoute(wt)[idx + 1]

\* The agents after which a human decides: CHECKPOINT_RULES and its two
\* siblings, as the set of agents whose rule holds for the run.
Gates(wt, risk) ==
    IF wt = "transformation" THEN {1, 2, 3, 6}
    ELSE IF wt = "devops" THEN {1, 3, 6}
    ELSE {3, 8} \cup {n \in {2} : wt \in {"feature", "migration", "hotfix"}}
                \cup {n \in {7} : risk \in {"medium", "high"}}

ShouldCheckpoint(n, wt, risk) == n \in Gates(wt, risk)

MAX_ROLLBACKS == 3

FAIL_VERDICTS == {"FAIL", "FAIL_TEST", "FAIL_SPEC"}

\* get_rollback_target returns None.
NoTarget == 0

RollbackTarget(n, wt) ==
    IF wt \in {"transformation", "devops"}
    THEN IF n = 5 THEN 4 ELSE NoTarget
    ELSE IF n \in {5, 6} THEN 4 ELSE NoTarget

\* list.index: the first position of an agent on a route that has it.
FindStepIndex(wt, n) == CHOOSE i \in 0..(RouteLen(wt) - 1) : AgentAt(wt, i) = n

\* parse_verdict returned None.
NoVerdict == "none"

RiskLevels == {"low", "medium", "high"}

\* parse_verdict: what each agent's artifacts can be parsed into, over the
\* vocabulary of the prompts.  An agent without a branch of its own never has a
\* verdict; a missing or unreadable file gives the default of that branch.
VERDICTS == [orchestrator        |-> {NoVerdict, "a work type"},
             architecture_mapper |-> {NoVerdict} \cup RiskLevels,
             test_contract       |-> {"PASS", "FAIL"},
             verification        |-> {"PASS", "PASS_WITH_RISK", "FAIL_SPEC", "FAIL_TEST"},
             security_policy     |-> {"APPROVED", "BLOCKED", "REQUIRES_HUMAN"}]

ParsedVerdicts(agent) ==
    IF agent \in DOMAIN VERDICTS THEN VERDICTS[agent] ELSE {NoVerdict}

Verdicts == {NoVerdict, "PASS", "PASS_WITH_RISK", "FAIL", "FAIL_SPEC", "FAIL_TEST",
             "APPROVED", "BLOCKED", "REQUIRES_HUMAN", "a work type"} \cup RiskLevels
===============================================================================
