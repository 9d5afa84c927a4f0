SPECIFICATION Spec
CONSTANTS
    u1 = u1  u2 = u2  p1 = p1  p2 = p2
    Projects = {p1, p2}
    Repos = {1, 2}
    Presets = {1, 2}
    Runs = {1, 2}
    Users = {u1, u2}
    Configs <- SomeConfigs
    Seeds <- OneSeed
    Base <- TwoAgents
    Budget <- Few
SYMMETRY Symmetry
INVARIANTS
    TypeOK
    RunsHaveTheirRepos
    OneRepoPerProject
    ActiveRunsSurvive
    DisconnectCompletes
    RunsAsResolved
CHECK_DEADLOCK FALSE
