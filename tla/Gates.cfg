SPECIFICATION Spec
CONSTANTS
    t1 = t1  t2 = t2  t3 = t3  t4 = t4
    u1 = u1  u2 = u2
    w1 = w1  w2 = w2
    Runs = {1}
    WorkTypeOf <- Feature
    Users = {u1}
    Tasks = {t1, t2}
    Workers = {w1}
    SeenVerdicts = {"none", "PASS", "FAIL", "FAIL_TEST", "low", "high", "APPROVED"}
    Budget <- Gated
SYMMETRY Slots
INVARIANTS
    GatesHold
    ReleasesApproved
    AttemptsBounded
    GateInv
    CostInv
PROPERTIES
    FollowsRoute
