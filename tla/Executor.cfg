SPECIFICATION Spec
CONSTANTS
    w1 = w1  w2 = w2
    Workers = {w1, w2}
    WorkTypesSeen = {"bugfix", "transformation"}
    Files = {"patch-summary.md", "contract-verdict.json", "verdict.json"}
    Bases <- Seen
    Budget <- TwoMishaps
SYMMETRY Symmetry
CONSTRAINT RedeliveryAlone
INVARIANTS
    TypeOK
    WorkIsKept
    VerdictIsOfThisCode
    
    RowsBacked
CHECK_DEADLOCK FALSE
