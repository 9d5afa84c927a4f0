SPECIFICATION Spec
CONSTANTS
    w1 = w1  w2 = w2
    Workers = {w1}
    WorkTypesSeen = {"bugfix"}
    Files = {"patch-summary.md", "contract-verdict.json", "verdict.json"}
    Bases <- NewRepo
    Budget <- FailedCheck
INVARIANTS
    ArtifactsGoToMinIO
CHECK_DEADLOCK FALSE
