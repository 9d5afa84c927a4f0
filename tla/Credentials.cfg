SPECIFICATION Spec
CONSTANTS
    w1 = w1  w2 = w2
    Workers = {w1, w2}
    Budget <- Few
SYMMETRY Symmetry
CONSTRAINT OneHalf
INVARIANTS
    TypeOK
    StoredTokenUsable
    LoginReachesJobs
    TokenGoesWithItsUrl
    WalkTokenIsFresh
