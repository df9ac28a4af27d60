SPECIFICATION FairSpec
CONSTANTS
    Managers = {m1, m2}
    Claude = Claude
    Codex = Codex
    Gateways = {g1}
    Official = Official
    Keys = {k1, k2}
    None = None
    Unset = Unset
    MaxSaves = 2
INVARIANTS TypeOK SavedTogether
PROPERTIES SaveEnds
CHECK_DEADLOCK FALSE
