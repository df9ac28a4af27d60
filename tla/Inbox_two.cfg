SPECIFICATION FairSpec
CONSTANTS
    Programs = {p1, p2}
    TrialDays = 1
    MaxDay = 1
    MaxFiles = 2
    MaxRuns = 2
INVARIANTS TypeOK StoredInOrder GateHolds TrialKept WindowGone
PROPERTIES DeliveriesEnd
