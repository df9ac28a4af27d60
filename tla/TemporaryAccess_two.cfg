SPECIFICATION FairSpec
CONSTANTS
    Clients = {c1, c2}
    NoOne = NoOne
    MaxSlice = 4
    Codes <- MCCodes
    FailThreshold = 2
    MaxAttempts = 3
INVARIANTS TypeOK RefusalsCounted
PROPERTIES ImplementsGate AttemptsEnd
