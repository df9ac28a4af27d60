SPECIFICATION FairSpec
CONSTANTS
    Writers = {w1, w2}
    NoOne = NoOne
    Capacity = 4
    BodySizes <- MCBodySizes
    MaxAppends = 2
INVARIANTS TypeOK LockDiscipline StaysInStore LossNeedsRace
PROPERTIES HeaderLast AppendsEnd
