SPECIFICATION Spec
CONSTANTS
    Writers = {w1}
    NoOne = NoOne
    Capacity = 6
    BodySizes <- MCBodySizes
    MaxAppends = 3
INVARIANTS DeliveredKept
PROPERTIES ImplementsLog
