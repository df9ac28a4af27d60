SPECIFICATION Spec
CONSTANTS
    Writers = {w1, w2}
    NoOne = NoOne
    Capacity = 4
    BodySizes <- MCBodySizes
    MaxAppends = 3
INVARIANTS DeliveredKept

