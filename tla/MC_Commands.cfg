CONSTANTS
    i1 = i1
    i2 = i2
    o1 = o1
    o2 = o2
    Instr = {i1, i2}
    Orders = {o1, o2}
    InitInstr = i1
    NoOrder = NoOrder
    NoMessage = NoMessage
    MaxUserSteps = 4
    MaxDialogs = 2
    MaxPushes = 2
SPECIFICATION FairSpec
INVARIANTS
    PlaceCorrelated
    IInv
    CancelledNotListed
    CancelInv
PROPERTY
    PlaceSettles
    PlaceLifecycle
