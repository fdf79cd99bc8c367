CONSTANTS
    MaxMounts = 4
SPECIFICATION Spec
CHECK_DEADLOCK FALSE
INVARIANT
    ShownStatusCurrent
