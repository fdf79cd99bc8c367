CONSTANTS
    MaxMounts = 4
SPECIFICATION Spec
\* The page may rest with its socket open and nothing to do.
CHECK_DEADLOCK FALSE
INVARIANT
    TypeOK
    InitialRequestSent
    IInv
PROPERTY
    SessionRefined
    ConnectedByCurrent
