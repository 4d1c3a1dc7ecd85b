\* Overlay whose bank keeper calls may fail during Commit.
CONSTANTS
    a1 = a1
    a2 = a2
    Accts <- MCAccts
    MaxBal = 2
    MaxFrames = 2
    MaxChanges = 2
    LedgerMayFail = TRUE
    Nil = Nil

SPECIFICATION Spec

PROPERTY AbsSpec

CHECK_DEADLOCK FALSE
