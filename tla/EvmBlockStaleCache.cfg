CONSTANTS
    a1 = a1
    a2 = a2
    Accts <- MCAccts
    MaxBal = 2
    MaxFrames = 2
    MaxChanges = 2
    LedgerMayFail = FALSE
    Nil = Nil

SPECIFICATION EvmSpec

INVARIANT CommitNeverFails

CHECK_DEADLOCK FALSE
