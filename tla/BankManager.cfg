\* Overlay with a bank keeper that never fails on its own.
CONSTANTS
    a1 = a1
    a2 = a2
    Accts <- MCAccts
    MaxBal = 2
    MaxFrames = 3
    MaxChanges = 3
    LedgerMayFail = FALSE
    Nil = Nil

SPECIFICATION Spec

INVARIANT TypeOK
INVARIANT DirtyMatchesJournal
INVARIANT CommitNeverFails

PROPERTY AbsSpec

CHECK_DEADLOCK FALSE
