CONSTANTS
    rsv = rsv
    x1 = x1
    x2 = x2
    c1 = c1
    k1 = k1
    v1 = v1
    Addrs <- MCAddrs
    Reserved = rsv
    Codes = {c1}
    Keys = {k1}
    Vals = {v1}
    MaxNonce = 1
    MaxBal = 1
    NoCode = NoCode
    Zero = Zero

SPECIFICATION Spec

INVARIANT RoundTrip

CHECK_DEADLOCK FALSE
