\* Admission pool: consistency of the delegate pool with the EVM cache and index.
CONSTANTS
    s1 = s1
    s2 = s2
    rsv = rsv
    tA = tA
    tB = tB
    tC = tC
    tD = tD
    tE = tE
    tR = tR
    Txs <- MCTxs
    Senders <- MCSenders
    Sender <- MCSender
    Nonce <- MCNonce
    IsEth <- MCIsEth
    Reserved = rsv
    MaxTx = 2
    MaxNonce = 2
    None = None
    WrapNilIsNil = TRUE

SPECIFICATION Spec




INVARIANT OneCachedTxPerSlot
