---------------------------- MODULE MCEthTxPool ----------------------------
(***************************************************************************)
(* Model-checking instance of EthTxPool.  Sender s1 has two EVM            *)
(* transactions for nonce 0 (a replacement pair), one for nonce 1 and a    *)
(* Cosmos transaction for nonce 1; the reserved account has one EVM        *)
(* transaction.  Sender s2 has one EVM transaction for nonce 0, so three   *)
(* slots compete for a capacity of two.                                    *)
(***************************************************************************)
EXTENDS EthTxPool, TLC

CONSTANTS s1, s2, rsv, tA, tB, tC, tD, tE, tR

MCTxs == {tA, tB, tC, tD, tE, tR}
MCSenders == {s1, s2, rsv}
MCSender == (tA :> s1 @@ tB :> s1 @@ tC :> s1 @@ tD :> s1 @@ tE :> s2 @@ tR :> rsv)
MCNonce == (tA :> 0 @@ tB :> 0 @@ tC :> 1 @@ tD :> 1 @@ tE :> 0 @@ tR :> 0)
MCIsEth == (tA :> TRUE @@ tB :> TRUE @@ tC :> TRUE @@ tD :> FALSE @@ tE :> TRUE @@ tR :> TRUE)

=============================================================================
