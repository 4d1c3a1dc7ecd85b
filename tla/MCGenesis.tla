------------------------------ MODULE MCGenesis ------------------------------
(* Genesis with the reserved address, two other addresses, one contract     *)
(* code, one storage slot and one non-zero value.                           *)
EXTENDS Genesis

CONSTANTS rsv, x1, x2, c1, k1, v1

MCAddrs == {rsv, x1, x2}
=============================================================================
