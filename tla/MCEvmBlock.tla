------------------------------ MODULE MCEvmBlock ------------------------------
(* EvmBlock with two accounts, each both a contract calling the precompile  *)
(* and an owner or spender of a grant.                                      *)
EXTENDS EvmBlock

CONSTANTS a1, a2

MCAccts == {a1, a2}
=============================================================================
