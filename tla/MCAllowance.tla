---------------------------- MODULE MCAllowance ----------------------------
(* Model-checking instance of Allowance: up to two grants.                 *)
EXTENDS Allowance

=============================================================================
