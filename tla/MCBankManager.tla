--------------------------- MODULE MCBankManager ---------------------------
(* Model-checking instance of BankManager: two accounts, balances 0..2.    *)
EXTENDS BankManager

CONSTANTS a1, a2

MCAccts == {a1, a2}

=============================================================================
