------------------------------- MODULE Coins -------------------------------
(***************************************************************************)
(* Coin arguments of the bank precompile: ExtractCoinsFromInput of         *)
(* src/cosmos/lib/conversions.go, which turns the ABI tuple array          *)
(* (uint256 amount, string denom)[] into sdk.Coins through sdk.NewCoins.   *)
(*                                                                         *)
(* sdk.NewCoins (Cosmos SDK) removes the zero coins, sorts the rest by     *)
(* denom and validates the result: every denom matches the SDK's denom     *)
(* syntax, the denoms are strictly increasing (no duplicate) and every     *)
(* amount is positive.  A coin set that fails validation is a panic, not   *)
(* an error.                                                               *)
(*                                                                         *)
(* A denom is represented by its rank in the byte order of denom strings, *)
(* so that sorting compares ranks; ValidDenoms are the ranks of strings    *)
(* the denom syntax accepts.  An ABI uint256 is never negative.            *)
(***************************************************************************)
EXTENDS Integers, Sequences, SequencesExt, TLC

CONSTANTS
    Denoms,         \* ranks of the denom strings a caller may pass
    ValidDenoms,    \* the ranks whose string passes sdk.ValidateDenom
    CoinAmounts     \* amounts a caller may pass

ASSUME ValidDenoms \subseteq Denoms /\ Denoms \subseteq Int

\* One element of the ABI argument: libgenerated.CosmosCoin.
EvmCoin == [denom : Denoms, amount : CoinAmounts]

\* A plausible bug: the coins are sanitized without dropping zero amounts.
removeZeroCoinsKeepAll(cs) == cs

\* removeZeroCoins: the coins whose amount is not zero, in input order.
removeZeroCoins(cs) == SelectSeq(cs, LAMBDA c : c.amount # 0)

\* Coins.Validate: valid denoms, strictly increasing, positive amounts.
Validate(cs) ==
    /\ \A i \in DOMAIN cs : cs[i].denom \in ValidDenoms /\ cs[i].amount > 0
    /\ IsSorted([i \in DOMAIN cs |-> cs[i].denom], <)

\* sdk.NewCoins: sanitize (drop zeros, sort by denom), then validate,
\* panicking on an invalid set.
NewCoins(cs) ==
    LET sorted == SortSeq(removeZeroCoins(cs), LAMBDA a, b : a.denom < b.denom)
    IN  IF Validate(sorted) THEN [status |-> "ok", coins |-> sorted]
        ELSE [status |-> "panic", coins |-> <<>>]

(***************************************************************************)
(* ExtractCoinsFromInput: every element becomes an sdk.Coin, NewCoins      *)
(* sanitizes them, and no coin left is ErrInvalidCoin.  The argument is    *)
(* decoded by the ABI, so utils.GetAs never fails here.                    *)
(***************************************************************************)
ExtractCoinsFromInput(in) ==
    LET n == NewCoins(in) IN
    IF n.status = "ok" /\ n.coins = <<>> THEN [status |-> "err", coins |-> <<>>]
    ELSE n

=============================================================================
