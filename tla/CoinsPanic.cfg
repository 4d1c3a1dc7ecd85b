\* Coin extraction: an argument with a repeated or malformed denom.
CONSTANTS
    Times = {1, 2}
    Amounts = {0, 1, 2}
    MaxGrants = 2
    NoExp = NoExp
    Denoms = {1, 2, 3}
    ValidDenoms = {1, 2}
    CoinAmounts = {0, 1}
    MaxCoins = 2

SPECIFICATION Spec

INVARIANT ExtractNeverPanics
