------------------------------ MODULE Allowance ------------------------------
(***************************************************************************)
(* The allowance query of the bank precompile (src/unnamed/part_000,       *)
(* Contract.Allowance, getHighestAllowance, and GetGrantAsSendAuth of      *)
(* src/cosmos/lib/conversions.go).  The authz grants of an owner to a      *)
(* spender are filtered by expiration against the block time, each live    *)
(* grant must be a SendAuthorization, and the answer is the largest spend  *)
(* limit in the queried denomination, 0 if there is none.                  *)
(*                                                                         *)
(* A grant is a record: its expiration (a time, or NoExp for a nil         *)
(* Expiration), whether its authorization is a SendAuthorization, and      *)
(* SpendLimit.AmountOf(denom), which is 0 when the denom is absent.        *)
(*                                                                         *)
(* The other argument conversion of the precompile, the coins argument of *)
(* Send and Approve (module Coins), is evaluated by ExtractCoins.          *)
(***************************************************************************)
EXTENDS Integers, Sequences, SequencesExt, Coins

CONSTANTS
    Times,      \* block times and expirations, in seconds
    Amounts,    \* spend limits in the queried denom
    MaxGrants,  \* bound on the number of grants returned by the query
    NoExp,      \* a nil Expiration
    MaxCoins    \* bound on the length of a coins argument

Grant == [exp : Times \cup {NoExp}, isSend : BOOLEAN, limit : Amounts]

VARIABLES
    grants,     \* the grants the authz query returned, in order
    blocktime,  \* time.Unix(Block().Time, 0)
    out,        \* what Allowance returned: [err |-> BOOLEAN, value |-> amount]
    coinsIn,    \* the last coins argument
    extracted   \* what ExtractCoinsFromInput made of it

vars == <<grants, blocktime, out, coinsIn, extracted>>

\* A plausible bug: a grant expiring exactly at the block time counts as live.
LiveAtOrAfter(g, bt) == g.exp = NoExp \/ g.exp >= bt

\* grant.Expiration == nil || grant.Expiration.After(blocktime)
Live(g, bt) == g.exp = NoExp \/ g.exp > bt

\* GetGrantAsSendAuth: the send authorizations of the live grants, in
\* order; an error as soon as a live grant is not a SendAuthorization.
GetGrantAsSendAuth(gs, bt) ==
    LET Step(acc, g) ==
            IF acc.err \/ ~Live(g, bt) THEN acc
            ELSE IF ~g.isSend THEN [err |-> TRUE, auths |-> <<>>]
            ELSE [acc EXCEPT !.auths = Append(@, g.limit)]
    IN  FoldLeft(Step, [err |-> FALSE, auths |-> <<>>], gs)

\* getHighestAllowance: the largest amount, starting from 0.
getHighestAllowance(auths) ==
    FoldLeft(LAMBDA m, amount : IF amount > m THEN amount ELSE m, 0, auths)

\* Contract.Allowance after the address conversions and the grants query.
Query(gs, bt) ==
    LET r == GetGrantAsSendAuth(gs, bt) IN
    /\ grants' = gs
    /\ blocktime' = bt
    /\ out' = IF r.err THEN [err |-> TRUE, value |-> 0]
              ELSE [err |-> FALSE, value |-> getHighestAllowance(r.auths)]
    /\ UNCHANGED <<coinsIn, extracted>>

\* The coins argument of Send or Approve, converted before anything else.
ExtractCoins(in) ==
    /\ coinsIn' = in
    /\ extracted' = ExtractCoinsFromInput(in)
    /\ UNCHANGED <<grants, blocktime, out>>

Inputs == BoundedSeq(Grant, MaxGrants)

Init ==
    /\ grants = <<>>
    /\ blocktime \in Times
    /\ out = [err |-> FALSE, value |-> 0]
    /\ coinsIn = <<>>
    /\ extracted = ExtractCoinsFromInput(<<>>)

Next ==
    \/ \E gs \in Inputs, bt \in Times : Query(gs, bt)
    \/ \E in \in BoundedSeq(EvmCoin, MaxCoins) : ExtractCoins(in)

Spec == Init /\ [][Next]_vars

-----------------------------------------------------------------------------
(***************************************************************************)
(* Reference: the allowance of a spender is the largest spend limit among  *)
(* the grants still live at the block time (0 if none); the query fails    *)
(* when a live grant is not a send authorization.                          *)
(***************************************************************************)
Expired(g, bt) == g.exp \in Times /\ g.exp <= bt

AllowanceRef(gs, bt) ==
    LET live == {gs[i] : i \in {j \in DOMAIN gs : ~Expired(gs[j], bt)}} IN
    IF \E g \in live : ~g.isSend THEN [err |-> TRUE, value |-> 0]
    ELSE [err |-> FALSE, value |-> Max({0} \cup {g.limit : g \in live})]

(***************************************************************************)
(* Allowance answers what the reference answers, for every list of grants *)
(* and block time: expired grants never count, and one live non-send      *)
(* grant anywhere in the list makes the query fail.                        *)
(***************************************************************************)
AllowanceCorrect == out = AllowanceRef(grants, blocktime)

(***************************************************************************)
(* The coins a Send or Approve goes on with are exactly the positive coins *)
(* of the argument, in strictly increasing denom order, and the argument   *)
(* is refused as ErrInvalidCoin exactly when it has no positive coin: an   *)
(* approval or send of 0 is an error, never an empty grant or transfer.    *)
(***************************************************************************)
ExtractCoinsCorrect ==
    LET positive == {coinsIn[i] : i \in {j \in DOMAIN coinsIn : coinsIn[j].amount > 0}}
    IN  /\ extracted.status = "ok" =>
              /\ ToSet(extracted.coins) = positive
              /\ \A i, j \in DOMAIN extracted.coins :
                    i < j => extracted.coins[i].denom < extracted.coins[j].denom
        /\ (extracted.status = "err") <=> positive = {}

(***************************************************************************)
(* ExtractCoinsFromInput reports a coins argument it cannot use as         *)
(* ErrInvalidCoin (conversions.go lines 85 and 97): no argument a contract *)
(* can encode makes it panic.                                              *)
(***************************************************************************)
ExtractNeverPanics == extracted.status # "panic"

=============================================================================
