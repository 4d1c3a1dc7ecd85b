------------------------------ MODULE EvmBlock ------------------------------
(***************************************************************************)
(* One block of EVM execution in which contracts call the bank precompile  *)
(* (src/unnamed/part_000, Contract.Send and Contract.Approve) while the    *)
(* balance overlay of BankManager caches their balances.                   *)
(*                                                                         *)
(* The precompile routes its messages to the bank and authz modules on     *)
(* the block's context: a MsgSend moves coins in the bank at once, under   *)
(* the overlay's dirty balances, and a MsgGrant stores a send              *)
(* authorization.  When the EVM caller is not the sender, Send wraps the   *)
(* MsgSend in an authz MsgExec, which spends from the sender's grant to    *)
(* the caller.                                                             *)
(*                                                                         *)
(* The message handlers belong to the Cosmos SDK, not to this repository:  *)
(* BankSend and ExecAccept model what they do with a single denomination.  *)
(* A handler that fails changes nothing.                                   *)
(***************************************************************************)
EXTENDS BankManager

VARIABLES
    grants,     \* grants[o][s]: send authorization of granter o to grantee s
    approved,   \* approved[o][s]: spend limit of the last Approve (history)
    used        \* used[o][s]: coins s moved out of o since then (history)

pVars == <<grants, approved, used>>
evmVars == <<vars, pVars>>

NoGrant == [limit |-> 0, allow |-> {}]
Limit(o, s) == grants[o][s].limit

-----------------------------------------------------------------------------
\* ExtractCoinsFromInput: sdk.NewCoins drops zero amounts, and no coin
\* left is ErrInvalidCoin.  ABI uint256 amounts are never negative.
ValidCoins(x) == x > 0

\* The bank module's MsgSend handler (SDK): insufficient funds fail.
BankSend(b, from, to, x) ==
    IF b[from] >= x
    THEN [ok |-> TRUE, bank |-> [b EXCEPT ![from] = @ - x, ![to] = @ + x]]
    ELSE [ok |-> FALSE, bank |-> b]

\* SendAuthorization.Accept under MsgExec (SDK): the recipient must be on
\* the allow list and the spend limit must cover the amount; a limit spent
\* to zero deletes the grant.
ExecAccept(g, to, x) ==
    IF to \in g.allow /\ g.limit >= x
    THEN [ok |-> TRUE,
          grant |-> IF g.limit = x THEN NoGrant ELSE [g EXCEPT !.limit = @ - x]]
    ELSE [ok |-> FALSE, grant |-> g]

\* A plausible bug: the MsgSend is routed as it is, whoever the caller.
RouteSendUnwrapped(caller, from) == "MsgSend"

\* Send's routing: a MsgSend when the caller is the sender, otherwise the
\* MsgSend wrapped in an authz MsgExec with the caller as grantee.
RouteSend(caller, from) == IF caller = from THEN "MsgSend" ELSE "MsgExec"

(***************************************************************************)
(* Contract.Send(from, to, coins) called by caller: extract the coins,     *)
(* route the message, run its handler.                                     *)
(***************************************************************************)
PrecompileSend(caller, from, to, x) ==
    LET r == BankSend(bank, from, to, x)
        a == ExecAccept(grants[from][caller], to, x)
    IN
    /\ phase = "exec"
    /\ \/ /\ ~ValidCoins(x)
          /\ UNCHANGED <<bank, grants>>
       \/ /\ ValidCoins(x)
          /\ RouteSend(caller, from) = "MsgSend"
          /\ bank' = r.bank
          /\ UNCHANGED grants
       \/ /\ ValidCoins(x)
          /\ RouteSend(caller, from) = "MsgExec"
          /\ IF a.ok /\ r.ok
             THEN /\ bank' = r.bank
                  /\ grants' = [grants EXCEPT ![from][caller] = a.grant]
             ELSE UNCHANGED <<bank, grants>>
    /\ used' = IF caller # from /\ bank'[from] < bank[from]
               THEN [used EXCEPT ![from][caller] = @ + x] ELSE used
    /\ UNCHANGED <<states, moduleBal, supply, phase, revertId, approved>>

\* The authorization Approve grants: the amount as spend limit, with the
\* spender as the only allowed recipient, and no expiration.
ApproveGrant(spender, x) == [limit |-> x, allow |-> {spender}]

(***************************************************************************)
(* Contract.Approve(spender, coins) called by caller: a MsgGrant from the  *)
(* caller to the spender, replacing any earlier grant.  The authz module   *)
(* refuses a grant to oneself.                                             *)
(***************************************************************************)
Approve(caller, spender, x) ==
    /\ phase = "exec"
    /\ \/ /\ ValidCoins(x) /\ caller # spender
          /\ grants' = [grants EXCEPT ![caller][spender] = ApproveGrant(spender, x)]
          /\ approved' = [approved EXCEPT ![caller][spender] = x]
          /\ used' = [used EXCEPT ![caller][spender] = 0]
       \/ /\ ~ValidCoins(x) \/ caller = spender
          /\ UNCHANGED pVars
    /\ UNCHANGED vars

EvmInit ==
    /\ Init
    /\ grants = [o \in Accts |-> [s \in Accts |-> NoGrant]]
    /\ approved = [o \in Accts |-> [s \in Accts |-> 0]]
    /\ used = [o \in Accts |-> [s \in Accts |-> 0]]

EvmNext ==
    \/ Next /\ UNCHANGED pVars
    \/ \E c, f, t \in Accts, x \in 0..MaxBal : PrecompileSend(c, f, t, x)
    \/ \E c, s \in Accts, x \in 0..MaxBal : Approve(c, s, x)

EvmSpec == EvmInit /\ [][EvmNext]_evmVars

-----------------------------------------------------------------------------
(***************************************************************************)
(* A spender never moves more of an owner's coins through the precompile  *)
(* than the owner last approved: what it moved since then plus the limit  *)
(* left in the grant is the approved amount.  Send must wrap every send   *)
(* by someone other than the sender in MsgExec, and Approve must store     *)
(* the grant under the right granter and grantee, for this to hold over   *)
(* any sequence of approvals and sends of several callers.                 *)
(***************************************************************************)
GrantAccounting ==
    \A o, s \in Accts : o # s => used[o][s] + Limit(o, s) = approved[o][s]

=============================================================================
