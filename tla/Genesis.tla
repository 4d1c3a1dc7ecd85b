------------------------------- MODULE Genesis -------------------------------
(***************************************************************************)
(* Genesis import and export of the EVM state plugin                       *)
(* (src/cosmos/x/evm/plugins/state/genesis.go).                            *)
(*                                                                         *)
(* InitGenesis creates the reserved account, then for every allocated      *)
(* account creates it and sets its code, storage and nonce; balances are   *)
(* left to the bank module.  ExportGenesis rebuilds an allocation from     *)
(* the storage iterator (code, bank balance and nonce of every account     *)
(* with storage) and then from the code iterator (code and nonce of every  *)
(* account with code, balance 0 when none was set).                        *)
(*                                                                         *)
(* The plugin's account store (CreateAccount, SetCode, SetState, SetNonce, *)
(* the iterators) is not in this repository: accounts, code, storage and   *)
(* nonces are plain functions here.  Balances are read from the bank.      *)
(***************************************************************************)
EXTENDS Naturals, TLC

CONSTANTS
    Addrs,      \* account addresses, the reserved one included
    Reserved,   \* core.ReservedAddress
    Codes,      \* contract codes
    Keys,       \* storage slots
    Vals,       \* non-zero storage values
    MaxNonce,   \* nonces in 0..MaxNonce
    MaxBal,     \* bank balances in 0..MaxBal
    NoCode,     \* a nil account.Code
    Zero        \* an absent storage slot (the zero hash)

ASSUME Reserved \in Addrs /\ NoCode \notin Codes /\ Zero \notin Vals

\* One account of a genesis allocation (core.GenesisAccount).
GenesisAccount ==
    [code : Codes \cup {NoCode}, storage : [Keys -> Vals \cup {Zero}],
     nonce : 0..MaxNonce, balance : 0..MaxBal]

\* A genesis allocation: an account record for some of the addresses.  A
\* genesis file may allocate the reserved address too; InitGenesis then
\* creates that account a second time.
Allocs == UNION {[A -> GenesisAccount] : A \in SUBSET Addrs}

VARIABLES
    accounts,   \* addresses with an account
    code,       \* code[a], NoCode when none
    storage,    \* storage[a][k], Zero when unset
    nonce,      \* nonce[a]
    bank,       \* bank module balance of each address (not written here)
    alloc,      \* the allocation InitGenesis read
    exported,   \* the allocation ExportGenesis built
    phase       \* "start", "initialised", "exported"

vars == <<accounts, code, storage, nonce, bank, alloc, exported, phase>>

EmptyStorage == [k \in Keys |-> Zero]
HasStorage(a) == \E k \in Keys : storage[a][k] # Zero

-----------------------------------------------------------------------------
\* A plausible bug: the nonce of an allocated account is not set.
SetAccountNoNonce(acc) ==
    [code |-> acc.code, storage |-> acc.storage, nonce |-> 0]

\* The body of InitGenesis's loop for one account: SetCode when the code
\* is not nil, SetState for every storage entry, SetNonce when not 0.
SetAccount(acc) ==
    [code    |-> acc.code,
     storage |-> acc.storage,
     nonce   |-> IF acc.nonce # 0 THEN acc.nonce ELSE 0]

InitGenesis(g) ==
    LET set == [a \in DOMAIN g |-> SetAccount(g[a])] IN
    /\ phase = "start"
    /\ accounts' = accounts \cup {Reserved} \cup DOMAIN g
    /\ code' = [a \in Addrs |-> IF a \in DOMAIN g THEN set[a].code ELSE code[a]]
    /\ storage' = [a \in Addrs |-> IF a \in DOMAIN g THEN set[a].storage ELSE storage[a]]
    /\ nonce' = [a \in Addrs |-> IF a \in DOMAIN g THEN set[a].nonce ELSE nonce[a]]
    /\ alloc' = g
    /\ phase' = "initialised"
    /\ UNCHANGED <<bank, exported>>

\* ExportGenesis's storage pass: every account with storage gets its
\* storage, code, bank balance and nonce.
StoragePass ==
    [a \in {x \in accounts : HasStorage(x)} |->
        [code |-> code[a], storage |-> storage[a],
         nonce |-> nonce[a], balance |-> bank[a]]]

\* ExportGenesis's code pass over the storage pass's result: every account
\* with code gets its code and nonce, and balance 0 if it had none.
CodePass(g) ==
    LET codeAccts == {x \in accounts : code[x] # NoCode} IN
    [a \in DOMAIN g \cup codeAccts |->
        IF a \in DOMAIN g
        THEN [g[a] EXCEPT !.code = code[a], !.nonce = nonce[a]]
        ELSE [code |-> code[a], storage |-> EmptyStorage,
              nonce |-> nonce[a], balance |-> 0]]

ExportGenesis ==
    /\ phase = "initialised"
    /\ exported' = CodePass(StoragePass)
    /\ phase' = "exported"
    /\ UNCHANGED <<accounts, code, storage, nonce, bank, alloc>>

Init ==
    /\ accounts = {}
    /\ code = [a \in Addrs |-> NoCode]
    /\ storage = [a \in Addrs |-> EmptyStorage]
    /\ nonce = [a \in Addrs |-> 0]
    /\ bank \in [Addrs -> 0..MaxBal]
    /\ alloc = <<>>
    /\ exported = <<>>
    /\ phase = "start"

Next ==
    \/ \E g \in Allocs : InitGenesis(g)
    \/ ExportGenesis

Spec == Init /\ [][Next]_vars

-----------------------------------------------------------------------------
\* Allocated accounts that ExportGenesis is meant to carry (spec 4.3).
Carried == {a \in DOMAIN alloc :
              alloc[a].code # NoCode \/ \E k \in Keys : alloc[a].storage[k] # Zero}

(***************************************************************************)
(* Export after import returns, for exactly the allocated accounts with    *)
(* code or storage, the code, storage and nonce of the allocation.         *)
(***************************************************************************)
RoundTrip ==
    phase = "exported" =>
        /\ DOMAIN exported = Carried
        /\ \A a \in Carried :
              /\ exported[a].code = alloc[a].code
              /\ exported[a].storage = alloc[a].storage
              /\ exported[a].nonce = alloc[a].nonce

(***************************************************************************)
(* Spec section 4.3: every exported account carries its balance read from *)
(* the ledger (the bank module).                                           *)
(***************************************************************************)
ExportBalanceFromLedger ==
    phase = "exported" => \A a \in DOMAIN exported : exported[a].balance = bank[a]

=============================================================================
