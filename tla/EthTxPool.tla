------------------------------ MODULE EthTxPool ------------------------------
(***************************************************************************)
(* The admission pool of the EVM module (src/unnamed/part_001, type        *)
(* EthTxPool): a wrapper of the SDK's PriorityNonceMempool that rejects    *)
(* transactions signed by the reserved account and stale nonces, and       *)
(* keeps, for EVM transactions, a cache hash -> tx (ethTxCache) and an     *)
(* index sender -> nonce -> hash (nonceToHash).                            *)
(*                                                                         *)
(* Insert and Remove hold etp.mu for their whole body, the delegate pool   *)
(* call included, so each is one atomic step.  Between them, blocks       *)
(* advance the senders' state nonces.                                      *)
(*                                                                         *)
(* The delegate pool is not in this repository; it is modelled from the   *)
(* spec (section 4.2): one transaction per (sender, nonce) slot, a         *)
(* capacity, a replacement rule that may accept or refuse a transaction    *)
(* for an occupied slot, any other refusal of its own, and Remove that     *)
(* takes out whatever transaction holds the slot of its argument.          *)
(***************************************************************************)
EXTENDS Naturals, FiniteSets

CONSTANTS
    Txs,            \* transactions (their hashes)
    Senders,        \* signer accounts
    Sender,         \* Sender[t]: signer of t
    Nonce,          \* Nonce[t]: nonce of t
    IsEth,          \* IsEth[t]: GetAsEthTx(t) # nil
    Reserved,       \* core.ReservedAddress
    MaxTx,          \* capacity of the delegate pool
    MaxNonce,       \* bound on the state nonces
    None,           \* absent entry of nonceToHash
    WrapNilIsNil    \* errorslib.Wrap(nil, msg) returns nil

ASSUME Reserved \in Senders
ASSUME Sender \in [Txs -> Senders] /\ Nonce \in [Txs -> 0..MaxNonce]
ASSUME IsEth \in [Txs -> BOOLEAN] /\ None \notin Txs /\ WrapNilIsNil \in BOOLEAN

VARIABLES
    pool,           \* transactions held by the delegate PriorityNonceMempool
    ethTxCache,     \* hashes with an entry in etp.ethTxCache
    nonceToHash,    \* nonceToHash[s][n]: hash indexed for (s, n), or None
    stateNonce,     \* nonce of each sender in the state (etp.nr.GetNonce)
    result          \* the call that returned last: the path it took through
                    \* the handler, and whether it returned an error

vars == <<pool, ethTxCache, nonceToHash, stateNonce, result>>

Nonces == 0..MaxNonce
Paths == {"ok", "reservedSigner", "poolRejected", "nonceTooLow", "notFound"}

Result(call, t, path, err) == [call |-> call, tx |-> t, path |-> path, err |-> err]

SameSlot(t, u) == Sender[t] = Sender[u] /\ Nonce[t] = Nonce[u]

-----------------------------------------------------------------------------
(* The delegate pool (spec_modelled).                                      *)

\* What PriorityNonceMempool.Insert(t) may do: [ok, pool after].
PoolInsertOutcomes(t) ==
    LET old == {u \in pool : SameSlot(t, u)}
        accepted ==
            IF old # {} THEN {(pool \ old) \cup {t}}
            ELSE IF Cardinality(pool) < MaxTx THEN {pool \cup {t}} ELSE {}
    IN  {[ok |-> FALSE, pool |-> pool]} \cup {[ok |-> TRUE, pool |-> p] : p \in accepted}

\* PriorityNonceMempool.Remove(t): removes the occupant of t's slot.
PoolRemove(p, t) == [ok |-> \E u \in p : SameSlot(t, u),
                     pool |-> {u \in p : ~SameSlot(t, u)}]

-----------------------------------------------------------------------------
\* errorslib.Wrap(e, msg) for e non-nil (isErr) or nil: whether it errs.
Wrap(isErr) == isErr \/ ~WrapNilIsNil

\* checkTxSigner: no signer of t is the reserved account.
checkTxSigner(t) == Sender[t] # Reserved

\* A plausible bug: the new hash is cached before the old slot's hash is
\* deleted, so re-inserting the cached transaction drops it.
CacheAddThenDelete(cache, old, new) == (cache \cup {new}) \ {old}

\* A plausible bug: swapped arguments cache the slot's old hash (possibly
\* the zero hash of an empty slot) and drop the new one.
CacheReplaceSwapped(cache, old, new) == (cache \ {new}) \cup {old}

\* Delete the hash indexed for the slot, then cache the new hash.
CacheReplace(cache, old, new) == (cache \ {old}) \cup {new}

(***************************************************************************)
(* Insert(t): signer check, delegate insert, then for an EVM transaction   *)
(* the nonce check (removing t again when stale) and the cache update.     *)
(***************************************************************************)
Insert(t) ==
    LET s == Sender[t]
        n == Nonce[t]
    IN
    \/ /\ ~checkTxSigner(t)
       /\ result' = Result("insert", t, "reservedSigner", TRUE)
       /\ UNCHANGED <<pool, ethTxCache, nonceToHash, stateNonce>>
    \/ /\ checkTxSigner(t)
       /\ \E o \in PoolInsertOutcomes(t) :
          \/ /\ ~o.ok
             /\ result' = Result("insert", t, "poolRejected", TRUE)
             /\ UNCHANGED <<pool, ethTxCache, nonceToHash>>
          \/ /\ o.ok
             /\ ~IsEth[t]
             /\ pool' = o.pool
             /\ result' = Result("insert", t, "ok", FALSE)
             /\ UNCHANGED <<ethTxCache, nonceToHash>>
          \/ /\ o.ok
             /\ IsEth[t]
             /\ stateNonce[s] > n
             /\ LET rm == PoolRemove(o.pool, t) IN
                /\ pool' = rm.pool
                /\ result' = Result("insert", t, "nonceTooLow", Wrap(~rm.ok))
             /\ UNCHANGED <<ethTxCache, nonceToHash>>
          \/ /\ o.ok
             /\ IsEth[t]
             /\ stateNonce[s] <= n
             /\ pool' = o.pool
             /\ ethTxCache' = CacheReplace(ethTxCache, nonceToHash[s][n], t)
             /\ nonceToHash' = [nonceToHash EXCEPT ![s][n] = t]
             /\ result' = Result("insert", t, "ok", FALSE)
       /\ UNCHANGED stateNonce

\* A plausible bug: Remove forgets the nonce index entry.
ForgetCacheOnly(cache, idx, t) ==
    [cache |-> cache \ {t}, idx |-> idx]

\* Remove's cleanup: t's hash leaves the cache, t's slot leaves the index.
ForgetTx(cache, idx, t) ==
    [cache |-> cache \ {t},
     idx   |-> [idx EXCEPT ![Sender[t]][Nonce[t]] = None]]

(***************************************************************************)
(* Remove(t): delegate remove, then for an EVM transaction the cache and   *)
(* index cleanup, unconditionally on what the index holds for the slot.    *)
(***************************************************************************)
Remove(t) ==
    LET r == PoolRemove(pool, t) IN
    /\ \/ /\ ~r.ok
          /\ result' = Result("remove", t, "notFound", TRUE)
          /\ UNCHANGED <<pool, ethTxCache, nonceToHash>>
       \/ /\ r.ok
          /\ pool' = r.pool
          /\ LET f == IF IsEth[t] THEN ForgetTx(ethTxCache, nonceToHash, t)
                      ELSE [cache |-> ethTxCache, idx |-> nonceToHash]
             IN /\ ethTxCache' = f.cache
                /\ nonceToHash' = f.idx
          /\ result' = Result("remove", t, "ok", FALSE)
    /\ UNCHANGED stateNonce

\* A block moves a sender's state nonce on (environment).
AdvanceNonce(s) ==
    /\ stateNonce[s] < MaxNonce
    /\ stateNonce' = [stateNonce EXCEPT ![s] = @ + 1]
    /\ UNCHANGED <<pool, ethTxCache, nonceToHash, result>>

Init ==
    /\ pool = {}
    /\ ethTxCache = {}
    /\ nonceToHash = [s \in Senders |-> [n \in Nonces |-> None]]
    /\ stateNonce = [s \in Senders |-> 0]
    /\ result = Result("none", None, "ok", FALSE)

Next ==
    \/ \E t \in Txs : Insert(t) \/ Remove(t)
    \/ \E s \in Senders : AdvanceNonce(s)

Spec == Init /\ [][Next]_vars

-----------------------------------------------------------------------------
(* Properties                                                              *)

TypeOK ==
    /\ pool \subseteq Txs
    /\ ethTxCache \subseteq Txs
    /\ nonceToHash \in [Senders -> [Nonces -> Txs \cup {None}]]
    /\ stateNonce \in [Senders -> Nonces]
    /\ result.path \in Paths /\ result.err \in BOOLEAN

(***************************************************************************)
(* The EVM's view of the pool is complete: every EVM transaction the       *)
(* delegate pool holds is in ethTxCache and is the hash nonceToHash gives  *)
(* for its (sender, nonce).  Replacements, stale-nonce rejections that     *)
(* remove the transaction again, and removals of other transactions of     *)
(* the same slot (a block's copy) must all keep the two in step.           *)
(***************************************************************************)
PoolTxIndexed ==
    \A t \in pool :
        IsEth[t] => t \in ethTxCache /\ nonceToHash[Sender[t]][Nonce[t]] = t

(***************************************************************************)
(* The nonce index never points at a hash the cache has dropped: a lookup  *)
(* by (sender, nonce) always resolves to a transaction.                    *)
(***************************************************************************)
IndexedInCache ==
    \A s \in Senders, n \in Nonces :
        nonceToHash[s][n] # None => nonceToHash[s][n] \in ethTxCache

(***************************************************************************)
(* Spec section 8: an insert whose nonce is below the sender's state nonce *)
(* is always rejected (the caller gets an error, section 7: no silent      *)
(* failures) and never appears in the Tx Cache, whatever the earlier       *)
(* inserts of the same transaction left there.                             *)
(***************************************************************************)
NonceTooLowRejected ==
    result.path = "nonceTooLow" => result.err /\ result.tx \notin ethTxCache

(***************************************************************************)
(* Spec sections 3 and 8: at most one transaction per (sender, nonce) is   *)
(* resolvable through the Tx Cache; a newer insert for the slot makes the  *)
(* old hash unresolvable, whatever removals came in between.               *)
(***************************************************************************)
OneCachedTxPerSlot ==
    \A t, u \in ethTxCache : SameSlot(t, u) => t = u

=============================================================================
