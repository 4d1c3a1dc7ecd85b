---------------------------- MODULE BankManager ----------------------------
(***************************************************************************)
(* The EVM balance overlay of the bank plugin                              *)
(* (src/cosmos/x/evm/plugins/state/bank/manager.go, type Manager).         *)
(*                                                                         *)
(* The Manager keeps a stack of frames ("state"): each frame holds a log   *)
(* of balance deltas (balanceChanges) and a cache of net balances          *)
(* (dirtyBalances).  The EVM reads and writes balances through it during   *)
(* a block; Commit replays every delta of every frame, bottom to top,      *)
(* against the bank keeper as mint+send (credit) or send+burn (debit).     *)
(*                                                                         *)
(* The bank keeper is modelled by the balances of the accounts (bank),    *)
(* the balance of the evm module account (moduleBal) and the total supply *)
(* of the denomination.  In this module only Commit changes it.            *)
(***************************************************************************)
EXTENDS Integers, Sequences, SequencesExt

CONSTANTS
    Accts,          \* EVM account addresses
    MaxBal,         \* balances the EVM sets are in 0..MaxBal
    MaxFrames,      \* bound on the height of the frame stack
    MaxChanges,     \* bound on the number of deltas recorded in all frames
    LedgerMayFail,  \* TRUE: any bank keeper call of Commit may return an error
    Nil             \* absent entry of dirtyBalances (a nil *big.Int)

ASSUME MaxBal \in Nat /\ MaxFrames \in Nat \ {0} /\ MaxChanges \in Nat
ASSUME LedgerMayFail \in BOOLEAN

VARIABLES
    states,     \* m.states: sequence of frames, Len(states) is the top
    bank,       \* bank keeper balance of each account in the underlying denom
    moduleBal,  \* bank keeper balance of the evm module account
    supply,     \* total supply of the underlying denom held by Accts and the module
    phase,      \* "exec" while the block executes, "committed"/"failed" after Commit
    revertId    \* argument of the last RevertToSnapshot call, 0 before the first

vars == <<states, bank, moduleBal, supply, phase, revertId>>

Change == [addr : Accts, delta : -MaxBal..MaxBal]
Frame == [balanceChanges : Seq(Change),
          dirtyBalances : [Accts -> 0..MaxBal \cup {Nil}]]

NewFrame == [balanceChanges |-> <<>>, dirtyBalances |-> [a \in Accts |-> Nil]]

(***************************************************************************)
(* getCurState: the stack with a frame pushed when it is empty; every      *)
(* operation below starts with it.                                         *)
(***************************************************************************)
getCurState == IF states = <<>> THEN <<NewFrame>> ELSE states

\* A plausible bug: the balance is read from the bank, ignoring the cache.
BalanceFromBank(st, a) == bank[a]

\* GetBalance's read: the top frame's cached balance, else the bank's.
BalanceIn(st, a) ==
    LET d == Last(st).dirtyBalances[a] IN IF d = Nil THEN bank[a] ELSE d

\* A plausible bug: the cache records the delta instead of the new balance.
RecordDeltaAsBalance(st, a, v, delta) ==
    [st EXCEPT ![Len(st)].balanceChanges = Append(@, [addr |-> a, delta |-> delta]),
               ![Len(st)].dirtyBalances[a] = delta]

\* Append the delta to the top frame's log and cache the new balance.
RecordChange(st, a, v, delta) ==
    [st EXCEPT ![Len(st)].balanceChanges = Append(@, [addr |-> a, delta |-> delta]),
               ![Len(st)].dirtyBalances[a] = v]

\* A plausible bug: frames replayed top to bottom.
AllChangesTopDown(st) ==
    FlattenSeq([i \in DOMAIN st |-> st[Len(st) + 1 - i].balanceChanges])

\* All deltas of stack st in the order Commit replays them: frames bottom
\* to top, each frame's log in the order it was appended.
AllChanges(st) == FlattenSeq([i \in DOMAIN st |-> st[i].balanceChanges])

\* A plausible bug: an off-by-one keeps the frame the snapshot opened.
PopToSizeOffByOne(st, id) == SubSeq(st, 1, id + 1)

\* Stack.PopToSize: keep the id bottom frames.
PopToSize(st, id) == SubSeq(st, 1, id)

-----------------------------------------------------------------------------
(* Operations called by the EVM state plugin during block execution.       *)

GetBalance(a) ==
    /\ phase = "exec"
    /\ states' = getCurState
    /\ UNCHANGED <<bank, moduleBal, supply, phase, revertId>>

\* A write appends its delta to the top frame unless it changes nothing.
SetBalance(a, v) ==
    LET st    == getCurState
        delta == v - BalanceIn(st, a)
    IN  /\ phase = "exec"
        /\ delta # 0 => Len(AllChanges(st)) < MaxChanges
        /\ states' = IF delta = 0 THEN st ELSE RecordChange(st, a, v, delta)
        /\ UNCHANGED <<bank, moduleBal, supply, phase, revertId>>

\* A new frame: a copy of the top frame's cache and an empty log.  The id
\* returned is the height before the push, Len(getCurState).
Snapshot ==
    LET st == getCurState IN
    /\ phase = "exec"
    /\ Len(st) < MaxFrames
    /\ states' = Append(st, [balanceChanges |-> <<>>,
                             dirtyBalances  |-> Last(st).dirtyBalances])
    /\ UNCHANGED <<bank, moduleBal, supply, phase, revertId>>

\* Revert to an id that a Snapshot still open returned.
RevertToSnapshot(id) ==
    /\ phase = "exec"
    /\ states' = PopToSize(states, id)
    /\ revertId' = id
    /\ UNCHANGED <<bank, moduleBal, supply, phase>>

-----------------------------------------------------------------------------
(***************************************************************************)
(* The bank keeper calls of Commit, on a ledger record                     *)
(* [bank |-> ..., mod |-> ..., supply |-> ...].  A send out of an account  *)
(* fails when the account holds less than the amount; with LedgerMayFail   *)
(* any call may fail, at the call numbered failAt.                         *)
(***************************************************************************)
MintCoins(L, x) == [L EXCEPT !.mod = @ + x, !.supply = @ + x]
SendCoinsFromModuleToAccount(L, a, x) == [L EXCEPT !.mod = @ - x, !.bank[a] = @ + x]
SendCoinsFromAccountToModule(L, a, x) == [L EXCEPT !.bank[a] = @ - x, !.mod = @ + x]
BurnCoins(L, x) == [L EXCEPT !.mod = @ - x, !.supply = @ - x]

(***************************************************************************)
(* The replay loop of Commit from the i-th change of chs on: a credit is   *)
(* MintCoins then SendCoinsFromModuleToAccount, a debit is                 *)
(* SendCoinsFromAccountToModule then BurnCoins, a zero delta does nothing. *)
(* Change i makes calls 2i-1 and 2i.  The first error returns at once,     *)
(* with the calls made so far applied.                                     *)
(***************************************************************************)
RECURSIVE Replay(_, _, _, _)
Replay(L, chs, i, failAt) ==
    IF i > Len(chs) THEN [ledger |-> L, ok |-> TRUE]
    ELSE
    LET c == chs[i]
        x == IF c.delta > 0 THEN c.delta ELSE -c.delta
        Fail(L2) == [ledger |-> L2, ok |-> FALSE]
    IN  CASE c.delta > 0 ->
                IF failAt = 2 * i - 1 THEN Fail(L)
                ELSE LET L1 == MintCoins(L, x) IN
                     IF failAt = 2 * i THEN Fail(L1)
                     ELSE Replay(SendCoinsFromModuleToAccount(L1, c.addr, x),
                                 chs, i + 1, failAt)
          [] c.delta < 0 ->
                IF failAt = 2 * i - 1 \/ L.bank[c.addr] < x THEN Fail(L)
                ELSE LET L1 == SendCoinsFromAccountToModule(L, c.addr, x) IN
                     IF failAt = 2 * i THEN Fail(L1)
                     ELSE Replay(BurnCoins(L1, x), chs, i + 1, failAt)
          [] OTHER -> Replay(L, chs, i + 1, failAt)

\* Commit: replay every change of every frame; the frames stay on the stack.
Commit ==
    LET st  == getCurState
        chs == AllChanges(st)
        L   == [bank |-> bank, mod |-> moduleBal, supply |-> supply]
    IN  /\ phase = "exec"
        /\ \E failAt \in IF LedgerMayFail THEN 0..2 * Len(chs) ELSE {0} :
              LET r == Replay(L, chs, 1, failAt) IN
              /\ bank' = r.ledger.bank
              /\ moduleBal' = r.ledger.mod
              /\ supply' = r.ledger.supply
              /\ phase' = IF r.ok THEN "committed" ELSE "failed"
        /\ states' = st
        /\ UNCHANGED revertId

-----------------------------------------------------------------------------
Init ==
    /\ states = <<>>
    /\ bank \in [Accts -> 0..MaxBal]
    /\ moduleBal = 0
    /\ supply = SumFunction(bank)
    /\ phase = "exec"
    /\ revertId = 0

Next ==
    \/ \E a \in Accts : GetBalance(a)
    \/ \E a \in Accts, v \in 0..MaxBal : SetBalance(a, v)
    \/ Snapshot
    \/ \E id \in 1..Len(states) - 1 : RevertToSnapshot(id)
    \/ Commit

Spec == Init /\ [][Next]_vars

-----------------------------------------------------------------------------
(* Properties                                                              *)

TypeOK ==
    /\ states \in Seq(Frame)
    /\ Len(states) <= MaxFrames
    /\ bank \in [Accts -> Nat]
    /\ moduleBal \in Nat
    /\ supply \in Nat
    /\ phase \in {"exec", "committed", "failed"}
    /\ revertId \in 0..MaxFrames

\* Balance of a that frame f answers with.
FrameView(f, a) ==
    IF f.dirtyBalances[a] = Nil THEN bank[a] ELSE f.dirtyBalances[a]

\* Sum of the deltas recorded for a in the bottom i frames of st.
NetDelta(st, i, a) ==
    LET chs == AllChanges(SubSeq(st, 1, i)) IN
    FoldLeft(LAMBDA acc, c : IF c.addr = a THEN acc + c.delta ELSE acc, 0, chs)

(***************************************************************************)
(* The cache and the log of every frame agree (spec section 3): the        *)
(* balance a frame answers for an account is the bank balance plus the     *)
(* deltas of that frame and of the frames below it.  SetBalance computes   *)
(* each delta from the cached balance, Snapshot copies the cache and       *)
(* RevertToSnapshot drops frames; a slip in any of them, over some order   *)
(* of these calls, leaves a cache that Commit's replay does not reproduce. *)
(***************************************************************************)
DirtyMatchesJournal ==
    phase = "exec" =>
        \A i \in DOMAIN states, a \in Accts :
            FrameView(states[i], a) = bank[a] + NetDelta(states, i, a)

(***************************************************************************)
(* When nothing but Commit changes the bank and the bank keeper itself     *)
(* does not fail, Commit never fails: replaying the surviving deltas       *)
(* frame by frame, bottom to top, never debits an account below zero,      *)
(* whatever snapshots and reverts came before.  Commit does not undo the   *)
(* calls made before an error, so a failure here would leave a half-       *)
(* applied block.                                                          *)
(***************************************************************************)
CommitNeverFails ==
    ~LedgerMayFail => phase # "failed"

\* The overlay seen as the stack of views of NestedBalances.
AbsViews ==
    IF phase # "exec" \/ states = <<>> THEN <<bank>>
    ELSE [i \in DOMAIN states |-> [a \in Accts |-> FrameView(states[i], a)]]

Abs == INSTANCE NestedBalances
         WITH views <- AbsViews, ledger <- bank, status <- phase,
              revertId <- revertId,
              Values <- 0..MaxBal

(***************************************************************************)
(* The Manager implements nested balance scopes with an atomic commit:     *)
(* every GetBalance answers the innermost view, a revert restores exactly  *)
(* the views at the snapshot, and Commit either moves the bank to the      *)
(* final view or leaves it untouched.                                      *)
(***************************************************************************)
AbsSpec == Abs!Spec

=============================================================================
