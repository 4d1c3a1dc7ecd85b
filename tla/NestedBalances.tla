--------------------------- MODULE NestedBalances ---------------------------
(***************************************************************************)
(* What the EVM balance overlay promises its caller, with no journal and   *)
(* no frames: a stack of whole balance views, one per open call scope.     *)
(* Writes go to the innermost view, a snapshot opens a copy of it, a       *)
(* revert drops every view opened since the snapshot, and commit writes    *)
(* the innermost view to the ledger in one step or not at all.             *)
(***************************************************************************)
EXTENDS Integers, Sequences

CONSTANTS
    Accts,      \* account addresses
    Values      \* balances an account may hold

VARIABLES
    views,      \* views[i][a]: balance of a seen in scope i; Len(views) is innermost
    ledger,     \* balances held by the authoritative ledger
    status,     \* "exec" while the block executes, then "committed" or "failed"
    revertId    \* argument of the last revert, 0 before the first

vars == <<views, ledger, status, revertId>>

Top == views[Len(views)]

Init ==
    /\ ledger \in [Accts -> Values]
    /\ views = <<ledger>>
    /\ status = "exec"
    /\ revertId = 0

\* A balance write is seen by the innermost scope only.
Set(a, v) ==
    /\ status = "exec"
    /\ views' = [views EXCEPT ![Len(views)][a] = v]
    /\ UNCHANGED <<ledger, status, revertId>>

\* Opening a scope copies the innermost view.
Snapshot ==
    /\ status = "exec"
    /\ views' = Append(views, Top)
    /\ UNCHANGED <<ledger, status, revertId>>

\* Reverting to snapshot id keeps the views of the id outer scopes.
Revert(id) ==
    /\ status = "exec"
    /\ id \in 1..Len(views) - 1
    /\ views' = SubSeq(views, 1, id)
    /\ revertId' = id
    /\ UNCHANGED <<ledger, status>>

\* Commit is atomic: the ledger takes the innermost view, or is untouched.
Commit ==
    /\ status = "exec"
    /\ \/ ledger' = Top /\ status' = "committed"
       \/ ledger' = ledger /\ status' = "failed"
    /\ views' = <<ledger'>>
    /\ UNCHANGED revertId

Next ==
    \/ \E a \in Accts, v \in Values : Set(a, v)
    \/ Snapshot
    \/ \E id \in 1..Len(views) - 1 : Revert(id)
    \/ Commit

Spec == Init /\ [][Next]_vars

=============================================================================
