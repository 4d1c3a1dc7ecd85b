------------------------------- MODULE Keeper -------------------------------
(***************************************************************************)
(* Start-up of the EVM keeper (src/cosmos/x/evm/keeper/keeper.go).         *)
(*                                                                         *)
(* NewKeeper builds the keeper with k.lock = true and a new Host.  Setup   *)
(* sets the host's plugins up, loads the Polaris config (falling back to   *)
(* the defaults when it fails), builds the geth networking stack           *)
(* (panicking on error) and the Polaris provider.  SetClientCtx hands the  *)
(* client context to the tx pool plugin and starts a goroutine that spins  *)
(* on k.lock, sleeping a second per turn, and then starts the Polaris      *)
(* services (panicking on error).                                          *)
(*                                                                         *)
(* k.lock is unexported, so only package keeper can write it, and its only *)
(* write is the true of NewKeeper (keeper.go:72): no step of this model    *)
(* clears it.  Each turn of the loop reads the flag as it is.              *)
(***************************************************************************)
EXTENDS Naturals

CONSTANTS
    Goroutines  \* identities of the goroutines SetClientCtx may start

VARIABLES
    keeper,     \* "none" before NewKeeper, then "new", "setup"
    lock,       \* k.lock
    polaris,    \* k.polaris: "nil" or "built"
    cfg,        \* config in use: "none", "file", "default"
    clientCtx,  \* the tx pool plugin has a client context
    pc,         \* pc[g]: "idle", "spin", "start", "done" for each goroutine
    services,   \* "stopped", or "started" once StartServices returned nil
    process     \* "running", or "panicked"

vars == <<keeper, lock, polaris, cfg, clientCtx, pc, services, process>>

Running == process = "running"

\* NewKeeper: the keeper struct with lock = true and a new Host.
NewKeeper ==
    /\ Running /\ keeper = "none"
    /\ keeper' = "new"
    /\ lock' = TRUE
    /\ UNCHANGED <<polaris, cfg, clientCtx, pc, services, process>>

(***************************************************************************)
(* Setup: host plugins, then the config (the file's, or the defaults when  *)
(* loading fails or it has no GPO), then the networking stack, whose       *)
(* failure panics, then the Polaris provider.                              *)
(***************************************************************************)
Setup ==
    /\ Running /\ keeper = "new"
    /\ \E loaded \in {"file", "default"}, nodeErr \in BOOLEAN :
          /\ cfg' = loaded
          /\ IF nodeErr
             THEN process' = "panicked" /\ UNCHANGED <<keeper, polaris>>
             ELSE keeper' = "setup" /\ polaris' = "built" /\ UNCHANGED process
    /\ UNCHANGED <<lock, clientCtx, pc, services>>

\* SetClientCtx: client context to the tx pool plugin, and a new goroutine.
SetClientCtx(g) ==
    /\ Running /\ keeper # "none"
    /\ pc[g] = "idle"
    /\ clientCtx' = TRUE
    /\ pc' = [pc EXCEPT ![g] = "spin"]
    /\ UNCHANGED <<keeper, lock, polaris, cfg, services, process>>

\* The spin loop `for ; k.lock; time.Sleep(...)` leaves once it reads false.
SpinExit(v) == ~v

\* One turn of the spin loop on the current value of k.lock.
Spin(g) ==
    /\ Running /\ pc[g] = "spin"
    /\ pc' = [pc EXCEPT ![g] = IF SpinExit(lock) THEN "start" ELSE "spin"]
    /\ UNCHANGED <<keeper, lock, polaris, cfg, clientCtx, services, process>>

(***************************************************************************)
(* k.polaris.StartServices(): a nil provider is a nil dereference, an      *)
(* error panics, success starts the services.                              *)
(***************************************************************************)
StartServices(g) ==
    /\ Running /\ pc[g] = "start"
    /\ pc' = [pc EXCEPT ![g] = "done"]
    /\ \E err \in BOOLEAN :
          IF polaris = "nil" \/ err
          THEN process' = "panicked" /\ UNCHANGED services
          ELSE services' = "started" /\ UNCHANGED process
    /\ UNCHANGED <<keeper, lock, polaris, cfg, clientCtx>>

Init ==
    /\ keeper = "none"
    /\ lock = FALSE
    /\ polaris = "nil"
    /\ cfg = "none"
    /\ clientCtx = FALSE
    /\ pc = [g \in Goroutines |-> "idle"]
    /\ services = "stopped"
    /\ process = "running"

Next ==
    \/ NewKeeper \/ Setup
    \/ \E g \in Goroutines : SetClientCtx(g) \/ Spin(g) \/ StartServices(g)

(***************************************************************************)
(* The Go scheduler runs every runnable goroutine: each goroutine's loop   *)
(* turn and its start are weakly fair.  The calls of the application       *)
(* (NewKeeper, Setup, SetClientCtx) are not.                               *)
(***************************************************************************)
Fairness == \A g \in Goroutines : WF_vars(Spin(g)) /\ WF_vars(StartServices(g))

Spec == Init /\ [][Next]_vars /\ Fairness

-----------------------------------------------------------------------------
=============================================================================
