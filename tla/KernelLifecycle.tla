--------------------------- MODULE KernelLifecycle ---------------------------
(***************************************************************************)
(* What the agent promises about a kernel and its cores, with each of its  *)
(* steps atomic: an id is handed out, a _create_kernel takes a non-empty   *)
(* set of free cores, then either stores the record (the kernel is live)   *)
(* or fails and gives the cores back; a live kernel keeps its cores until  *)
(* clean_kernel removes it, returns them and dispatches kernel_terminated, *)
(* after which the id is never live again.  A restart, a destroy that has  *)
(* not yet been cleaned up and an execute_code change none of this.        *)
(***************************************************************************)
EXTENDS FiniteSets

CONSTANTS
    Kernels,    \* kernel ids
    Cores       \* the host's cores

VARIABLES
    life,       \* kernel id -> where it is in its life
    held,       \* kernel id -> the cores it owns
    pool        \* the cores no kernel owns

Lives == {"new", "creating", "live", "failed", "cleaned"}

Init ==
    /\ life = [k \in Kernels |-> "new"]
    /\ held = [k \in Kernels |-> {}]
    /\ pool = Cores

\* create_kernel hands out a fresh id.
Begin(k) ==
    /\ life[k] = "new"
    /\ life' = [life EXCEPT ![k] = "creating"]
    /\ UNCHANGED <<held, pool>>

\* The creation takes a non-empty set of free cores, once.
Grant(k, cs) ==
    /\ life[k] = "creating"
    /\ held[k] = {}
    /\ cs # {}
    /\ cs \subseteq pool
    /\ held' = [held EXCEPT ![k] = cs]
    /\ pool' = pool \ cs
    /\ UNCHANGED life

\* The record is stored with the cores granted.
Register(k) ==
    /\ life[k] = "creating"
    /\ held[k] # {}
    /\ life' = [life EXCEPT ![k] = "live"]
    /\ UNCHANGED <<held, pool>>

\* The creation fails and whatever it took goes back to the pool.
Abort(k) ==
    /\ life[k] = "creating"
    /\ life' = [life EXCEPT ![k] = "failed"]
    /\ held' = [held EXCEPT ![k] = {}]
    /\ pool' = pool \cup held[k]

\* The live kernel is cleaned up: its cores go back, it is reported once.
Terminate(k) ==
    /\ life[k] = "live"
    /\ life' = [life EXCEPT ![k] = "cleaned"]
    /\ held' = [held EXCEPT ![k] = {}]
    /\ pool' = pool \cup held[k]

Next ==
    \E k \in Kernels :
        \/ Begin(k)
        \/ \E cs \in SUBSET Cores : Grant(k, cs)
        \/ Register(k)
        \/ Abort(k)
        \/ Terminate(k)

Spec == Init /\ [][Next]_<<life, held, pool>>

=============================================================================
