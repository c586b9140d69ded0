---------------------------- MODULE CpuAllocMap ----------------------------
(***************************************************************************)
(* The NUMA-aware CPU core allocator (CPUAllocMap of the agent's          *)
(* resources module).  That module is not part of this repository's       *)
(* sources, so the allocator is modelled from the specification (section  *)
(* 4.1): alloc(n) picks the NUMA node with the most free cores and takes   *)
(* its numerically lowest min(n, free on that node) cores; free(s) returns *)
(* the cores to the pool and tolerates cores that are already free.        *)
(* Ties between nodes are not specified, so any maximal node may be taken. *)
(***************************************************************************)
EXTENDS Integers, FiniteSets

CONSTANTS
    Cores,      \* the host's logical cores (integers)
    NodeOf      \* NUMA node of every core: a function Cores -> Nat

ASSUME Cores \subseteq Nat /\ Cores # {}
ASSUME NodeOf \in [Cores -> Nat]

VARIABLE free   \* cores not granted to any kernel

Nodes == {NodeOf[c] : c \in Cores}

NodeCores(node) == {c \in Cores : NodeOf[c] = node}

FreeOn(pool, node) == pool \cap NodeCores(node)

\* The k numerically lowest members of S (all of S when |S| <= k).
Lowest(S, k) == {c \in S : Cardinality({d \in S : d < c}) < k}

\* The nodes alloc may choose: those with the largest number of free cores.
BestNodes(pool) ==
    {node \in Nodes : \A m \in Nodes :
        Cardinality(FreeOn(pool, m)) <= Cardinality(FreeOn(pool, node))}

\* Every <<node, core set>> alloc(n) may return from the given pool.
AllocChoices(pool, n) ==
    {<<node, Lowest(FreeOn(pool, node), n)>> : node \in BestNodes(pool)}

\* The number of cores a kernel asks for: its image label, clamped to the
\* host's core count (num_cores = min(num_cores, requested_cores)).
NumCores(requested) == IF requested < Cardinality(Cores)
                       THEN requested ELSE Cardinality(Cores)

Init == free = Cores

\* alloc(n): removes the chosen cores from the pool.
Alloc(n, grant) ==
    /\ grant \in AllocChoices(free, n)
    /\ free' = free \ grant[2]

\* free(core_set): returns the cores; freeing a free core changes nothing.
Free(coreSet) == free' = free \cup coreSet

=============================================================================
