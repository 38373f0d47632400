------------------------------ MODULE Capacity ------------------------------
(***************************************************************************)
(* The capacity estimates of the farm (internal/capacity) and the two      *)
(* readings of the cluster they are run on: the dashboard's, which also    *)
(* admits pool batches, and the one that gates a create.  A cluster is a   *)
(* record of nodes (free CPU and memory) and disks (free bytes), in the    *)
(* order of their numbers; ok is FALSE once something no longer fitted.    *)
(***************************************************************************)
EXTENDS Integers, Sequences, FiniteSets

CONSTANT MaxSessions    \* the loop bound maxSessions of the simulation

ASSUME CapacityAssumption == MaxSessions \in Nat \ {0}

\* A mode is the list of its components; every amount is free of a sign.
IsMode(mode) == mode \in Seq([cpu : Nat, mem : Nat, disk : Nat])

IsCluster(c) ==
    /\ c = [nodes |-> c.nodes, disks |-> c.disks, ok |-> TRUE]
    /\ \A D \in {DOMAIN c.nodes, DOMAIN c.disks} :
           IsFiniteSet(D) /\ D \subseteq Nat
    /\ c.nodes \in [DOMAIN c.nodes -> [cpu : Nat, mem : Nat]]
    /\ c.disks \in [DOMAIN c.disks -> Nat]

Larger(a, b) == IF a >= b THEN a ELSE b

\* What allocatable leaves once reservations and live use are both protected.
PlanningHeadroom(allocatable, requested, used) ==
    IF allocatable <= 0 THEN 0
    ELSE Larger(allocatable - Larger(requested, used), 0)

\* Position i comes before j in a worst-fit choice: more free, first on ties.
Ahead(free, i, j) == free[i] > free[j] \/ (free[i] = free[j] /\ i < j)

\* A slip: the pod goes to a node that has the memory, whatever its CPU.
PlacePodSlip(c, comp) ==
    LET mem == [i \in DOMAIN c.nodes |-> c.nodes[i].mem]
        fits == {i \in DOMAIN c.nodes : mem[i] >= comp.mem}
    IN IF fits = {} THEN [c EXCEPT !.ok = FALSE]
       ELSE LET best == CHOOSE i \in fits :
                            \A j \in fits \ {i} : Ahead(mem, i, j)
            IN [c EXCEPT !.nodes[best] = [cpu |-> @.cpu - comp.cpu,
                                          mem |-> @.mem - comp.mem]]

\* The component goes to the fitting node with the most free memory.
PlacePod(c, comp) ==
    LET mem == [i \in DOMAIN c.nodes |-> c.nodes[i].mem]
        fits == {i \in DOMAIN c.nodes : /\ c.nodes[i].cpu >= comp.cpu
                                        /\ mem[i] >= comp.mem}
    IN IF fits = {} THEN [c EXCEPT !.ok = FALSE]
       ELSE LET best == CHOOSE i \in fits :
                            \A j \in fits \ {i} : Ahead(mem, i, j)
            IN [c EXCEPT !.nodes[best] = [cpu |-> @.cpu - comp.cpu,
                                          mem |-> @.mem - comp.mem]]

\* One replica on each of `replicas` distinct disks, worst-fit, or none.
PlaceVolume(c, size, replicas) ==
    LET fits == {i \in DOMAIN c.disks : c.disks[i] >= size}
        chosen == {i \in fits : Cardinality({j \in fits :
                                    Ahead(c.disks, j, i)}) < replicas}
    IN IF Cardinality(chosen) < replicas THEN [c EXCEPT !.ok = FALSE]
       ELSE [c EXCEPT !.disks = [i \in DOMAIN @ |->
                  IF i \in chosen THEN @[i] - size ELSE @[i]]]

\* One component: its pod, then its volume unless storage is unknown.
PlaceComponent(c, comp, replicas, known) ==
    LET pod == PlacePod(c, comp)
    IN IF ~c.ok \/ ~pod.ok THEN [c EXCEPT !.ok = FALSE]
       ELSE IF known /\ comp.disk > 0
            THEN PlaceVolume(pod, comp.disk, replicas) ELSE pod

\* Every component of one session in order; the first misfit ends it.
PlaceSession(mode, c, replicas, known) ==
    LET placed[k \in 0..Len(mode)] ==
            IF k = 0 THEN c
            ELSE PlaceComponent(placed[k - 1], mode[k], replicas, known)
    IN placed[Len(mode)]

AtLeastOne(replicas) == Larger(replicas, 1)

\* What is left of the cluster after k sessions, placed one after the other.
Placing(mode, c, replicas, known) ==
    LET left[k \in Nat] ==
            IF k = 0 THEN c ELSE PlaceSession(mode, left[k - 1], replicas, known)
    IN left

\* A slip: half of the promised sessions are taken out.
ReserveModeSlip(mode, n, c, replicas, known) ==
    IF n > MaxSessions THEN [c EXCEPT !.ok = FALSE]
    ELSE Placing(mode, c, AtLeastOne(replicas), known)[n \div 2]

\* The cluster with the promised footprint of n sessions taken out; nothing
\* is promised to zero sessions.
ReserveMode(mode, n, c, replicas, known) ==
    IF n > MaxSessions THEN [c EXCEPT !.ok = FALSE]
    ELSE Placing(mode, c, AtLeastOne(replicas), known)[n]

\* How many whole sessions fit before the first misfit.
Simulate(mode, c, replicas, known) ==
    LET left == Placing(mode, c, replicas, known)
    IN Cardinality({k \in 1..MaxSessions : left[k].ok})

\* A mode whose components keep one resource only.
ResourceOnly(mode, res) ==
    [k \in DOMAIN mode |->
        [r \in {"cpu", "mem", "disk"} |-> IF r = res THEN mode[k][r] ELSE 0]]

\* The simulation with one resource's costs kept; -1 when it is unknown.
PerResourceCount(mode, c, replicas, known, res) ==
    IF res = "disk" /\ ~known THEN -1
    ELSE Simulate(ResourceOnly(mode, res), c, replicas, res = "disk")

\* The scarcest resource of an estimate, CPU before memory before storage.
LimitingResource(byCPU, byMem, byDisk) ==
    LET low == IF byMem < byCPU THEN byMem ELSE byCPU
    IN IF byDisk >= 0 /\ byDisk < low THEN "storage"
       ELSE IF byMem < byCPU THEN "memory" ELSE "cpu"

EstimateMode(mode, c, replicas, known) ==
    LET n == AtLeastOne(replicas)
        by == [r \in {"cpu", "mem", "disk"} |->
                  PerResourceCount(mode, c, n, known, r)]
    IN [count |-> Simulate(mode, c, n, known), by |-> by,
        limiting |-> LimitingResource(by["cpu"], by["mem"], by["disk"])]

-----------------------------------------------------------------------------
(* The two readings of a cluster's statistics.  A statistic of a node has   *)
(* what is allocatable, requested and used; a storage node has the bytes   *)
(* Longhorn would still accept and whether it accepts any.                 *)

\* A slip: the lowest reading of the window.
HighWaterSlip(samples) ==
    [cpu |-> CHOOSE x \in {s.cpu : s \in samples} :
                 \A s \in samples : s.cpu >= x,
     mem |-> CHOOSE x \in {s.mem : s \in samples} :
                 \A s \in samples : s.mem >= x]

\* The high-water mark of the samples inside the window: the greatest CPU
\* and memory reading of each node; a node without a sample has none.
HighWater(samples) ==
    [cpu |-> CHOOSE x \in {s.cpu : s \in samples} :
                 \A s \in samples : s.cpu <= x,
     mem |-> CHOOSE x \in {s.mem : s \in samples} :
                 \A s \in samples : s.mem <= x]

NodeFree(node, used) ==
    [r \in {"cpu", "mem"} |->
        PlanningHeadroom(node.alloc[r], node.req[r], used[r])]

NothingFree == [r \in {"cpu", "mem"} |-> 0]

\* The entries of a list of nodes that take new Pods or volumes.
Accepting(list) == {i \in DOMAIN list : list[i].schedulable}

\* The dashboard fails closed: a node without a sample offers nothing.
DashboardFree(stats) ==
    [nodes |-> [i \in Accepting(stats.nodes) |->
         IF stats.nodes[i].samples = {} THEN NothingFree
         ELSE NodeFree(stats.nodes[i], HighWater(stats.nodes[i].samples))],
     disks |-> [i \in DOMAIN stats.storage |-> stats.storage[i].bytes],
     ok |-> TRUE]

\* The create gate fails open: without metrics only reservations count.
GateFree(stats) ==
    [nodes |-> [i \in Accepting(stats.nodes) |->
         NodeFree(stats.nodes[i],
                  IF stats.metrics THEN stats.nodes[i].live
                  ELSE NothingFree)],
     disks |-> [i \in Accepting(stats.storage) |-> stats.storage[i].bytes],
     ok |-> TRUE]

NoCluster == [nodes |-> <<>>, disks |-> <<>>, ok |-> TRUE]

\* The dashboard's estimate: pooled sessions that do not run yet keep one
\* VTA footprint each; what they were promised and no longer fits leaves 0.
DashboardEstimate(stats, vtaOnly, mode, reserved) ==
    LET left == ReserveMode(vtaOnly, reserved, DashboardFree(stats),
                            stats.replicas, stats.known)
    IN EstimateMode(mode, IF left.ok THEN left ELSE NoCluster,
                    stats.replicas, stats.known)

GateEstimate(stats, mode) ==
    EstimateMode(mode, GateFree(stats), stats.replicas, stats.known)

\* A create is refused only by an estimate that was made and found no room.
ModeFits(stats, mode) == GateEstimate(stats, mode).count >= 1

=============================================================================
