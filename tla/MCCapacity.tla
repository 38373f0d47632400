----------------------------- MODULE MCCapacity -----------------------------
(* Bounded inputs for Estimates: every initial state is one input. *)
EXTENDS Estimates

CONSTANTS
    MaxNode,    \* greatest free CPU and memory of a node
    MaxDisk,    \* greatest free bytes of a disk
    MaxReserved \* greatest number of sessions promised beforehand

Comp(cpu, mem, disk) == [cpu |-> cpu, mem |-> mem, disk |-> disk]

\* One component; two equal ones; two of different shape.
VtaOnly == <<Comp(1, 2, 1)>>
Pair == <<Comp(1, 1, 1), Comp(1, 1, 1)>>
Mixed == <<Comp(2, 1, 0), Comp(1, 2, 1)>>

Node == [cpu : 0..MaxNode, mem : 0..MaxNode]

Case(mode, nodes, disks, replicas, known, n) ==
    [mode |-> mode, reserved |-> n, replicas |-> replicas, known |-> known,
     c |-> [nodes |-> nodes, disks |-> disks, ok |-> TRUE]]

\* Placement decided by the nodes, and placement decided by the disks.
SmallPlacements ==
    {Case(m, <<a, b>>, <<>>, 1, FALSE, n) :
        m \in {VtaOnly, Pair, Mixed}, a \in Node, b \in Node,
        n \in 0..MaxReserved}
    \cup
    {Case(m, <<[cpu |-> 9, mem |-> 9]>>, <<d, e, f>>, r, TRUE, n) :
        m \in {VtaOnly, Pair}, d \in 0..MaxDisk, e \in 0..MaxDisk,
        f \in 0..MaxDisk, r \in 0..2, n \in 0..MaxReserved}

\* Statistics: one node with its live reading and another sample of the
\* window, and a storage node that may have been taken out of scheduling.
Sample == [cpu : 0..1, mem : 0..MaxNode]
StatsOf(live, old, requested, metrics, open, n) ==
    [mode |-> VtaOnly, reserved |-> n,
     stats |->
        [nodes |-> <<[schedulable |-> TRUE,
                      alloc |-> [cpu |-> MaxNode, mem |-> MaxNode],
                      req |-> [cpu |-> 0, mem |-> requested],
                      live |-> live,
                      samples |-> IF metrics THEN {live, old} ELSE {old}]>>,
         storage |-> <<[schedulable |-> open, bytes |-> 2]>>,
         metrics |-> metrics, replicas |-> 1, known |-> TRUE]]
SmallReadings ==
    {StatsOf(l, o, q, m, s, n) :
        l \in Sample, o \in Sample, q \in 0..MaxNode,
        m \in BOOLEAN, s \in BOOLEAN, n \in 0..MaxReserved}
=============================================================================
