----------------------------- MODULE Estimates ------------------------------
(***************************************************************************)
(* What the estimates of Capacity are worth.  An estimate keeps no state:  *)
(* a behaviour is one question, put to a cluster whose free resources are  *)
(* known (Placements) or to one read from its statistics (Readings).       *)
(***************************************************************************)
EXTENDS Capacity, Functions

CONSTANTS
    Placements, \* [mode, c, replicas, known, reserved]
    Readings    \* [mode, stats, reserved]

Usage == [cpu : Nat, mem : Nat]

\* With live metrics the reading of the moment is among the samples.
IsReading(stats) ==
    /\ IsFiniteSet(DOMAIN stats.nodes) /\ DOMAIN stats.nodes \subseteq Nat
    /\ IsFiniteSet(DOMAIN stats.storage) /\ DOMAIN stats.storage \subseteq Nat
    /\ \A i \in DOMAIN stats.nodes :
           LET n == stats.nodes[i]
           IN /\ n.schedulable \in BOOLEAN
              /\ {n.alloc, n.req, n.live} \cup n.samples \subseteq Usage
              /\ IsFiniteSet(n.samples)
              /\ stats.metrics => n.live \in n.samples
    /\ \A i \in DOMAIN stats.storage :
           /\ stats.storage[i].schedulable \in BOOLEAN
           /\ stats.storage[i].bytes \in Nat
    /\ stats.metrics \in BOOLEAN /\ stats.known \in BOOLEAN
    /\ stats.replicas \in Nat

ASSUME EstimatesAssumption ==
    /\ \A q \in Placements :
           /\ IsMode(q.mode) /\ IsCluster(q.c)
           /\ q.replicas \in Nat /\ q.known \in BOOLEAN
           /\ q.reserved \in Nat
    /\ \A q \in Readings :
           IsMode(q.mode) /\ IsReading(q.stats) /\ q.reserved \in Nat

VARIABLES
    given,  \* the question
    kind    \* "placement" or "reading"

Init ==
    \/ given \in Placements /\ kind = "placement"
    \/ given \in Readings /\ kind = "reading"
Next == UNCHANGED <<given, kind>>
Spec == Init /\ [][Next]_<<given, kind>>

-----------------------------------------------------------------------------
(* What a cluster can host, defined without the placement.                 *)

Pods(mode, n) == (1..n) \X DOMAIN mode

\* What the Pods of S need of a resource.
Need(mode, n, res, S) ==
    SumFunctionOnSet([p \in Pods(mode, n) |-> mode[p[2]][res]], S)

\* Some assignment of the Pods of n sessions respects every node.
PodsFit(mode, c, n) ==
    \E at \in [Pods(mode, n) -> DOMAIN c.nodes] :
        \A i \in DOMAIN c.nodes, res \in {"cpu", "mem"} :
            Need(mode, n, res, {p \in Pods(mode, n) : at[p] = i})
                <= c.nodes[i][res]

\* Some choice of distinct disks for every volume respects every disk.
VolumesFit(mode, c, n, replicas) ==
    LET volumes == {p \in Pods(mode, n) : mode[p[2]].disk > 0}
        spreads == {D \in SUBSET DOMAIN c.disks : Cardinality(D) = replicas}
    IN \E on \in [volumes -> spreads] :
        \A i \in DOMAIN c.disks :
            Need(mode, n, "disk", {p \in volumes : i \in on[p]})
                <= c.disks[i]

CanHost(mode, c, n, replicas, known) ==
    /\ PodsFit(mode, c, n)
    /\ known => VolumesFit(mode, c, n, AtLeastOne(replicas))

-----------------------------------------------------------------------------
Estimated ==
    EstimateMode(given.mode, given.c, given.replicas, given.known).count

\* Of the sessions an estimate promises, every Pod has a node with its CPU
\* and memory and every volume its distinct disks: the greedy placement
\* never counts a session the cluster cannot hold (capacity.go: simulate).
EstimateIsHosted ==
    kind = "placement" =>
        CanHost(given.mode, given.c, Estimated, given.replicas, given.known)

\* For a mode of one component the estimate is exact up to the bound of the
\* loop: a batch or a create is not refused while another session would fit.
OneComponentIsExact ==
    (kind = "placement" /\ Len(given.mode) = 1 /\ Estimated < MaxSessions) =>
        ~CanHost(given.mode, given.c, Estimated + 1, given.replicas,
                 given.known)

\* The figures beside the count say what would fit if only one resource
\* mattered: for a mode of one component none is below the count, when its
\* resource is known (capacity.go: perResourceCounts).
FiguresCoverCount ==
    (kind = "placement" /\ Len(given.mode) = 1) =>
        \A res \in {"cpu", "mem", "disk"} :
            (res = "disk" => given.known) =>
                Estimated <= EstimateMode(given.mode, given.c, given.replicas,
                                          given.known).by[res]

\* The three together: neither more nor, for one component, less than fits
\* (capacity.go: "placement simulations, not straight division").
EstimatesAreExact ==
    EstimateIsHosted /\ OneComponentIsExact /\ FiguresCoverCount

\* What parked sessions were promised is gone from what is offered to others,
\* no more and no less, except that an estimate ends at the bound of its loop
\* (capacity.go: ReserveMode).
ReservationsAreKept ==
    kind = "placement" =>
        LET left == ReserveMode(given.mode, given.reserved, given.c,
                                given.replicas, given.known)
            beside == EstimateMode(given.mode, left, given.replicas,
                                   given.known).count
            total == beside + given.reserved
        IN left.ok =>
            Estimated = IF total < MaxSessions THEN total ELSE MaxSessions

\* With live metrics and every storage node open, the dashboard, which admits
\* pool batches, never sees room for a VTA that the create gate does not,
\* however many pooled sessions it sets room aside for (dashboard.go,
\* capacity_service.go).
DashboardIsStricter ==
    (/\ kind = "reading" /\ Len(given.mode) = 1
     /\ given.stats.metrics
     /\ Accepting(given.stats.storage) = DOMAIN given.stats.storage)
        => DashboardEstimate(given.stats, given.mode, given.mode,
                             given.reserved).count
               <= GateEstimate(given.stats, given.mode).count
=============================================================================
