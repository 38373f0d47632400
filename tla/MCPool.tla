------------------------------- MODULE MCPool -------------------------------
(* Instances of Pool for TLC. *)
EXTENDS Pool

\* One pod of one unit of CPU and memory; storage does not limit.
OneVta == <<[cpu |-> 1, mem |-> 1, disk |-> 0]>>

Rooms(n) == [nodes |-> <<[cpu |-> n, mem |-> n]>>, disks |-> <<>>,
             ok |-> TRUE]

Farm(room, most, held, asked, ends, failing) ==
    [cluster |-> Rooms(room), members |-> most, claims |-> held,
     requests |-> asked, crashes |-> ends, faults |-> failing]

\* A cluster full with one VTA, under every fault; one with room for two; and
\* one with room for one, of which two requests hold the same snapshot.
OneAndTwo == {Farm(1, 1, 2, {1}, 1, 1), Farm(2, 2, 1, {1}, 0, 0),
              Farm(1, 2, 1, {1, 2}, 0, 0)}

=============================================================================
