------------------------------ MODULE Handover ------------------------------
(***************************************************************************)
(* What the farm promises about handing an agent (a VTA) over to a person, *)
(* with every request, worker, deadline and crash taken away.              *)
(*                                                                         *)
(* A VTA has at most one first administrator (setup_sessions.admin_did).   *)
(* That key was approved by a person before the farm accepted it, it is    *)
(* never replaced, and no key enters the VTA's own access-control list     *)
(* unless a person approved it; a further key enters only once the first   *)
(* administrator is in place.                                              *)
(***************************************************************************)
EXTENDS Naturals

CONSTANTS Sessions,   \* the VTAs
          Keys,       \* administrator keys a wallet or a PNM can present
          NoKey       \* "no administrator yet"

VARIABLES holder,     \* first administrator of each VTA
          approved,   \* keys a person approved, per VTA
          installed   \* keys in the VTA's access-control list

hvars == <<holder, approved, installed>>

HInit == /\ holder    = [s \in Sessions |-> NoKey]
         /\ approved  = [s \in Sessions |-> {}]
         /\ installed = [s \in Sessions |-> {}]

\* A person compares the check values and confirms, or types the key in.
Approve(s, k) ==
    /\ approved' = [approved EXCEPT ![s] = @ \cup {k}]
    /\ UNCHANGED <<holder, installed>>

\* A key approved earlier becomes the VTA's first administrator.
Accept(s, k) ==
    /\ holder[s] = NoKey
    /\ k \in approved[s]
    /\ holder' = [holder EXCEPT ![s] = k]
    /\ UNCHANGED <<approved, installed>>

\* The owner submits a key: approval and acceptance are one step.
Submit(s, k) ==
    /\ holder[s] = NoKey
    /\ approved' = [approved EXCEPT ![s] = @ \cup {k}]
    /\ holder' = [holder EXCEPT ![s] = k]
    /\ UNCHANGED installed

\* A worker writes an approved key into the VTA.
Install(s, k) ==
    /\ k \in approved[s]
    /\ k = holder[s] \/ holder[s] \in installed[s]
    /\ installed' = [installed EXCEPT ![s] = @ \cup {k}]
    /\ UNCHANGED <<holder, approved>>

HNext == \E s \in Sessions, k \in Keys :
             \/ Approve(s, k) \/ Accept(s, k)
             \/ Submit(s, k)  \/ Install(s, k)

HSpec == HInit /\ [][HNext]_hvars
=============================================================================
