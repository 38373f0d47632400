-------------------------------- MODULE Pool --------------------------------
(***************************************************************************)
(* Pooled VTAs: batches of prebuilt sessions, the runner that builds and   *)
(* cleans them, the reservations that hand one out, its activation and its *)
(* deletion.  Every change of the store is one transaction under one       *)
(* advisory lock and one action here; the runner, the activation worker    *)
(* and an owner's deletion go step by step.  A claim's key is the claim    *)
(* itself: admin names the claim whose key was accepted.                   *)
(***************************************************************************)
EXTENDS Capacity

CONSTANTS
    Batches,      \* admissions an operator may make
    PublicBatches,\* those with purpose public_signup
    MaxMembers,   \* sessions ever admitted
    MaxClaims,    \* claims ever created
    Browsers,     \* digests of public claim tokens
    Requests,     \* admission requests an operator may have in flight
    Farms,        \* clusters, each with the bounds it is checked under
    VtaOnly,      \* the planning cost of one VTA
    Workers,      \* members the runners work on at a time (workerCount)
    None

Members == 1..MaxMembers
Claims == 1..MaxClaims

ASSUME PoolAssumption ==
    /\ MaxMembers \in Nat /\ MaxClaims \in Nat
    /\ Workers \in Nat \ {0}
    /\ PublicBatches \subseteq Batches
    /\ None \notin Members \cup Claims \cup Batches \cup Browsers
    /\ \A f \in Farms : {f.members, f.claims, f.crashes, f.faults} \subseteq Nat
    /\ \A f \in Farms : f.requests \subseteq Requests
    /\ IsMode(VtaOnly) /\ \A f \in Farms : IsCluster(f.cluster)

\* farm.members and farm.claims bound how many of them it ever has,
\* farm.requests the admissions at a time, farm.crashes the process ends and
\* farm.faults the failing answers of Cloudflare, Kubernetes and DID hosting.
VARIABLES
    farm,     \* the cluster without the pool, and the bounds it runs under
    batch,    \* rows of pool_batches
    member,   \* rows of setup_sessions and pool_sessions
    conn,     \* rows of mobile_connections
    dns,      \* members with a DNS record at Cloudflare
    kicks,    \* the runner's queue of session ids
    run,      \* where the runner's worker of a member is
    act,      \* where the activation worker of a member is
    del,      \* where the owner's deletion of a member is
    req,      \* the admission requests; some hold a capacity snapshot
    raced,    \* a member began to run while a request held its snapshot
    crashes, faults

rows == <<batch, member, conn>>
workers == <<run, act, del>>
bounds == <<crashes, faults>>
vars == <<farm, batch, member, conn, dns, kicks, run, act, del, req,
          raced, crashes, faults>>

Building == {"pool_creating", "vta_setup_running", "pool_publishing",
             "pool_prepared"}
Inventory == Building \cup {"pool_waiting"}
Statuses == {"none", "gone", "provisioning", "running", "failed",
             "deleting"} \cup Inventory
Confirmed == {"provisioning", "released", "cancelled"}  \* confirmed_at set
Active == {"open", "claimed", "provisioning"}

Live == {m \in Members : member[m].st \notin {"none", "gone"}}
MembersOf(b) == {m \in Live : member[m].batch = b}
ClaimsOf(m) == {c \in Claims : conn[c].m = m}

NoMember == [st |-> "none", batch |-> None, admin |-> None, did |-> FALSE,
             record |-> FALSE, cur |-> None, pod |-> FALSE]
NoRequest == [held |-> FALSE, cap |-> 0]
NoClaim == [st |-> "none", m |-> None, late |-> FALSE, by |-> None]

Init ==
    /\ farm \in Farms
    /\ batch = [b \in Batches |->
                   [st |-> "none", on |-> FALSE, cleanup |-> FALSE]]
    /\ member = [m \in Members |-> NoMember]
    /\ conn = [c \in Claims |-> NoClaim]
    /\ dns = {}
    /\ kicks = {}
    /\ run = [m \in Members |-> "idle"]
    /\ act = [m \in Members |-> [pc |-> "idle", cancelled |-> FALSE]]
    /\ del = [m \in Members |-> "idle"]
    /\ req = [r \in Requests |-> NoRequest]
    /\ raced = FALSE
    /\ crashes = 0
    /\ faults = 0

\* The runner's queue has room, or the kick is dropped.
Kick(S) == kicks' \in {kicks, kicks \cup S}

Set(m, status) == member' = [member EXCEPT ![m].st = status]
\* A status write that the row's current status does not restrict.
Write(m, status) ==
    member' = [member EXCEPT ![m].st = IF @ = "gone" THEN @ ELSE status]

\* An external call fails, within the bound on faults.
Fault == faults < farm.faults /\ faults' = faults + 1

-----------------------------------------------------------------------------
(* Admission of inventory.                                                 *)

NonRunning == {m \in Live : member[m].st # "running"}

\* A slip: what is promised is subtracted here already, without a floor.
SnapshotSlip ==
    LET pods == Cardinality({m \in Live : member[m].pod})
        left == ReserveMode(VtaOnly, pods, farm.cluster, 1, FALSE)
        fit == IF left.ok THEN EstimateMode(VtaOnly, left, 1, FALSE).count
               ELSE 0
    IN fit - Cardinality(NonRunning)

\* The sessions that still fit beside the pods that were started.
Snapshot ==
    LET pods == Cardinality({m \in Live : member[m].pod})
        left == ReserveMode(VtaOnly, pods, farm.cluster, 1, FALSE)
    IN IF left.ok THEN EstimateMode(VtaOnly, left, 1, FALSE).count ELSE 0

\* Sessions that may still be admitted.
Fresh == {m \in Members : m <= farm.members /\ member[m].st = "none"}

\* CreateBatch and AddInventory read the cluster before they take the lock:
\* several requests may hold the same snapshot.
ReadCapacity(r) ==
    /\ r \in farm.requests /\ ~req[r].held
    /\ Fresh # {}
    /\ req' = [req EXCEPT ![r] = [held |-> TRUE, cap |-> Snapshot]]
    /\ UNCHANGED <<farm, rows, dns, kicks, workers, raced, bounds>>

\* A slip: what was promised meanwhile is not counted again.
RoomForSlip(r, n) == n <= Larger(req[r].cap, 0)

\* Under the lock: the snapshot of the request minus what is promised by now
\* to members that do not run yet.
RoomFor(r, n) == n <= Larger(req[r].cap - Cardinality(NonRunning), 0)

\* The users, sessions, memberships and resource rows of n new members.
Insert(b, n) ==
    LET new == {m \in Fresh : Cardinality({k \in Fresh : k < m}) < n}
    IN /\ Cardinality(new) = n
       /\ member' = [m \in Members |->
              IF m \in new THEN [NoMember EXCEPT !.st = "pool_creating",
                                                 !.batch = b]
              ELSE member[m]]
       /\ Kick(new)

\* The request is over, with or without an effect.
Answered(r) == req' = [req EXCEPT ![r] = NoRequest]

Refused(r) ==
    /\ req[r].held
    /\ Answered(r)
    /\ UNCHANGED <<farm, rows, dns, kicks, workers, raced, bounds>>

\* CreateBatch: the batch row is inserted when there is room and the
\* idempotency key is new; a key seen before returns its batch (Refused).
Admit(r, b, n) ==
    /\ req[r].held
    /\ batch[b].st = "none"
    /\ RoomFor(r, n)
    /\ batch' = [batch EXCEPT ![b] = [st |-> "live", cleanup |-> FALSE,
                                      on |-> b \in PublicBatches]]
    /\ Insert(b, n)
    /\ Answered(r)
    /\ UNCHANGED <<farm, conn, dns, workers, raced, bounds>>

AddInventory(r, b, n) ==
    /\ req[r].held
    /\ batch[b].st = "live"
    /\ ~batch[b].cleanup
    /\ RoomFor(r, n)
    /\ Insert(b, n)
    /\ Answered(r)
    /\ UNCHANGED <<farm, batch, conn, dns, workers, raced, bounds>>

SetPublicSignup(b, on) ==
    /\ b \in PublicBatches
    /\ batch[b].st = "live"
    /\ ~batch[b].cleanup
    /\ batch[b].on # on
    /\ batch' = [batch EXCEPT ![b].on = on]
    /\ UNCHANGED <<farm, member, conn, dns, kicks, workers, req, raced,
                   bounds>>

-----------------------------------------------------------------------------
(* Reservations.                                                           *)

\* A waiting session without administrator whose latest claim is over: the
\* candidates of Reserve, of which ChangePool skips those still claimed.
Free(m) ==
    /\ member[m].st = "pool_waiting"
    /\ member[m].admin = None
    /\ member[m].cur # None =>
           LET c == conn[member[m].cur]
           IN c.st \notin {"claimed", "provisioning"}
              /\ (c.st = "open" => c.late)

\* The new claim; a late open one of the session is lapsed with it.
Open(m, by) ==
    LET fresh == {c \in Claims : c <= farm.claims /\ conn[c].st = "none"}
    IN \E c \in fresh :
        /\ \A d \in fresh : c <= d
        /\ conn' = [d \in Claims |->
               IF d = c THEN [st |-> "open", m |-> m, late |-> FALSE,
                              by |-> by]
               ELSE IF conn[d].m = m /\ conn[d].st = "open" /\ conn[d].late
                    THEN [conn[d] EXCEPT !.st = "lapsed"] ELSE conn[d]]
        /\ member' = [member EXCEPT ![m].cur = c]

\* An administrator's claim; locked rows are skipped, so any free member of
\* the batch may be the one.
Reserve(m) ==
    /\ Free(m)
    /\ Open(m, None)
    /\ UNCHANGED <<farm, batch, dns, kicks, workers, req, raced, bounds>>

\* A slip: the browser's earlier claim is not looked up.
ReservePublicSlip(m, w) ==
    /\ \E b \in PublicBatches : batch[b].on /\ member[m].batch = b
    /\ Free(m)
    /\ Open(m, w)
    /\ UNCHANGED <<farm, batch, dns, kicks, workers, req, raced, bounds>>

\* A browser's claim: it has none yet and an enabled pool has a free member.
\* A browser that has one gets that one back, whatever became of it.
ReservePublic(m, w) ==
    /\ \A c \in Claims : conn[c].by # w
    /\ \E b \in PublicBatches : batch[b].on /\ member[m].batch = b
    /\ Free(m)
    /\ Open(m, w)
    /\ UNCHANGED <<farm, batch, dns, kicks, workers, req, raced, bounds>>

\* The wallet claims the QR code.
Claim(c) ==
    /\ conn[c].st = "open" /\ ~conn[c].late
    /\ member[conn[c].m].st = "pool_waiting"
    /\ conn' = [conn EXCEPT ![c].st = "claimed"]
    /\ UNCHANGED <<farm, batch, member, dns, kicks, workers, req, raced,
                   bounds>>

\* A deadline passes: expires_at of an open claim, confirm_by of a claimed.
Expire(c) ==
    /\ conn[c].st \in {"open", "claimed"} /\ ~conn[c].late
    /\ conn' = [conn EXCEPT ![c].late = TRUE]
    /\ UNCHANGED <<farm, batch, member, dns, kicks, workers, req, raced,
                   bounds>>

\* ConfirmClaim and ConfirmPublicClaim: Confirm and StartProvisioning in one
\* transaction.  A claim that is confirmed already is answered as it is.
Confirm(c) ==
    /\ conn[c].st = "claimed" /\ ~conn[c].late
    /\ conn' = [conn EXCEPT ![c].st = "provisioning"]
    /\ member' = [member EXCEPT ![conn[c].m].st = "provisioning",
                                ![conn[c].m].admin = c]
    /\ UNCHANGED <<farm, batch, dns, kicks, workers, req, raced, bounds>>

\* An open claim is withdrawn when it is the latest; a claimed one is
\* rejected before its deadline.
Reject(c) ==
    /\ \/ conn[c].st = "open" /\ member[conn[c].m].cur = c
          /\ conn' = [conn EXCEPT ![c].st = "lapsed"]
       \/ conn[c].st = "claimed" /\ ~conn[c].late
          /\ conn' = [conn EXCEPT ![c].st = "rejected"]
    /\ UNCHANGED <<farm, batch, member, dns, kicks, workers, req, raced,
                   bounds>>

\* A page that shows a claim lapses it when it is late, and releases it when
\* the session it holds runs.
View(c) ==
    LET m == conn[c].m
    IN /\ \/ conn[c].st \in {"open", "claimed"} /\ conn[c].late
             /\ conn' = [conn EXCEPT ![c].st = "lapsed"]
          \/ conn[c].st = "provisioning" /\ member[m].st = "running"
             /\ member[m].admin = c
             /\ conn' = [conn EXCEPT ![c].st = "released"]
       /\ UNCHANGED <<farm, batch, member, dns, kicks, workers, req,
                      raced, bounds>>

-----------------------------------------------------------------------------
(* Retry and cleanup.                                                      *)

\* A confirmed member whose activation failed goes back to the activation
\* worker, whose lock must be free.
RetryActivation(m) ==
    /\ act[m].pc = "idle"
    /\ member[m].st = "failed" /\ member[m].admin # None
    /\ conn[member[m].admin].st = "provisioning"
    /\ Set(m, "provisioning")
    /\ UNCHANGED <<farm, batch, conn, dns, kicks, workers, req, raced,
                   bounds>>

\* A slip: any failed member is built again.
RetryBuildSlip(m) ==
    /\ run[m] = "idle"
    /\ member[m].st = "failed"
    /\ Set(m, "pool_creating")
    /\ Kick({m})
    /\ UNCHANGED <<farm, batch, conn, dns, workers, req, raced, bounds>>

\* An unclaimed member whose build failed is built again; the worker's lock
\* must be free.
RetryBuild(m) ==
    /\ run[m] = "idle"
    /\ member[m].st = "failed" /\ member[m].admin = None
    /\ \A c \in ClaimsOf(m) : conn[c].st \notin Confirmed
    /\ Set(m, "pool_creating")
    /\ Kick({m})
    /\ UNCHANGED <<farm, batch, conn, dns, workers, req, raced, bounds>>

\* Every member of S is unclaimed inventory that no claim holds; expired
\* claims are lapsed on the way.
Cleanable(S) ==
    \A m \in S :
        /\ member[m].st \in {"pool_waiting", "failed"}
        /\ member[m].admin = None
        /\ \A c \in ClaimsOf(m) :
               /\ conn[c].st \notin Confirmed
               /\ conn[c].st \in {"open", "claimed"} => conn[c].late

\* All members of S are protected from claims, or none.
QueueCleanupBulk(S) ==
    /\ Cleanable(S)
    /\ member' = [m \in Members |->
           IF m \in S THEN [member[m] EXCEPT !.st = "deleting"]
           ELSE member[m]]
    /\ conn' = [c \in Claims |->
           IF conn[c].m \in S /\ conn[c].st \in {"open", "claimed"}
           THEN [conn[c] EXCEPT !.st = "lapsed"] ELSE conn[c]]
    /\ Kick(S)

QueueCleanup(S) ==
    /\ S # {} /\ S \subseteq Live
    /\ QueueCleanupBulk(S)
    /\ UNCHANGED <<farm, batch, dns, workers, req, raced, bounds>>

\* The whole batch: an empty one is deleted, the others are cleaned first.
QueueBatchCleanup(b) ==
    /\ batch[b].st = "live" /\ ~batch[b].cleanup
    /\ IF MembersOf(b) = {}
       THEN batch' = [batch EXCEPT ![b].st = "gone"]
            /\ UNCHANGED <<member, conn, kicks>>
       ELSE /\ QueueCleanupBulk(MembersOf(b))
            /\ batch' = [batch EXCEPT ![b].cleanup = TRUE]
    /\ UNCHANGED <<farm, dns, workers, req, raced, bounds>>

-----------------------------------------------------------------------------
(* The runner: a worker takes a kicked session under the session's lock.   *)

\* A slip: a member that is queued for cleanup is not kicked again.
ReconcileCleanupSlip(m) ==
    /\ member[m].st \in Building
    /\ m \notin kicks
    /\ kicks' = kicks \cup {m}
    /\ UNCHANGED <<farm, rows, dns, workers, req, raced, bounds>>

\* reconcile, every ten seconds: unfinished members are kicked again.  The
\* batches it finalizes were deleted with their last member already.
Reconcile(m) ==
    /\ member[m].st \in Building \cup {"deleting"}
    /\ m \notin kicks
    /\ kicks' = kicks \cup {m}
    /\ UNCHANGED <<farm, rows, dns, workers, req, raced, bounds>>

\* A kick whose session's lock is taken is dropped.
DropKick(m) ==
    /\ m \in kicks /\ run[m] # "idle"
    /\ kicks' = kicks \ {m}
    /\ UNCHANGED <<farm, rows, dns, workers, req, raced, bounds>>

\* cleanupPoolSession refuses a member that is not, or no longer, unclaimed.
Unclaimed(m) ==
    /\ member[m].admin = None
    /\ \A c \in ClaimsOf(m) : conn[c].st \notin Confirmed

\* runOne: what the status, read once under the lock, asks for.
RunOne(m) ==
    /\ m \in kicks /\ run[m] = "idle"
    /\ Cardinality({k \in Members : run[k] # "idle"}) < Workers
    /\ kicks' = kicks \ {m}
    /\ run' = [run EXCEPT ![m] =
           IF member[m].st = "deleting"
           THEN IF Unclaimed(m) THEN "stop" ELSE "idle"
           ELSE IF member[m].st \in {"pool_waiting", "running", "failed",
                                     "none", "gone"} THEN "idle"
           ELSE "prepare"]
    /\ UNCHANGED <<farm, rows, dns, act, del, req, raced, bounds>>

At(m, pc) == run[m] = pc
Go(m, pc) == run' = [run EXCEPT ![m] = pc]

\* prepareSession: nothing when the record is known, else EnsureARecord.
Prepare(m) ==
    /\ At(m, "prepare")
    /\ \/ member[m].st \in {"deleting", "gone"}
          /\ Go(m, "error") /\ UNCHANGED <<dns, faults>>
       \/ member[m].st \notin {"deleting", "gone"} /\ member[m].record
          /\ Go(m, "build") /\ UNCHANGED <<dns, faults>>
       \/ member[m].st \notin {"deleting", "gone"} /\ ~member[m].record
          /\ \/ dns' = dns \cup {m} /\ Go(m, "record") /\ UNCHANGED faults
             \/ Fault /\ Go(m, "error") /\ UNCHANGED dns
    /\ UNCHANGED <<farm, rows, kicks, act, del, req, raced, crashes>>

\* The record id is saved unless the session is being deleted.
SaveRecord(m) ==
    /\ At(m, "record")
    /\ IF member[m].st \in {"deleting", "gone"}
       THEN Go(m, "error") /\ UNCHANGED member
       ELSE Go(m, "build")
            /\ member' = [member EXCEPT ![m].record = TRUE]
    /\ UNCHANGED <<farm, batch, conn, dns, kicks, act, del, req, raced,
                   bounds>>

\* BuildPool: a claimed or deleted session is a conflict, a waiting one is
\* done; a session with a DID only publishes it again.
Build(m) ==
    /\ At(m, "build")
    /\ Go(m, IF member[m].admin # None \/ member[m].st \in {"deleting", "gone"}
             THEN "error"
             ELSE IF member[m].st = "pool_waiting" THEN "idle"
             ELSE IF member[m].did THEN "publish" ELSE "setup")
    /\ UNCHANGED <<farm, rows, dns, kicks, act, del, req, raced, bounds>>

\* runSetup: the Job is created and the status written, or it is failed.
Setup(m) ==
    /\ At(m, "setup")
    /\ \/ Write(m, "vta_setup_running") /\ Go(m, "job") /\ UNCHANGED faults
       \/ Fault /\ Write(m, "failed") /\ Go(m, "check")
    /\ UNCHANGED <<farm, batch, conn, dns, kicks, act, del, req, raced,
                   crashes>>

\* The Job's log yields the DID, or the setup is failed.
SetupJob(m) ==
    /\ At(m, "job")
    /\ \/ /\ member' = [member EXCEPT ![m].did = TRUE,
                            ![m].st = IF @ = "gone" THEN @
                                      ELSE "pool_publishing"]
          /\ Go(m, "publish_new") /\ UNCHANGED faults
       \/ Fault /\ Write(m, "failed") /\ Go(m, "check")
    /\ UNCHANGED <<farm, batch, conn, dns, kicks, act, del, req, raced,
                   crashes>>

\* publishPoolDID: registered unless it resolves already; the status follows
\* unless the session is being deleted.
Publish(m) ==
    /\ run[m] \in {"publish", "publish_new"}
    /\ \/ /\ Go(m, "check") /\ UNCHANGED faults
          /\ IF member[m].st \in {"deleting", "gone"} THEN UNCHANGED member
             ELSE Set(m, "pool_prepared")
       \/ /\ Fault
          /\ IF run[m] = "publish" THEN Go(m, "error") /\ UNCHANGED member
             ELSE Go(m, "check") /\ Write(m, "failed")
    /\ UNCHANGED <<farm, batch, conn, dns, kicks, act, del, req, raced,
                   crashes>>

\* Only a prepared session gets its parked Deployment, Service and Ingress.
Check(m) ==
    /\ At(m, "check")
    /\ \/ member[m].st # "pool_prepared" /\ Go(m, "error")
          /\ UNCHANGED faults
       \/ /\ member[m].st = "pool_prepared"
          /\ \/ Go(m, "park") /\ UNCHANGED faults
             \/ Fault /\ Go(m, "error")
    /\ UNCHANGED <<farm, rows, dns, kicks, act, del, req, raced, crashes>>

\* The last write of a build, whatever the status is by now.
Park(m) ==
    /\ At(m, "park")
    /\ Write(m, "pool_waiting")
    /\ Go(m, "idle")
    /\ UNCHANGED <<farm, batch, conn, dns, kicks, act, del, req, raced,
                   bounds>>

\* recordBuildError: failed, unless the session is being deleted.
RecordBuildError(m) ==
    /\ At(m, "error")
    /\ IF member[m].st \in {"deleting", "gone"} THEN UNCHANGED member
       ELSE Set(m, "failed")
    /\ Go(m, "idle")
    /\ UNCHANGED <<farm, batch, conn, dns, kicks, act, del, req, raced,
                   bounds>>

-----------------------------------------------------------------------------
(* Deletion: the runner's cleanup of inventory, and the owner's of a VTA.  *)

\* connection.Stop: deleting, and every claim of the session ends.
Stop(m) ==
    /\ member' = [member EXCEPT ![m].st = "deleting"]
    /\ conn' = [c \in Claims |->
           IF conn[c].m # m THEN conn[c]
           ELSE IF conn[c].st \in {"open", "claimed"}
           THEN [conn[c] EXCEPT !.st = "lapsed"]
           ELSE IF conn[c].st = "provisioning"
           THEN [conn[c] EXCEPT !.st = "cancelled"] ELSE conn[c]]

\* A slip: the record is left at Cloudflare.
DeleteRecordSlip(m) == UNCHANGED <<dns, faults>>

\* The DNS record is deleted by its saved id; the other resources are
\* removed best-effort.
DeleteRecord(m) ==
    /\ dns' = IF member[m].record THEN dns \ {m} ELSE dns
    /\ UNCHANGED faults

\* The last transaction: membership, session (its claims go with it), user,
\* and the batch that was waiting for its last member.
DropRows(m) ==
    LET b == member[m].batch
        last == batch[b].cleanup /\ MembersOf(b) \subseteq {m}
    IN /\ member' = [member EXCEPT ![m] =
              [NoMember EXCEPT !.st = "gone", !.batch = b,
                               !.record = member[m].record]]
       /\ conn' = [c \in Claims |->
              IF conn[c].m = m THEN [NoClaim EXCEPT !.st = "gone"]
              ELSE conn[c]]
       /\ batch' = [batch EXCEPT ![b].st = IF last THEN "gone" ELSE @]

\* cleanupSession: Cancel, which waits for the activation worker's lock.
CleanupStop(m) ==
    /\ At(m, "stop")
    /\ act[m].pc = "idle"
    /\ Stop(m)
    /\ Go(m, "delete")
    /\ UNCHANGED <<farm, batch, dns, kicks, act, del, req, raced, bounds>>

\* A DNS record that cannot be deleted leaves the member to the next kick.
CleanupDelete(m) ==
    /\ At(m, "delete")
    /\ \/ DeleteRecord(m) /\ Go(m, "drop")
       \/ Fault /\ member[m].record /\ Go(m, "idle") /\ UNCHANGED dns
    /\ UNCHANGED <<farm, rows, kicks, act, del, req, raced, crashes>>

CleanupDrop(m) ==
    /\ At(m, "drop")
    /\ DropRows(m)
    /\ Go(m, "idle")
    /\ UNCHANGED <<farm, dns, kicks, act, del, req, raced, bounds>>

\* The owner, or an admin, deletes a claimed VTA: teardownSession refuses an
\* unclaimed member; Stop, and the local activation worker is cancelled.
OwnerDelete(m) ==
    /\ del[m] = "idle"
    /\ member[m].admin # None
    /\ Stop(m)
    /\ del' = [del EXCEPT ![m] = "wait"]
    /\ act' = [act EXCEPT ![m].cancelled = (act[m].pc # "idle")]
    /\ UNCHANGED <<farm, batch, dns, kicks, run, req, raced, bounds>>

\* The activation worker's lock is free, or the request gives up on it.
OwnerWait(m) ==
    /\ del[m] = "wait"
    /\ del' = [del EXCEPT ![m] =
                  IF act[m].pc = "idle" THEN "delete" ELSE "idle"]
    /\ UNCHANGED <<farm, rows, dns, kicks, run, act, req, raced, bounds>>

OwnerDeleteRecord(m) ==
    /\ del[m] = "delete"
    /\ \/ DeleteRecord(m) /\ del' = [del EXCEPT ![m] = "drop"]
       \/ Fault /\ member[m].record /\ del' = [del EXCEPT ![m] = "idle"]
          /\ UNCHANGED dns
    /\ UNCHANGED <<farm, rows, kicks, run, act, req, raced, crashes>>

OwnerDrop(m) ==
    /\ del[m] = "drop"
    /\ DropRows(m)
    /\ del' = [del EXCEPT ![m] = "idle"]
    /\ UNCHANGED <<farm, dns, kicks, run, act, req, raced, bounds>>

-----------------------------------------------------------------------------
(* Activation of a confirmed member (module Activation has its gate).      *)

\* The provisioning queue: a worker takes the session's lock and loads it.
TakeActivation(m) ==
    /\ act[m].pc = "idle"
    /\ member[m].st = "provisioning" /\ member[m].admin # None
    /\ act' = [act EXCEPT ![m] = [pc |-> "loaded", cancelled |-> FALSE]]
    /\ UNCHANGED <<farm, rows, dns, kicks, run, del, req, raced, bounds>>

ActGo(m, pc) == act' = [act EXCEPT ![m] =
    [pc |-> pc, cancelled |-> pc # "idle" /\ act[m].cancelled]]

\* runProvision begins by writing the status it is at.
StartActivation(m) ==
    /\ act[m].pc = "loaded"
    /\ Write(m, "provisioning")
    /\ ActGo(m, "activate")
    /\ UNCHANGED <<farm, batch, conn, dns, kicks, run, del, req, raced,
                   bounds>>

\* The hosting ACL, the confirmed claim and the patch that starts the pod; a
\* cancelled worker stops silently or records the failure.
Activate(m) ==
    /\ act[m].pc = "activate"
    /\ \/ /\ ~act[m].cancelled
          /\ \E c \in ClaimsOf(m) : c = member[m].admin
                 /\ conn[c].st \in {"provisioning", "released"}
          /\ \/ member' = [member EXCEPT ![m].pod = TRUE]
                /\ ActGo(m, "ready") /\ UNCHANGED faults
             \/ Fault /\ Write(m, "failed") /\ ActGo(m, "idle")
       \/ /\ ~act[m].cancelled
          /\ \A c \in ClaimsOf(m) : c = member[m].admin
                 => conn[c].st \notin {"provisioning", "released"}
          /\ Write(m, "failed") /\ ActGo(m, "idle") /\ UNCHANGED faults
       \/ /\ act[m].cancelled
          /\ (Write(m, "failed") \/ UNCHANGED member)
          /\ ActGo(m, "idle") /\ UNCHANGED faults
    /\ UNCHANGED <<farm, batch, conn, dns, kicks, run, del, req, raced,
                   crashes>>

\* The pod became ready: running, whatever the status is by now; or it did
\* not, or the wait was cancelled.
FinishActivation(m) ==
    /\ act[m].pc = "ready"
    /\ \/ /\ Write(m, "running") /\ ActGo(m, "release") /\ UNCHANGED faults
          /\ raced' = (raced \/ \E r \in Requests : req[r].held)
       \/ Fault /\ Write(m, "failed") /\ ActGo(m, "idle") /\ UNCHANGED raced
       \/ act[m].cancelled /\ ActGo(m, "idle")
          /\ UNCHANGED <<member, faults, raced>>
    /\ UNCHANGED <<farm, batch, conn, dns, kicks, run, del, req, crashes>>

\* MarkReleased on the latest claim; one that ended meanwhile stays.
ReleaseClaim(m) ==
    /\ act[m].pc = "release"
    /\ conn' = [c \in Claims |->
           IF c = member[m].cur /\ conn[c].st = "provisioning"
           THEN [conn[c] EXCEPT !.st = "released"] ELSE conn[c]]
    /\ ActGo(m, "idle")
    /\ UNCHANGED <<farm, batch, member, dns, kicks, run, del, req, raced,
                   bounds>>

\* The process ends: workers, requests and the queue are gone.
Crash ==
    /\ crashes < farm.crashes
    /\ crashes' = crashes + 1
    /\ kicks' = {}
    /\ run' = [m \in Members |-> "idle"]
    /\ act' = [m \in Members |-> [pc |-> "idle", cancelled |-> FALSE]]
    /\ del' = [m \in Members |-> "idle"]
    /\ req' = [r \in Requests |-> NoRequest]
    /\ UNCHANGED <<farm, rows, dns, raced, faults>>

-----------------------------------------------------------------------------
Admission ==
    \/ \E r \in Requests : ReadCapacity(r) \/ Refused(r)
    \/ \E r \in Requests, b \in Batches, n \in Members :
           Admit(r, b, n) \/ AddInventory(r, b, n)
    \/ \E b \in Batches, on \in BOOLEAN : SetPublicSignup(b, on)

Reserving ==
    \/ \E m \in Members : Reserve(m)
    \/ \E m \in Members, w \in Browsers : ReservePublic(m, w)
    \/ \E c \in Claims : Claim(c) \/ Expire(c) \/ Confirm(c) \/ Reject(c)
                         \/ View(c)

Operating ==
    \/ \E m \in Members : RetryActivation(m) \/ RetryBuild(m)
                          \/ OwnerDelete(m)
    \/ \E S \in SUBSET Members : QueueCleanup(S)
    \/ \E b \in Batches : QueueBatchCleanup(b)

WorkerStep(m) ==
    \/ Prepare(m) \/ SaveRecord(m) \/ Build(m) \/ Setup(m) \/ SetupJob(m)
    \/ Publish(m) \/ Check(m) \/ Park(m) \/ RecordBuildError(m)
    \/ CleanupStop(m) \/ CleanupDelete(m) \/ CleanupDrop(m)

ActivationStep(m) ==
    \/ TakeActivation(m) \/ StartActivation(m) \/ Activate(m)
    \/ FinishActivation(m) \/ ReleaseClaim(m)

DeletionStep(m) == OwnerWait(m) \/ OwnerDeleteRecord(m) \/ OwnerDrop(m)

Next ==
    \/ Admission \/ Reserving \/ Operating \/ Crash
    \/ \E m \in Members :
           \/ Reconcile(m) \/ DropKick(m) \/ RunOne(m)
           \/ WorkerStep(m) \/ ActivationStep(m) \/ DeletionStep(m)

\* Goroutines that run take their steps and the ten-second tick comes round;
\* the queue is a channel, first in first out, so a kick that waits is taken
\* (strong: the worker may be busy again and again meanwhile).
Fairness ==
    \A m \in Members :
        /\ WF_vars(Reconcile(m))
        /\ SF_vars(RunOne(m))
        /\ WF_vars(WorkerStep(m))
        /\ WF_vars(ActivationStep(m))

Spec == Init /\ [][Next]_vars
FairSpec == Spec /\ Fairness

-----------------------------------------------------------------------------
TypeOK ==
    /\ farm \in Farms
    /\ batch \in [Batches -> [st : {"none", "live", "gone"},
                              on : BOOLEAN, cleanup : BOOLEAN]]
    /\ member \in [Members ->
           [st : Statuses, batch : Batches \cup {None},
            admin : Claims \cup {None}, did : BOOLEAN, record : BOOLEAN,
            cur : Claims \cup {None}, pod : BOOLEAN]]
    /\ conn \in [Claims ->
           [st : {"none", "gone", "lapsed", "rejected"} \cup Active
                 \cup Confirmed,
            m : Members \cup {None}, late : BOOLEAN,
            by : Browsers \cup {None}]]
    /\ dns \subseteq Members /\ kicks \subseteq Members
    /\ run \in [Members ->
           {"idle", "prepare", "record", "build", "setup", "job", "publish",
            "publish_new", "check", "park", "error", "stop", "delete",
            "drop"}]
    /\ act \in [Members ->
           [pc : {"idle", "loaded", "activate", "ready", "release"},
            cancelled : BOOLEAN]]
    /\ del \in [Members -> {"idle", "wait", "delete", "drop"}]
    /\ req \in [Requests -> [held : BOOLEAN, cap : 0..MaxSessions]]
    /\ raced \in BOOLEAN
    /\ crashes \in 0..farm.crashes /\ faults \in 0..farm.faults

\* Two operators, or an operator and a browser, never hold the same session:
\* of a member's claims at most one is active, and its key is the member's
\* administrator only when it is the confirmed one (the advisory lock of
\* store.go: "so two operators cannot select the same waiting session").
OneHolder ==
    \A c, d \in Claims :
        (c # d /\ conn[c].m # None /\ conn[c].m = conn[d].m) =>
            /\ ~(conn[c].st \in Active \cup {"released"}
                 /\ conn[d].st \in Active \cup {"released"})
            /\ conn[c].st \in Active => member[conn[c].m].cur = c

\* A browser that retries, loses an answer or races itself holds one claim.
OneClaimPerBrowser ==
    \A c, d \in Claims :
        (conn[c].by # None /\ conn[c].by = conn[d].by) => c = d

\* A session someone confirmed never becomes inventory again: no build,
\* retry or cleanup of the pool touches it, and its administrator stays.
ClaimedIsKept ==
    [][\A m \in Members :
        member[m].admin # None =>
            \/ member'[m].st = "gone"
            \/ member'[m].admin = member[m].admin
               /\ member'[m].st \notin Inventory]_vars

\* Inventory that was queued for cleanup stays on its way out, whatever
\* worker was still busy with it.
CleanupIsFinal ==
    [][\A m \in Members :
        (member[m].st = "deleting" /\ member[m].admin = None) =>
            member'[m].st \in {"deleting", "gone"}]_vars

\* A batch that is being cleaned, or is gone, has no member that is not on
\* its way out: none is added, retried or handed over.
CleanedBatchDrains ==
    \A b \in Batches :
        /\ batch[b].cleanup =>
               \A m \in MembersOf(b) : member[m].st = "deleting"
        /\ batch[b].st = "gone" => MembersOf(b) = {}

\* A session that is gone leaves no DNS record behind whose id it knew,
\* whatever failed or ended between its creation and its deletion.
NoOrphanRecord ==
    \A m \in dns : member[m].st = "gone" => ~member[m].record

\* Admission on snapshots taken outside the lock never promises more sessions
\* than the cluster can hold, also when two administrators hold the same one:
\* every member that was admitted and is not gone could be placed in the
\* cluster that is free without the pool, one after the other.  Unless a
\* member began to run while a request held its snapshot (raced): it left the
\* count, but its pod is not in the snapshot.
NeverOverAdmitted ==
    ~raced => Placing(VtaOnly, farm.cluster, 1, FALSE)[Cardinality(Live)].ok

\* Every member that is being built settles: parked, failed, or claimed and
\* deleted later, across process ends and dropped kicks.
BuildSettles ==
    \A m \in Members :
        (member[m].st \in Building) ~> (member[m].st \notin Building)

\* Inventory queued for cleanup is removed, also when Cloudflare fails first
\* or the process ends in the middle.
CleanupEnds ==
    \A m \in Members :
        (member[m].st = "deleting" /\ member[m].admin = None)
            ~> (member[m].st = "gone")

\* Nobody shares: neither a session nor, for a browser, a second claim
\* (store.go: Reserve, ReservePublic).
ExclusiveClaims == OneHolder /\ OneClaimPerBrowser

\* Cleanup is complete for the batch and for the names of its members
\* (store.go: QueueBatchCleanup; setup.go: cleanupPoolSession).
CleanupIsComplete == CleanedBatchDrains /\ NoOrphanRecord

\* A worker that was still busy with a member takes it back from nobody:
\* neither from the one who confirmed it nor from its cleanup (runner.go,
\* orchestrator.go: BuildPool's last write).
MembersKeepCourse == ClaimedIsKept /\ CleanupIsFinal

\* What the runner owes it does in the end (runner.go: reconcile).
MembersSettle == BuildSettles /\ CleanupEnds
=============================================================================
