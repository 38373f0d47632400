----------------------------- MODULE Connection -----------------------------
(***************************************************************************)
(* The administrator gate of a setup session: claim reservations (table    *)
(* mobile_connections), the manual route, and the workers that act on what *)
(* was accepted (src/internal/connection/store.go and its callers).        *)
(*                                                                         *)
(* Every store function is one PostgreSQL transaction that first locks the *)
(* setup-session row, so it is one action.  What happens between two such  *)
(* transactions is a step of its own: the Confirm handler and the          *)
(* StartProvisioning it calls afterwards, the provisioning worker's loads  *)
(* and writes, the grant worker of either replica, a reader that calls     *)
(* Reconcile with rows it loaded earlier, and the end of a process.        *)
(*                                                                         *)
(* Time is two flags per reservation.  `cooled`: five seconds have passed  *)
(* since it was created.  `late`: the deadline of its present stage has    *)
(* passed, expires_at while open and confirm_by while claimed (both five   *)
(* minutes, hence late => cooled).                                         *)
(***************************************************************************)
EXTENDS Naturals, FiniteSets

CONSTANTS Sessions,    \* setup sessions that reached their administrator gate
          FullStack,   \* those in mode full_stack; the others are vta_only
          Keys,        \* did:key values a wallet or the owner can present
          NoKey,       \* admin_did = ''
          Replicas,    \* API processes able to run a grant job
          Recoveries,  \* bound: names for the recovery goroutines of a session
          MaxRequests, \* bound: reservations ever created
          MaxFaults    \* bound: process ends and lost heartbeats

ASSUME ConnectionAssumption ==
    /\ Sessions # {}
    /\ FullStack \subseteq Sessions
    /\ NoKey \notin Keys
    /\ MaxRequests \in Nat
    /\ MaxFaults \in Nat

Ids == 1 .. MaxRequests

VARIABLES sess,      \* setup_sessions: status, admin_did and failed_stage
          conn,      \* mobile_connections, in order of created_at
          last,      \* number of reservations created so far
          starting,  \* Confirm handlers between the commit and startWorker
          worker,    \* the provisioning worker holding the session's lock
          rec,       \* the recovery goroutines of the session
          boot,      \* sessions a restarted process has not looked at yet
          job,       \* the additional-administrator job of each replica
          view,      \* a reader between loading its rows and Reconcile
          acl,       \* the VTA's own access-control list (in its volume)
          approved,  \* history: keys a person approved
          bound,     \* wallet_login_bindings written by MarkReleased
          faults

vars == <<sess, conn, last, starting, worker, rec, boot, job, view, acl,
          approved, bound, faults>>

----------------------------------------------------------------------------
(* Vocabulary *)

\* finalStatus also knows "expired", a retired name that no code writes any more.
Final  == {"released", "rejected", "lapsed", "cancelled", "failed"}
Active == {"open", "claimed", "confirmed", "provisioning"}
ConnStatus == {"free"} \cup Active \cup Final   \* "free": not created yet

GateStatus == {"vta_setup_complete", "awaiting_admin_did", "pool_waiting"}

\* The pipeline behind the gate.  step_import_admin_did stands for itself and
\* for step_vtc_setup_key and step_vtc_acl_grant, which nothing here tells apart
\* from it.
Deployed    == {"deploy_vta", "step_vtc_setup", "deploy_vtc"}
Resumable   == {"provisioning", "step_import_admin_did"} \cup Deployed
QueueStatus == Resumable \ {"deploy_vta", "deploy_vtc"}
SessStatus  == GateStatus \cup Resumable \cup {"running", "failed", "deleting"}

\* The statuses of the full-stack chain, in their order.
Following(step) == CASE step = "imported"       -> "deploy_vta"
                     [] step = "deploy_vta"     -> "step_vtc_setup"
                     [] step = "step_vtc_setup" -> "deploy_vtc"

WorkerSteps == {"importing", "imported"} \cup Deployed

Gate(s)      == IF s \in FullStack THEN "awaiting_admin_did"
                                   ELSE "vta_setup_complete"
Provision(s) == IF s \in FullStack THEN "step_import_admin_did"
                                   ELSE "provisioning"

Blank == [session |-> CHOOSE s \in Sessions : TRUE, status |-> "free",
          op |-> "", admin |-> NoKey, confirmed |-> FALSE,
          late |-> FALSE, cooled |-> FALSE]

NoView == [id |-> 0, status |-> "free", op |-> "", admin |-> NoKey,
           sstatus |-> "failed", sadmin |-> NoKey]

Idle   == [pc |-> "idle", key |-> NoKey, cancelled |-> FALSE]
Asleep == [pc |-> "idle", cancelled |-> FALSE]
IdleJob(s) == [pc |-> "idle", id |-> 0, session |-> s, key |-> NoKey]

Ready(s) == sess[s].status \in GateStatus

Rows(s) == {c \in Ids : c <= last /\ conn[c].session = s}

\* Current(session) = c: the row with the latest created_at.
IsCurrent(s, c) == c \in Rows(s) /\ \A d \in Rows(s) : d <= c

\* What a claim would do to this session; "" is ErrConflict.
OperationFor(s) ==
    IF Ready(s) /\ sess[s].admin = NoKey THEN "provision_vta"
    ELSE IF sess[s].status = "running" THEN "grant_acl" ELSE ""

\* markFailedAt: the first failure's stage is kept.
Failed(r, stage) == [r EXCEPT !.status = "failed",
                              !.stage = IF r.status = "failed" THEN @ ELSE stage]

\* Slip: the retired status name "expired".
LapseAsExpired(r) == [r EXCEPT !.status = "expired", !.admin = NoKey]

Lapse(r) == [r EXCEPT !.status = "lapsed", !.admin = NoKey]

Init ==
    /\ sess = [s \in Sessions |-> [status |-> Gate(s), admin |-> NoKey,
                                   stage |-> ""]]
    /\ conn = [c \in Ids |-> Blank]
    /\ last = 0
    /\ starting = {}
    /\ worker = [s \in Sessions |-> Idle]
    /\ rec = [s \in Sessions |-> [g \in Recoveries |-> Asleep]]
    /\ boot = {}
    /\ job = [r \in Replicas |-> IdleJob(Blank.session)]
    /\ view = NoView
    /\ acl = [s \in Sessions |-> {}]
    /\ approved = [s \in Sessions |-> {}]
    /\ bound = [s \in Sessions |-> {}]
    /\ faults = 0

----------------------------------------------------------------------------
(* The owner's reservation: create, refresh, cancel *)

\* The row insert of change(): a replaced open reservation lapses.
InsertFor(s) ==
    /\ last < MaxRequests
    /\ last' = last + 1
    /\ conn' = [c \in Ids |->
          IF c = last + 1
          THEN [Blank EXCEPT !.session = s, !.status = "open",
                             !.op = OperationFor(s)]
          ELSE IF IsCurrent(s, c) /\ conn[c].status = "open"
               THEN [conn[c] EXCEPT !.status = "lapsed"] ELSE conn[c]]

\* Slip: a reservation waiting for its confirmation gives way too.
ReplaceableClaimed(c) ==
    conn[c].status \in Final \cup {"open", "claimed"} /\ conn[c].cooled

\* The current reservation gives way only when final or open, and not within
\* five seconds of its creation.
Replaceable(c) == conn[c].status \in Final \cup {"open"} /\ conn[c].cooled

\* An unexpired open reservation is returned as it is; an expired one is
\* replaced.  Owner routes never allocate pool inventory.
ChangeCreate(s) ==
    /\ OperationFor(s) # ""
    /\ sess[s].status # "pool_waiting"
    /\ \A c \in Ids : IsCurrent(s, c) =>
          Replaceable(c) /\ (conn[c].status = "open" => conn[c].late)
    /\ InsertFor(s)
    /\ UNCHANGED <<sess, starting, worker, rec, boot, job, view, acl, approved,
                   bound, faults>>

\* The owner names the reservation to replace; it must be the current one.
ChangeRefresh(c) ==
    LET s == conn[c].session IN
    /\ IsCurrent(s, c)
    /\ OperationFor(s) # ""
    /\ sess[s].status # "pool_waiting"
    /\ Replaceable(c)
    /\ InsertFor(s)
    /\ UNCHANGED <<sess, starting, worker, rec, boot, job, view, acl, approved,
                   bound, faults>>

ChangeCancel(c) ==
    /\ IsCurrent(conn[c].session, c)
    /\ conn[c].status = "open"
    /\ conn' = [conn EXCEPT ![c] = Lapse(@)]
    /\ UNCHANGED <<sess, last, starting, worker, rec, boot, job, view, acl,
                   approved, bound, faults>>

----------------------------------------------------------------------------
(* The wallet's claim and the owner's answer to it *)

Claim(c, k) ==
    LET s == conn[c].session IN
    /\ conn[c].status = "open"
    /\ ~conn[c].late
    /\ OperationFor(s) # ""
    /\ conn' = [conn EXCEPT ![c] = [@ EXCEPT !.status = "claimed",
                                             !.op = OperationFor(s),
                                             !.admin = k,
                                             !.confirmed = FALSE]]
    /\ UNCHANGED <<sess, last, starting, worker, rec, boot, job, view, acl,
                   approved, bound, faults>>

\* claim(), Confirm() and Reject() on a reservation whose deadline passed
\* write "lapsed" and then return ErrExpired, which rolls the write back: no
\* step.
\* The handler goes on to StartProvisioning in a second transaction.
Confirm(c) ==
    /\ conn[c].status = "claimed"
    /\ ~conn[c].late
    /\ conn' = [conn EXCEPT ![c] = [@ EXCEPT !.status = "confirmed",
                                             !.confirmed = TRUE]]
    /\ approved' = [approved EXCEPT ![conn[c].session] = @ \cup {conn[c].admin}]
    /\ starting' = starting \cup {c}
    /\ UNCHANGED <<sess, last, worker, rec, boot, job, view, acl, bound, faults>>

\* Slip: the rejected candidate's key stays in the row.
RejectKeepsKey(c) ==
    /\ conn[c].status = "claimed"
    /\ ~conn[c].late
    /\ conn' = [conn EXCEPT ![c] = [@ EXCEPT !.status = "rejected"]]
    /\ UNCHANGED <<sess, last, starting, worker, rec, boot, job, view, acl,
                   approved, bound, faults>>

Reject(c) ==
    /\ conn[c].status = "claimed"
    /\ ~conn[c].late
    /\ conn' = [conn EXCEPT ![c] = [@ EXCEPT !.status = "rejected",
                                             !.admin = NoKey]]
    /\ UNCHANGED <<sess, last, starting, worker, rec, boot, job, view, acl,
                   approved, bound, faults>>

----------------------------------------------------------------------------
(* Starting what was confirmed *)

\* Slip: a claim is started before the person confirmed it.
StartableUnconfirmed(c) ==
    /\ conn[c].status \in {"claimed", "confirmed"}
    /\ conn[c].op = "grant_acl" => sess[conn[c].session].status = "running"

\* Whether the transaction of StartProvisioning moves the reservation on; it
\* does not look at the session's status for provision_vta beyond the pool's.
Startable(c) ==
    LET s == conn[c].session IN
    /\ conn[c].status = "confirmed"
    /\ \/ /\ conn[c].op = "provision_vta"
          /\ sess[s].status = "pool_waiting" => conn[c].confirmed
       \/ /\ conn[c].op = "grant_acl"
          /\ sess[s].status = "running"

StartProvisioning(c) ==
    LET s == conn[c].session IN
    /\ sess' = IF conn[c].op = "provision_vta"
               THEN [sess EXCEPT ![s] = [@ EXCEPT !.status = Provision(s),
                                                  !.admin = conn[c].admin]]
               ELSE sess
    /\ conn' = [conn EXCEPT ![c] = [@ EXCEPT !.status = "provisioning"]]

\* startWorker, reached by the Confirm request that is still being served.
StartWorker(c) ==
    /\ c \in starting
    /\ starting' = starting \ {c}
    /\ IF Startable(c) THEN StartProvisioning(c) ELSE UNCHANGED <<sess, conn>>
    /\ UNCHANGED <<last, worker, rec, boot, job, view, acl, approved, bound, faults>>

\* The owner's GET of the current reservation starts a confirmed one.
OwnerCurrent(c) ==
    /\ IsCurrent(conn[c].session, c)
    /\ Startable(c)
    /\ StartProvisioning(c)
    /\ UNCHANGED <<last, starting, worker, rec, boot, job, view, acl, approved,
                   bound, faults>>

----------------------------------------------------------------------------
(* The manual route *)

LapseOpen(s) ==
    conn' = [c \in Ids |->
               IF c \in Rows(s) /\ conn[c].status = "open"
               THEN [conn[c] EXCEPT !.status = "lapsed"] ELSE conn[c]]

\* Slip: the manual route does not look at the wallet's reservation.
AcceptManualRacing(s, k) ==
    /\ sess[s].status # "pool_waiting"
    /\ sess[s].admin = NoKey
    /\ Ready(s)
    /\ sess' = [sess EXCEPT ![s] = [@ EXCEPT !.status = Provision(s), !.admin = k]]
    /\ approved' = [approved EXCEPT ![s] = @ \cup {k}]
    /\ LapseOpen(s)
    /\ UNCHANGED <<last, starting, worker, rec, boot, job, view, acl, bound, faults>>

AcceptManual(s, k) ==
    /\ sess[s].status # "pool_waiting"
    /\ \A c \in Ids : IsCurrent(s, c) => conn[c].status \notin Active \ {"open"}
    /\ sess[s].admin = NoKey
    /\ Ready(s)
    /\ sess' = [sess EXCEPT ![s] = [@ EXCEPT !.status = Provision(s), !.admin = k]]
    /\ approved' = [approved EXCEPT ![s] = @ \cup {k}]
    /\ LapseOpen(s)
    /\ UNCHANGED <<last, starting, worker, rec, boot, job, view, acl, bound, faults>>

----------------------------------------------------------------------------
(* The provisioning worker (one per session: it holds an advisory lock).    *)
(* Its status writes carry no condition on the status they replace.         *)

\* The queue, or the request that accepted the administrator, starts a worker.
KickProvision(s) ==
    /\ worker[s].pc = "idle"
    /\ sess[s].status \in QueueStatus
    /\ sess[s].admin # NoKey
    /\ worker' = [worker EXCEPT ![s] = [pc |-> "kicked", key |-> NoKey,
                                        cancelled |-> FALSE]]
    /\ UNCHANGED <<sess, conn, last, starting, rec, boot, job, view, acl,
                   approved, bound, faults>>

\* With the advisory lock in hand the worker looks at the session again.
WorkerLoad(s) ==
    /\ worker[s].pc = "kicked"
    /\ worker' = [worker EXCEPT ![s] =
          IF sess[s].status \in Resumable /\ sess[s].admin # NoKey
          THEN [@ EXCEPT !.pc = "loaded", !.key = sess[s].admin] ELSE Idle]
    /\ UNCHANGED <<sess, conn, last, starting, rec, boot, job, view, acl,
                   approved, bound, faults>>

WorkerBegin(s) ==
    /\ worker[s].pc = "loaded"
    /\ sess' = [sess EXCEPT ![s] = [@ EXCEPT !.status = Provision(s),
                                             !.admin = worker[s].key]]
    /\ worker' = [worker EXCEPT ![s] = [@ EXCEPT !.pc = "importing"]]
    /\ UNCHANGED <<conn, last, starting, rec, boot, job, view, acl, approved,
                   bound, faults>>

\* The provision job writes the key into the VTA's store.
WorkerImport(s) ==
    /\ worker[s].pc = "importing"
    /\ acl' = [acl EXCEPT ![s] = @ \cup {worker[s].key}]
    /\ worker' = [worker EXCEPT ![s] = [@ EXCEPT !.pc = "imported"]]
    /\ UNCHANGED <<sess, conn, last, starting, rec, boot, job, view, approved,
                   bound, faults>>

\* Full stack: the status is advanced before the work it names begins.
WorkerAdvance(s) ==
    /\ s \in FullStack
    /\ worker[s].pc \in {"imported", "deploy_vta", "step_vtc_setup"}
    /\ sess' = [sess EXCEPT ![s] = [@ EXCEPT !.status = Following(worker[s].pc)]]
    /\ worker' = [worker EXCEPT ![s] = [@ EXCEPT !.pc = Following(worker[s].pc)]]
    /\ UNCHANGED <<conn, last, starting, rec, boot, job, view, acl, approved,
                   bound, faults>>

\* The VTA answers its health probe: running.  Only the vta_only chain clears
\* failed_stage (finishVtaOnlyDeployment), fsSetStatus does not.
WorkerFinish(s) ==
    /\ worker[s].pc = IF s \in FullStack THEN "deploy_vtc" ELSE "imported"
    /\ sess' = [sess EXCEPT ![s] =
          [@ EXCEPT !.status = "running",
                    !.stage = IF s \in FullStack THEN sess[s].stage ELSE ""]]
    /\ worker' = [worker EXCEPT ![s] = Idle]
    /\ UNCHANGED <<conn, last, starting, rec, boot, job, view, acl, approved,
                   bound, faults>>

\* Any step fails.  A vta_only session names the deployment as the stage only
\* when the provision job had succeeded; the job may also fail after its write.
WorkerFail(s) ==
    /\ worker[s].pc \in WorkerSteps
    /\ \E stage \in {sess[s].status} \cup
                    (IF worker[s].pc = "imported" /\ s \notin FullStack
                     THEN {"deploy_vta"} ELSE {}) :
          sess' = [sess EXCEPT ![s] = Failed(@, stage)]
    /\ worker' = [worker EXCEPT ![s] = Idle]
    /\ UNCHANGED <<conn, last, starting, rec, boot, job, view, acl, approved,
                   bound, faults>>

\* The heartbeat on the lock's connection: it cancels the worker of a session
\* that is being deleted, and any worker when one ping fails or takes more than
\* three seconds.
WorkerPing(s) ==
    /\ worker[s].pc # "idle"
    /\ ~worker[s].cancelled
    /\ \/ sess[s].status = "deleting" /\ UNCHANGED faults
       \/ faults < MaxFaults /\ faults' = faults + 1
    /\ worker' = [worker EXCEPT ![s] = [@ EXCEPT !.cancelled = TRUE]]
    /\ UNCHANGED <<sess, conn, last, starting, rec, boot, job, view, acl,
                   approved, bound>>

\* The cancelled context: the worker returns and records nothing, whatever the
\* session's status.
WorkerAbort(s) ==
    /\ worker[s].pc # "idle"
    /\ worker[s].cancelled
    /\ worker' = [worker EXCEPT ![s] = Idle]
    /\ UNCHANGED <<sess, conn, last, starting, rec, boot, job, view, acl,
                   approved, bound, faults>>

----------------------------------------------------------------------------
(* Recovery of a failed or interrupted deployment: a goroutine that holds no *)
(* lock and resumes at the deployment that failed.                           *)

\* The orchestrator's map has the cancel function of one goroutine at most: every
\* goroutine deletes the session's entry as it ends, its own or not.  A cancelled
\* goroutine may still make the status write it is about to make.
CancelRecoveries(s, cut) ==
    [g \in Recoveries |->
        [rec[s][g] EXCEPT !.cancelled = @ \/ (g \in cut /\ rec[s][g].pc # "idle")]]

Launch(s, g) ==
    /\ rec[s][g].pc = "idle"
    /\ \E cut \in SUBSET (Recoveries \ {g}) :
          rec' = [rec EXCEPT ![s] = [CancelRecoveries(s, cut) EXCEPT
                                        ![g] = [pc |-> "launched", cancelled |-> FALSE]]]

\* The owner retries a session that failed at a deployment.
RecoverSession(s, g) ==
    /\ sess[s].status = "failed"
    /\ sess[s].stage \in {"deploy_vta"} \cup
                         (IF s \in FullStack THEN {"deploy_vtc"} ELSE {})
    /\ sess' = [sess EXCEPT ![s] = [@ EXCEPT !.status = sess[s].stage,
                                             !.stage = ""]]
    /\ Launch(s, g)
    /\ UNCHANGED <<conn, last, starting, worker, boot, job, view, acl, approved,
                   bound, faults>>

\* Slip: a deployment of the VTC that was cut short is forgotten.
ResumeDeploymentOfVta(s, g) ==
    /\ s \in boot
    /\ boot' = boot \ {s}
    /\ IF s \in FullStack /\ sess[s].status = "deploy_vta"
       THEN Launch(s, g) ELSE UNCHANGED rec
    /\ UNCHANGED <<sess, conn, last, starting, worker, job, view, acl, approved,
                   bound, faults>>

\* resumeFullStack, once per process start: deployments cut short go on.
ResumeDeployment(s, g) ==
    /\ s \in boot
    /\ boot' = boot \ {s}
    /\ IF s \in FullStack /\ sess[s].status \in {"deploy_vta", "deploy_vtc"}
       THEN Launch(s, g) ELSE UNCHANGED rec
    /\ UNCHANGED <<sess, conn, last, starting, worker, job, view, acl, approved,
                   bound, faults>>

\* A full-stack session in any other status is an error of its own
\* ("unsupported recovery stage"), reported under the status that was loaded.
RecoveryLoad(s, g) ==
    /\ rec[s][g].pc = "launched"
    /\ rec' = [rec EXCEPT ![s][g] =
          IF s \in FullStack \/ sess[s].status = "deploy_vta"
          THEN [@ EXCEPT !.pc = sess[s].status] ELSE Asleep]
    /\ UNCHANGED <<sess, conn, last, starting, worker, boot, job, view, acl,
                   approved, bound, faults>>

RecoveryAdvance(s, g) ==
    /\ s \in FullStack
    /\ rec[s][g].pc \in {"deploy_vta", "step_vtc_setup"}
    /\ sess' = [sess EXCEPT ![s] = [@ EXCEPT !.status = Following(rec[s][g].pc)]]
    /\ rec' = [rec EXCEPT ![s][g] = [@ EXCEPT !.pc = Following(rec[s][g].pc)]]
    /\ UNCHANGED <<conn, last, starting, worker, boot, job, view, acl, approved,
                   bound, faults>>

RecoveryFinish(s, g) ==
    /\ rec[s][g].pc = IF s \in FullStack THEN "deploy_vtc" ELSE "deploy_vta"
    /\ sess' = [sess EXCEPT ![s] = [@ EXCEPT !.status = "running", !.stage = ""]]
    /\ rec' = [rec EXCEPT ![s][g] = Asleep]
    /\ UNCHANGED <<conn, last, starting, worker, boot, job, view, acl, approved,
                   bound, faults>>

\* An error is recorded only when the context is still alive.
RecoveryFail(s, g) ==
    /\ rec[s][g].pc \in SessStatus
    /\ rec' = [rec EXCEPT ![s][g] = Asleep]
    /\ sess' = IF rec[s][g].cancelled THEN sess
               ELSE [sess EXCEPT ![s] = Failed(@, rec[s][g].pc)]
    /\ UNCHANGED <<conn, last, starting, worker, boot, job, view, acl, approved,
                   bound, faults>>

----------------------------------------------------------------------------
(* Additional administrators on a running VTA *)

\* Slip: the queue looks for confirmed requests only.
KickAdditionalOnce(r, c) ==
    /\ job[r].pc = "idle"
    /\ conn[c].op = "grant_acl"
    /\ Startable(c)
    /\ StartProvisioning(c)
    /\ job' = [job EXCEPT ![r] = [pc |-> "started", id |-> c,
                                  session |-> conn[c].session,
                                  key |-> conn[c].admin]]
    /\ UNCHANGED <<last, starting, worker, rec, boot, view, acl, approved, bound, faults>>

\* The queue of any replica finds the request; StartProvisioning comes first.
KickAdditional(r, c) ==
    /\ job[r].pc = "idle"
    /\ conn[c].op = "grant_acl"
    /\ \/ /\ Startable(c)
          /\ StartProvisioning(c)
       \/ /\ conn[c].status = "provisioning"
          /\ UNCHANGED <<sess, conn>>
    /\ job' = [job EXCEPT ![r] = [pc |-> "started", id |-> c,
                                  session |-> conn[c].session,
                                  key |-> conn[c].admin]]
    /\ UNCHANGED <<last, starting, worker, rec, boot, view, acl, approved,
                   bound, faults>>

\* Slip: the owner's grant is accepted before the VTA runs.
OwnerGrantAnytime(r, s, k) ==
    /\ job[r].pc = "idle"
    /\ LapseOpen(s)
    /\ approved' = [approved EXCEPT ![s] = @ \cup {k}]
    /\ job' = [job EXCEPT ![r] = [pc |-> "granting", id |-> 0, session |-> s,
                                  key |-> k]]
    /\ UNCHANGED <<sess, last, starting, worker, rec, boot, view, acl, bound, faults>>

\* GrantSessionAdmin: the owner names a key; open reservations are withdrawn.
OwnerGrant(r, s, k) ==
    /\ job[r].pc = "idle"
    /\ sess[s].status = "running"
    /\ LapseOpen(s)
    /\ approved' = [approved EXCEPT ![s] = @ \cup {k}]
    /\ job' = [job EXCEPT ![r] = [pc |-> "granting", id |-> 0, session |-> s,
                                  key |-> k]]
    /\ UNCHANGED <<sess, last, starting, worker, rec, boot, view, acl, bound, faults>>

JobCheck(r) ==
    /\ job[r].pc = "started"
    /\ job' = [job EXCEPT ![r] = [@ EXCEPT !.pc =
                  IF sess[job[r].session].status = "running"
                  THEN "granting" ELSE "failing"]]
    /\ UNCHANGED <<sess, conn, last, starting, worker, rec, boot, view, acl,
                   approved, bound, faults>>

\* performVtaAdminGrant: the import may fail before or after it took effect
\* (log read, VTA restart).
JobGrant(r) ==
    /\ job[r].pc = "granting"
    /\ \E installs \in BOOLEAN, ok \in BOOLEAN :
          /\ ok => installs
          /\ acl' = IF installs
                    THEN [acl EXCEPT ![job[r].session] = @ \cup {job[r].key}]
                    ELSE acl
          /\ job' = [job EXCEPT ![r] =
                        [@ EXCEPT !.pc = IF ok THEN "granted" ELSE "failing"]]
    /\ UNCHANGED <<sess, conn, last, starting, worker, rec, boot, view,
                   approved, bound, faults>>

\* errAclJobBusy: another maintenance window holds the stack; the queue retries.
JobBusy(r) ==
    /\ job[r].pc = "granting"
    /\ job' = [job EXCEPT ![r] = IdleJob(job[r].session)]
    /\ UNCHANGED <<sess, conn, last, starting, worker, rec, boot, view, acl,
                   approved, bound, faults>>

\* The transaction of MarkReleased; the wallet may sign in from here on.
MarkReleased(c) ==
    IF conn[c].status = "provisioning"
    THEN /\ conn' = [conn EXCEPT ![c] = [@ EXCEPT !.status = "released"]]
         /\ bound' = IF conn[c].admin = NoKey THEN bound
                     ELSE [bound EXCEPT ![conn[c].session] = @ \cup {conn[c].admin}]
    ELSE UNCHANGED <<conn, bound>>

JobDone(r) ==
    /\ job[r].pc = "granted"
    /\ IF job[r].id = 0 THEN UNCHANGED <<conn, bound>> ELSE MarkReleased(job[r].id)
    /\ job' = [job EXCEPT ![r] = IdleJob(job[r].session)]
    /\ UNCHANGED <<sess, last, starting, worker, rec, boot, view, acl,
                   approved, faults>>

\* MarkFailed, for a request; a manual grant only reports the error.
JobFailed(r) ==
    LET c == job[r].id IN
    /\ job[r].pc = "failing"
    /\ conn' = IF c # 0 /\ conn[c].op = "grant_acl"
                        /\ conn[c].status \in {"confirmed", "provisioning"}
               THEN [conn EXCEPT ![c] = [@ EXCEPT !.status = "failed"]]
               ELSE conn
    /\ job' = [job EXCEPT ![r] = IdleJob(job[r].session)]
    /\ UNCHANGED <<sess, last, starting, worker, rec, boot, view, acl,
                   approved, bound, faults>>

----------------------------------------------------------------------------
(* Readers: the owner's view and the wallet's redeem load a reservation and *)
(* its session, then call Reconcile on what they loaded.                    *)

LoadView(c) ==
    LET s == conn[c].session IN
    /\ view = NoView
    /\ c <= last
    /\ view' = [id |-> c, status |-> conn[c].status, op |-> conn[c].op,
                admin |-> conn[c].admin,
                sstatus |-> sess[s].status, sadmin |-> sess[s].admin]
    /\ UNCHANGED <<sess, conn, last, starting, worker, rec, boot, job, acl,
                   approved, bound, faults>>

\* Slip: the session's administrator is taken as proof that the VTA runs.
ReconcileEarly ==
    LET c == view.id IN
    /\ c # 0
    /\ IF view.status = "provisioning" /\ view.sadmin = view.admin
       THEN MarkReleased(c)
       ELSE UNCHANGED <<conn, bound>>
    /\ view' = NoView
    /\ UNCHANGED <<sess, last, starting, worker, rec, boot, job, acl, approved, faults>>

Reconcile ==
    LET c == view.id IN
    /\ c # 0
    /\ IF view.status \in {"open", "claimed"}
       THEN /\ conn' = IF conn[c].status = view.status /\ conn[c].late
                       THEN [conn EXCEPT ![c] = Lapse(@)] ELSE conn
            /\ UNCHANGED bound
       ELSE IF /\ view.status = "provisioning"
               /\ view.op = "provision_vta"
               /\ view.sstatus = "running"
               /\ view.sadmin = view.admin
            THEN MarkReleased(c)
            ELSE UNCHANGED <<conn, bound>>
    /\ view' = NoView
    /\ UNCHANGED <<sess, last, starting, worker, rec, boot, job, acl, approved, faults>>

----------------------------------------------------------------------------
(* Deletion, time and process ends *)

\* Slip: deletion withdraws confirmed reservations as if nobody had confirmed.
StopSessionLapsing(s) ==
    /\ sess' = [sess EXCEPT ![s] = [@ EXCEPT !.status = "deleting"]]
    /\ conn' = [c \in Ids |-> IF c \in Rows(s) /\ conn[c].status \in Active
                              THEN Lapse(conn[c]) ELSE conn[c]]
    /\ UNCHANGED <<last, starting, worker, rec, boot, job, view, acl, approved,
                   bound, faults>>

\* Cancel: Stop commits, then the worker is cancelled if it runs here.
StopSession(s) ==
    /\ sess' = [sess EXCEPT ![s] = [@ EXCEPT !.status = "deleting"]]
    /\ conn' = [c \in Ids |->
          IF c \notin Rows(s) \/ conn[c].status \notin Active THEN conn[c]
          ELSE IF conn[c].status \in {"open", "claimed"} THEN Lapse(conn[c])
          ELSE [conn[c] EXCEPT !.status = "cancelled", !.admin = NoKey]]
    /\ \E here \in BOOLEAN :
          /\ worker' = [worker EXCEPT ![s] =
                [@ EXCEPT !.cancelled = worker[s].cancelled
                                        \/ (here /\ worker[s].pc # "idle")]]
          /\ \E cut \in SUBSET Recoveries :
                rec' = [rec EXCEPT ![s] =
                           CancelRecoveries(s, IF here THEN cut ELSE {})]
    /\ UNCHANGED <<last, starting, boot, job, view, acl, approved, bound, faults>>

Cool(c) ==
    /\ c <= last
    /\ ~conn[c].cooled
    /\ conn' = [conn EXCEPT ![c] = [@ EXCEPT !.cooled = TRUE]]
    /\ UNCHANGED <<sess, last, starting, worker, rec, boot, job, view, acl,
                   approved, bound, faults>>

Deadline(c) ==
    /\ conn[c].status \in {"open", "claimed"}
    /\ conn[c].cooled
    /\ ~conn[c].late
    /\ conn' = [conn EXCEPT ![c] = [@ EXCEPT !.late = TRUE]]
    /\ UNCHANGED <<sess, last, starting, worker, rec, boot, job, view, acl,
                   approved, bound, faults>>

\* The end of a process takes what it held in memory and releases its locks.
\* The orchestrator's process starts again and calls Resume.
Crash ==
    /\ faults < MaxFaults
    /\ faults' = faults + 1
    /\ \/ /\ starting # {}
          /\ starting' = {}
          /\ UNCHANGED <<worker, rec, boot, job>>
       \/ \E s \in Sessions : /\ \/ worker[s].pc # "idle"
                                 \/ \E g \in Recoveries : rec[s][g].pc # "idle"
                              /\ worker' = [worker EXCEPT ![s] = Idle]
                              /\ rec' = [rec EXCEPT ![s] = [g \in Recoveries |-> Asleep]]
                              /\ boot' = boot \cup {s}
                              /\ UNCHANGED <<starting, job>>
       \/ \E r \in Replicas : /\ job[r].pc # "idle"
                              /\ job' = [job EXCEPT ![r] = IdleJob(job[r].session)]
                              /\ UNCHANGED <<starting, worker, rec, boot>>
    /\ UNCHANGED <<sess, conn, last, view, acl, approved, bound>>

----------------------------------------------------------------------------
Next ==
    \/ \E s \in Sessions :
          \/ ChangeCreate(s) \/ StopSession(s)
          \/ KickProvision(s) \/ WorkerLoad(s) \/ WorkerBegin(s)
          \/ WorkerImport(s) \/ WorkerAdvance(s) \/ WorkerFinish(s)
          \/ WorkerFail(s) \/ WorkerPing(s) \/ WorkerAbort(s)
          \/ \E g \in Recoveries :
                \/ RecoverSession(s, g) \/ ResumeDeployment(s, g)
                \/ RecoveryLoad(s, g) \/ RecoveryAdvance(s, g)
                \/ RecoveryFinish(s, g) \/ RecoveryFail(s, g)
          \/ \E k \in Keys : \/ AcceptManual(s, k)
                             \/ \E r \in Replicas : OwnerGrant(r, s, k)
    \/ \E c \in Ids :
          \/ ChangeRefresh(c) \/ ChangeCancel(c) \/ OwnerCurrent(c)
          \/ Confirm(c) \/ Reject(c) \/ StartWorker(c)
          \/ LoadView(c) \/ Cool(c) \/ Deadline(c)
          \/ \E k \in Keys : Claim(c, k)
          \/ \E r \in Replicas : KickAdditional(r, c)
    \/ \E r \in Replicas : \/ JobCheck(r) \/ JobGrant(r) \/ JobBusy(r)
                           \/ JobDone(r) \/ JobFailed(r)
    \/ Reconcile
    \/ Crash

Spec == Init /\ [][Next]_vars

\* The queues tick every ten seconds in every process and a started goroutine
\* is scheduled; people and wallets owe the system nothing.  A request has a
\* goroutine of its own, so manual grants sharing the model's one slot per
\* replica cannot keep it out (SF on KickAdditional), and a maintenance window
\* ends, so a request retried for ever is not busy for ever (SF on JobGrant).
WorkerFairness ==
    /\ \A s \in Sessions : /\ WF_vars(KickProvision(s))
                           /\ WF_vars(WorkerLoad(s) \/ WorkerBegin(s))
                           /\ WF_vars(WorkerImport(s) \/ WorkerAdvance(s)
                                      \/ WorkerFinish(s) \/ WorkerFail(s))
                           /\ WF_vars(\E g \in Recoveries : ResumeDeployment(s, g))
                           /\ \A g \in Recoveries :
                                 WF_vars(RecoveryLoad(s, g) \/ RecoveryAdvance(s, g)
                                         \/ RecoveryFinish(s, g) \/ RecoveryFail(s, g))
    /\ \A c \in Ids : WF_vars(StartWorker(c))
    /\ \A r \in Replicas : /\ \A c \in Ids :
                                 /\ SF_vars(KickAdditional(r, c))
                                 /\ SF_vars(job[r].id = c /\ JobGrant(r))
                           /\ WF_vars(JobCheck(r))
                           /\ WF_vars(JobGrant(r) \/ JobBusy(r))
                           /\ WF_vars(JobDone(r))
                           /\ WF_vars(JobFailed(r))

FairSpec == Spec /\ WorkerFairness
----------------------------------------------------------------------------
(* Properties *)

ConnRow == [session : Sessions, status : ConnStatus,
            op : {"", "provision_vta", "grant_acl"}, admin : Keys \cup {NoKey},
            confirmed : BOOLEAN, late : BOOLEAN, cooled : BOOLEAN]

SessRow     == [status : SessStatus, admin : Keys \cup {NoKey},
                stage : SessStatus \cup {""}]
WorkerState == [pc : {"idle", "kicked", "loaded"} \cup WorkerSteps,
                key : Keys \cup {NoKey}, cancelled : BOOLEAN]
RecState    == [pc : {"idle", "launched"} \cup SessStatus, cancelled : BOOLEAN]
RecTable    == [Recoveries -> RecState]
JobState    == [pc : {"idle", "started", "granting", "granted", "failing"},
                id : Ids \cup {0}, session : Sessions, key : Keys \cup {NoKey}]
ViewState   == [id : Ids \cup {0}, status : ConnStatus,
                op : {"", "provision_vta", "grant_acl"}, admin : Keys \cup {NoKey},
                sstatus : SessStatus, sadmin : Keys \cup {NoKey}]

\* Every variable holds what its table, map or goroutine can hold.
TypeOK ==
    /\ sess \in [Sessions -> SessRow]
    /\ conn \in [Ids -> ConnRow]
    /\ last \in 0 .. MaxRequests
    /\ starting \subseteq Ids
    /\ worker \in [Sessions -> WorkerState]
    /\ rec \in [Sessions -> RecTable]
    /\ boot \subseteq Sessions
    /\ job \in [Replicas -> JobState]
    /\ view \in ViewState
    /\ acl \in [Sessions -> SUBSET Keys]
    /\ approved \in [Sessions -> SUBSET Keys]
    /\ bound \in [Sessions -> SUBSET Keys]
    /\ faults \in 0 .. MaxFaults

\* A session never has two reservations that are open, claimed, confirmed or
\* provisioning: the code's own guards keep clear of the partial unique index
\* mobile_connections_active_session, whatever requests and workers interleave.
OneActivePerSession ==
    \A c, d \in Ids : /\ conn[c].status \in Active
                      /\ conn[d].status \in Active
                      /\ conn[c].session = conn[d].session
                      => c = d

\* Nothing reaches the session's administrator field or the VTA's list before a
\* person approved that key, by confirming the claim check or by submitting it.
AdminOnlyAfterApproval ==
    \A s \in Sessions : /\ sess[s].admin = NoKey \/ sess[s].admin \in approved[s]
                        /\ acl[s] \subseteq approved[s]

\* A reservation reported as released, and a wallet login derived from one,
\* always belong to a key that is in the VTA: redeem cannot hand over a VTA
\* that would refuse the wallet, however stale the rows Reconcile was given.
ReleasedMeansInstalled ==
    /\ \A c \in Ids : conn[c].status = "released" => conn[c].admin \in acl[conn[c].session]
    /\ \A s \in Sessions : bound[s] \subseteq acl[s]

\* The candidate key is discarded with the reservation that carried it.
DiscardedKeys ==
    \A c \in Ids :
       conn[c].status \in {"free", "open", "rejected", "lapsed", "cancelled"}
          => conn[c].admin = NoKey

\* A confirmed first administrator finds the gate still free: no other route
\* accepted a key for the session while the person was comparing the codes.
ConfirmedHoldsTheGate ==
    \A c \in Ids : /\ conn[c].status \in {"claimed", "confirmed"}
                   /\ conn[c].op = "provision_vta"
                   => sess[conn[c].session].admin = NoKey

\* Once a session has its first administrator, no step replaces it or takes it
\* away: not a late worker, a second confirmation or a deletion.
AdminNeverReplaced ==
    [][\A s \in Sessions : sess[s].admin # NoKey => sess'[s].admin = sess[s].admin]_vars

Step == {<<"free", "open">>, <<"open", "claimed">>, <<"open", "lapsed">>,
         <<"claimed", "confirmed">>, <<"claimed", "rejected">>,
         <<"claimed", "lapsed">>, <<"confirmed", "provisioning">>,
         <<"confirmed", "cancelled">>, <<"confirmed", "failed">>,
         <<"provisioning", "released">>, <<"provisioning", "cancelled">>,
         <<"provisioning", "failed">>}

\* Reservations move only along the published lifecycle: final states stay
\* final, "lapsed" and "rejected" are reachable only before confirmation, and
\* nothing is released that was not confirmed and started.
ReservationLifecycle ==
    [][\A c \in Ids : \/ conn'[c].status = conn[c].status
                      \/ <<conn[c].status, conn'[c].status>> \in Step]_vars

\* A confirmed request for an additional administrator does not block every
\* later QR code of its session: while the VTA runs it is started, and once
\* started it is released, failed or cancelled one day; the queues retry it
\* through process ends and busy maintenance windows.
GrantSettles ==
    \A c \in Ids :
       /\ conn[c].op = "grant_acl" /\ conn[c].status = "confirmed"
             ~> \/ conn[c].status \in Final
                \/ sess[conn[c].session].status # "running"
       /\ conn[c].op = "grant_acl" /\ conn[c].status = "provisioning"
             ~> conn[c].status \in Final

\* runFullStackFinish returns without a record when its heartbeat was lost, and
\* no queue takes deploy_vta or deploy_vtc.
Stranded(s) == worker[s].cancelled /\ worker[s].pc \in {"deploy_vta", "deploy_vtc"}

\* A recovery that another launch cancelled may make the last status write.
Superseded(s) == \E g \in Recoveries : rec[s][g].cancelled

\* As long as the owner does not delete the session, no heartbeat is lost during
\* its two last deployments and no recovery is started over another, an accepted
\* first administrator ends up installed with the VTA running, or the failure is
\* on record: no process end, and no heartbeat lost in an earlier step, leaves a
\* session in the middle of its pipeline.  Without the two exceptions this is
\* false: such a session waits for the next start of the process.  (A vta_only
\* session under recovery is not covered: nothing resumes it.)
AcceptedIsProvisioned ==
    \A s \in Sessions :
       [](sess[s].status # "deleting" /\ ~Stranded(s) /\ ~Superseded(s)) =>
          (sess[s].status \in (IF s \in FullStack THEN Resumable ELSE {"provisioning"})
             ~> sess[s].status \in {"running", "failed"})

\* The hand-over promised by module Handover.
HandoverOf == INSTANCE Handover WITH holder <- [s \in Sessions |-> sess[s].admin],
                                     installed <- acl
ImplementsHandover == HandoverOf!HSpec
=============================================================================
