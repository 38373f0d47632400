# Verification of the VTA Farm API

This directory holds a TLA+ model of the VTA Farm API (Go, Gin, GORM, PostgreSQL, client-go), the TLC
configurations that check it, and proofs that TLAPS checks.  Paths below are relative to the repository;
`PROJECT.json` maps every definition to the lines it models.

## The system

A *setup session* (`setup_sessions`) builds one agent, a VTA, or a whole stack (DID host, mediator, VTA, VTC) in
Kubernetes.  Its status column is the state machine; goroutines of the orchestrator drive it and write it.  Half way
the session stops at a *gate*: a person has to name the VTA's first administrator.  A wallet claims the VTA through a
QR code and the owner confirms the claim, or the owner types the key in.  Behind the gate the key is imported and the
VTA is deployed.  Later administrators are granted on the running VTA by jobs.

| Component | State | Operations | Talks to |
|---|---|---|---|
| Claim reservations (`internal/connection`, `handler/mobile_connection.go`) | `mobile_connections`: status, operation, key, deadlines | create, refresh, cancel, claim, confirm, reject, start, release, fail, reconcile, stop | session row (locked first by every transaction), workers, wallet bindings |
| Manual route (`handler/setup.go`, `handler/setup_admins.go`) | session row | accept an administrator, grant another one | reservations, provisioning queue, grant jobs |
| Provisioning worker and queue (`setup/initial_provision.go`, `setup/orchestrator*.go`) | session status, advisory lock, map of cancel functions | kick, load, import, deploy, finish, fail, cancel, resume | Kubernetes, session row |
| Deployment recovery (`handler/setup_recovery.go`, `setup/orchestrator_recovery.go`) | status, `failed_stage` | retry a failed deployment, resume one cut short | same session row, no lock |
| Grant jobs (`handler/mobile_additional.go`, `handler/admin_platform_stack_grant.go`) | in-memory work map per replica, maintenance lease | pick up, import, restart VTA, release or fail | reservations, VTA's own ACL |
| Trust Task endpoints (`handler/trust_task.go`, `internal/trusttask`) | execution log with leases and recorded answers | claim, redeem (long poll), replay of answers | reservations |
| Pool (`internal/pool`, `setup/pool_*.go`, `handler/admin_pool.go`) | batches, pool members, prebuilt sessions | admit, build, reserve, confirm, activate, retry, clean up | reservations, orchestrator, capacity |
| Upgrades (`internal/upgrade`, `handler/*_upgrade.go`) | batches, tasks, in-memory set of active runners | create, run, cancel, resume, roll back | Kubernetes, image columns, Trust Registry enablement |
| Activation of a pool member (`setup/pool_prewarm.go`, `setup/pool_activation.go`, `handler/pool_activation_gate.go`, `k8s/vta_resources.go`) | Deployment with template id and annotations, the volume's receipts, prewarm runs | prewarm, cancel, gate, authorize, import, wait | reservations, DID host, Kubernetes |
| Capacity (`internal/capacity`, `handler/capacity_service.go`, `handler/dashboard*.go`) | samples of the last readings | simulate, reserve, estimate | cluster statistics, pool admission |
| Full-stack setup (`setup/orchestrator*.go`, `handler/setup_fullstack.go`) | status per step, map of cancel functions | create, launch, one Kubernetes Job or Deployment per step, resume, recover, delete | Kubernetes, provisioning queue, Trust Registry |
| Wallet sign-in (`handler/trust_task_oob.go`, `internal/walletauth`) | sign-in request, wallet sessions, bindings, poll lease | request (modelled as the new row only), claim, prove, respond, redeem, cancel, revoke | replay guard, accounts |
| Domains, accounts, did:webvh logs | one table each | CRUD with verification states | |

What is hard here: every transaction is short and correct by itself, and nearly everything interesting happens between
two of them.  Workers of several replicas act on rows they loaded earlier; status writes of the orchestrator carry no
condition on the status they replace; a process may end between any two steps and the ten-second queues and the startup
resume must find every session again; deadlines pass while answers are on their way.  `PROJECT.json` lists these
hazards at their lines.

## Modules

| Module | What it is |
|---|---|
| `Handover` | The promise, without requests, workers or crashes: at most one first administrator per VTA, approved by a person, never replaced; no key in the VTA that nobody approved; further keys only after the first one. `Connection` and `Activation` implement it. |
| `Connection` | The administrator gate and everything that acts behind it: reservations, the manual route, the provisioning worker, deployment recovery, grant jobs, readers that reconcile, deletion, time and process ends. |
| `ConnectionProofs` | The inductive invariant of `Connection` and the theorems. |
| `Upgrade` | Image upgrades: the batches and tasks, the background runner with its schedulers, task goroutines and rollbacks, the handlers that create, cancel and resume, and what happens around them (Trust Registry enablement, deletion, process ends). |
| `UpgradeProofs` | The inductive invariant of `Upgrade` and the theorems. |
| `Capacity` | The placement simulation, the two estimates made with it and the high-water mark, as operators. |
| `CapacityProofs` | What these operators compute, as lemmas for every mode and cluster; the two modules below cite them. |
| `Estimates` | What a cluster can host, defined without the simulation, and what the estimates are worth. A behaviour is one question. |
| `EstimatesProofs` | The theorems about the estimates. |
| `Pool` | Pooled VTAs: admission, the runner that builds and cleans, reservations, activation and deletion of every member. It EXTENDS `Capacity` for its admission. |
| `PoolProofs` | The inductive invariant of `Pool` and the theorems. |
| `Activation` | One parked pool member from its first claim to its release, down to its Deployment, Pods and volume. |
| `ActivationProofs` | The inductive invariant of `Activation` and the theorems, among them the refinement of `Handover`. |
| `Setup` | One full-stack session from its creation to the end of the chain, with everything that may drive it at once. |
| `SetupProofs` | The inductive invariant of `Setup` and the theorems. |
| `TrustTask` | The Trust Task endpoint: the replay guard, the claim of a reservation, and the wallet sign-in. |
| `TrustTaskProofs` | The inductive invariant of `TrustTask` and the theorems. |
| `MCConnection`, `MCUpgrade`, `MCCapacity`, `MCPool`, `MCSetup`, `MCTrustTask` | Instances for TLC (`MCCapacity` is the instance of `Estimates`). |

Definitions whose comment starts with "Slip" or "A slip" are faulty variants, each next to the definition it could
replace; no specification uses them.  They document which mistake each property notices.

### Connection: state and steps

* `sess[s]` is the session row (status, `admin_did`, `failed_stage`), `conn[c]` the reservation created as the c-th
  one (`last` of them exist).  `Current` is the newest row of the session.
* Every function of `connection/store.go` is one transaction that locks the session row first, so it is one action
  under its own name (`ChangeCreate`, `ChangeRefresh`, `ChangeCancel`, `Claim`, `Confirm`, `Reject`,
  `StartProvisioning`, `AcceptManual`, `MarkReleased`, `Reconcile`, `StopSession`).  When claim, Confirm and Reject find
  the deadline passed, the transaction is rolled back with its write: no step at all.
* What a handler does between two transactions is visible: `starting` holds the requests that committed Confirm and
  have not called `StartProvisioning` yet; `view` is what a reader loaded before it calls `Reconcile`.
* `worker[s]` is the goroutine that holds the session's provisioning advisory lock: kicked, loaded, importing,
  imported, and for the full stack the deployments.  The steps `step_vtc_setup_key` and `step_vtc_acl_grant` are folded
  into `step_import_admin_did`; no guard of the modelled code tells the three apart.
* The worker's heartbeat (`WorkerPing`) cancels it when the session is being deleted, and just as well when a ping fails
  or takes more than three seconds; a cancelled worker may go on for a step or stop without a record (`WorkerAbort`).
* `rec[s][g]` are the recovery goroutines, which hold no lock; `Recoveries` are names for them.  `Launch` may cancel any
  of the others: the orchestrator's map holds one cancel function per session, and a goroutine that ends deletes
  whichever is there.  A cancelled recovery may still make its next status write.  `boot` are the sessions a restarted
  process still has to look at in `Resume`.
* `job[r]` is the grant job of replica r; with `id = 0` it serves the owner's manual grant.
* `acl` is the access-control list inside the VTA's volume: external state, written by the import and grant jobs.  A
  grant may take effect and still be reported as failed.
* Time is two flags per reservation: `cooled` (five seconds old) and `late` (the deadline of its stage has passed).
* `approved` is history; `bound` are the wallet sign-in bindings that `MarkReleased` writes.

Left out of `Connection`: errors of plain database reads (the handler gives up without a write); the legacy inference of
a failure stage from error texts; the trust-registry stage and recovery before the gate; the removal of rows after a
teardown; upgrades, which recoverSession only looks at; a PostgreSQL that drops the connection of a worker, and with it
the advisory lock, before the worker returned.  `pool_waiting` appears in guards but is reached only in `Pool` and
`Activation`; what the steps do in Kubernetes, and the goroutines of a full-stack chain, are in `Setup`.

### Upgrade: state and steps

* `batch[b]` and `task[<<b, t>>]` are the rows of `upgrade_batches` and `upgrade_tasks`; a target `t` is one component of
  one session.  `image[t]` is the image column, `deploy[t]` the image in the Deployment, `dflt` the advertised default.
* `sched[b]` is the goroutine that `Runner.Start` launches (present in `Runner.active` while its `pc` is not "off"): it
  takes its snapshot once (`SchedLoad`), looks at the batch status before each task (`Dispatch`), counts what is left,
  closes the batch and leaves the active set in three separate steps (`SchedCount`, `SchedClose`, `SchedExit`).
* `work[<<b, t>>]` is the goroutine of a task; one step per database transaction, Kubernetes call or rollout observation
  of `runTask`, `rollbackTask` and `failTask`.  `SetImage` may take effect and report an error.  A wait may end either
  way at any time, but ready only while the Deployment names the image that was set.
* `req[r]` is a request between its reads and its writes: `CreateForSession` loads the session, asks the registries,
  looks for rollbacks, supersedes the owner's paused batches, counts what is in flight and inserts, each in a step of
  its own; Cancel and Resume read the batch before they write it.
* `LoseWrite` is a database write that fails, `misread` a session row that could not be read, which `runTask` takes for
  a deleted one.  `raced` is history: the sessions on which two changes ever overlapped.

Left out: the listings, which only read; the manual setting of image defaults; failing reads other than the session's
(the caller gives up without a write); the order of ids within one class of the queue, which is left open.  The counts
of `resolveTargets` are one step for all sessions, and `resolveTargets` reads all its sessions in one step.

### Capacity and Pool: state and steps

`Capacity` is arithmetic on a cluster record (free CPU and memory per node, free bytes per disk, `ok`).  `PlacePod` and
`PlaceVolume` are worst-fit with the code's order of ties, `EstimateMode` counts how many sessions fit one after the
other up to `MaxSessions`, `ReserveMode` takes the sessions promised beforehand; both read `Placing`, what is left of a
cluster after k sessions.  `DashboardEstimate` and `GateEstimate`
differ in what they take as free: the dashboard uses the high-water mark of its samples, the create gate the live
reading.  Recursion over sessions and components is written with recursive functions.
`Estimates` asks one question per behaviour, about a cluster or about a reading of its statistics; `CanHost` is
its reference: some assignment of all Pods to nodes and of all volumes to distinct disks that respects every limit.

In `Pool`:

* `batch`, `member`, `conn` are the rows of `pool_batches`, of `setup_sessions` with `pool_sessions`, and of
  `mobile_connections`; a claim goes when its session goes (the foreign key cascades).  A claim's key is the claim
  itself, so `admin` names the claim whose key was accepted.
* Every function of `pool/store.go` is one transaction under one advisory lock and one action.  `req[r]` is an admission
  request between its capacity snapshot and its transaction; several may hold the same snapshot, and each counts the
  promised sessions anew under the lock.  `raced` notes that a member began to run while any of them held one.
* `kicks` is the runner's channel, from which a kick may be dropped when it is full; `run[m]` is the worker of a member
  (prepare, record, build, job, publish, check, park, or stop, delete, drop), `act[m]` the activation worker as far as
  the pool sees it, `del[m]` the owner's deletion.
* `dns` are the members with a record at Cloudflare; `record` in the row says whether its id was saved.
* Late claims that are open lapse when the member is reserved again; the five seconds before a QR code may be replaced
  are left out.  The cluster is full of what the instance says, plus the Pods of members that run.

Left out of `Pool`: failing database writes, the loss of the connection that holds an advisory lock, two API
processes whose runners compete (the lock of a member admits one worker).

### Activation: state and steps

* `claim` are the claims of the member, one after the other; the activation id, the key and the claim are one value.
* `deploy` is the Deployment: the id in its template, whether it has a replica, the annotation that authorizes and the
  label that marks a prewarm.  A Pod of an older template may run on until Kubernetes stops it (`pods`, `StopPod`).
* `pods[c]` walks the init script: poll the gate, probe receipt and ACL, import, write the receipt, serve; the container
  may end before any of these and is started again (`PodCrash`).  `volume` survives all of it.
* `pre[r]` are prewarm runs: a newer run cancels the older, which may be between its load and its write; `kick` is
  a run about to start, owed to a handler that changed a claim or to the ten-second queue.
* `worker` is the activation worker: ACL at the DID host, authorization of the Deployment, wait.  It may time out at any
  time and fails the session then.

### Setup: state and steps

* `session` is the row (status, failed stage, administrator, identity of the VTC, state of the Trust Registry), `kind`
  what was created: a custom domain or not, with a Trust Registry or not, with an administrator named at creation.
* `Step` says of each step what it does and needs: a call, a DNS or certificate wait, a Job on some volumes with its
  live peers, a Job that is kept as a receipt, a Deployment.  `Chain` is their order.
* `run` are the goroutines: two launched ones (started, resumed or recovered) and the provisioning worker.  `live` is
  false once the context is cancelled; such a goroutine still writes its next status, as the code does, and returns from
  its next call.  `HeartbeatLost` is a ping of the worker that failed or took too long while the session is in order:
  the worker is cancelled and leaves no record.  `cancels` is the map entry: `Launch` replaces it and `Exit` deletes it,
  whoever's it is.
* `job`, `ran`, `deploy` are Kubernetes: Jobs by name (an existing one is left alone and waited for), how often each
  took effect on its volume, Deployments.  A Job on a store that a daemon holds fails; a Deployment's ready count
  still counts the replaced Pod ("stale").  `Hour` is the time to live of finished Jobs; receipts have none.
* `Create`, `Recover`, `ProvisionAdmin`, `ProvisionTick`, `Crash`, `Boot` and the four steps of a DELETE are the
  requests, the queue and the process.  `DeleteAsk` merges the status write with the cancellation, since what a
  goroutine does between the two it may also do after them.

Left out of `Setup`: several API processes, the Jobs inside the Trust Registry enablement (one step), what Jobs print
beyond the identity of the VTC, the removal of DNS records and Vault secrets.

### TrustTask: state and steps

* `guard[d]` is the row of `trust_task_executions` for document d: state, whether its lease ran out, recorded answer.
  `Claim`, `Recorded`, `Released` are the functions of `trusttask/replay.go`; `Answer` is the library's `ConsumeInbound`
  after the handler, as the code uses it.  `RecordResponse` asks for `state = 'executing'` and not for a lease, so an
  execution that outlived its own may record its answer for the one that took over.
* `task[s]` is an execution in one of the concurrent slots: its document, where it is, and the row as it read it.  A
  handler's load and its conditional write are separate steps; a condition that fails is answered as a refusal.
* `Carried` says whether the identity or grant inside a document passes its checks; `ProveLoad` and `RespondLoad` decline
  the sign-in when it does not.
* `login` is the sign-in request, `sessions` the wallet sessions, `active` the bindings that are not revoked, `time`
  which of the two windows (claim, decision) are still open, `reservation` the document that claimed a VTA.
* `Die` ends an execution without an answer, `LeaseLapses` outlives one, `PollLapses` takes the poll from a slow redeem.

Left out of `TrustTask`: signatures and payload schemas (a document arrives verified), opening a sign-in (`Request` is the
new row only, without the count of open requests and its limit of five), conflicts of one id with two
contents, retention, the expiry of a wallet session after a day.  The bindings of an instance belong to different
users.  Liveness is not stated: nothing is owed to a browser that stops polling.

## Runs

| Run | Checks | Instance |
|---|---|---|
| `connection` | `TypeOK`, `OneActivePerSession`, `AdminOnlyAfterApproval`, `ReleasedMeansInstalled`, `DiscardedKeys`, `ConfirmedHoldsTheGate`, `AdminNeverReplaced`, `ReservationLifecycle`, `ImplementsHandover` | one vta_only session, 2 keys, 2 reservations, 1 replica, 2 recovery goroutines, 1 fault (process end or lost heartbeat) |
| `grant_settles` | `GrantSettles` | one vta_only session, 1 key, 1 reservation, 2 replicas, 1 recovery goroutine, 1 fault |
| `accepted_is_provisioned` | `AcceptedIsProvisioned` | one full-stack session, manual route, 2 recovery goroutines, 2 faults |
| `upgrade` | `TypeOK`, `CompletedIsDrained`, `RecordedIsDeployed`, `StopsFeeding` | one full stack with two components (symmetric), 2 releases, 1 batch, 1 request at a time, 1 failing write, no process end |
| `in_flight_ends` | `RollbackIsOneWay`, `InFlightEnds` | two components, 1 batch, 1 process end, 1 unreadable session, no failing write |
| `capacity` | `EstimatesAreExact`, `ReservationsAreKept`, `DashboardIsStricter` | every cluster of two nodes with up to 4 units, three disks with up to 3, three shapes of session, up to 2 promised sessions, a loop bound of 4; readings of one node with a live and an older sample |
| `pool` | `TypeOK`, `ExclusiveClaims`, `CleanupIsComplete`, `NeverOverAdmitted`, `MembersKeepCourse`, `MembersSettle` | one batch for public sign-up, one browser; one member with 2 claims, a process end and a failing call; two members and a claim in a cluster with room for two; two members and two admission requests in a cluster with room for one |
| `activation` | `TypeOK`, `VolumeIsGuarded`, `ImplementsHandover`, `AuthorizedStays`, `ActivationEnds` | one member, 2 claims, 2 prewarm runs, 1 fault |
| `setup` | `TypeOK`, `ServedIsPrepared`, `ReceiptsHold`, `NeverBackBeforeTheGate`, `SetupSettles` | a custom domain with Trust Registry, and a farm domain with the administrator named at creation; 2 troubles out of process ends, lost heartbeats, failing calls, Jobs and rollouts, forgotten Jobs, deletion |
| `trust_task` | `TypeOK`, `RedeemsShare`, `ClaimIsAnswered`, `DecisionIsFinal` | four sets of documents, 2 executions at a time, 1 trouble |
| `upfront_admin` | `UpfrontAdminProceeds`, violated | a session with its administrator named at creation, no troubles |
| `same_cookie` | `SameCookie`, violated | one sign-in, two redeems that choose different accounts |

**Bounds.** Sessions share no state apart from the grant slots of a replica, so one session shows every interleaving
that matters; two keys are needed for a second administrator to differ from the first, two reservations for a
replacement and for a stale answer to an older one, and the third would repeat the second.  Two recovery goroutines are an
older one and the one launched over it.  A budget of faults (`MaxFaults`) is shared by process ends and lost heartbeats: one
at any point is enough to lose each kind of in-memory state, two are used where the second hits the recovery from the
first.  For
upgrades, two components show that a batch goes on or stops after its first task.  The failing write and the process end
have a run each: `upgrade` loses a write, `in_flight_ends` a process and a reading, and the proofs cover any number of
both together.  The components of `upgrade` are a symmetry set, which is sound since it has no liveness property and
neither component is a platform's VTA.  For the safety properties of the modules with proofs, the proofs remove these
bounds.

In `Pool` a second member and a second request matter to admission only, and a second claim to reservations only: hence
three farms of which each has what it is about.  The third has two requests that hold the same snapshot of a cluster
with room for one: if the promised sessions were taken off when the snapshot is read and not under the lock, both would
be admitted, which one request cannot show.  `Workers = 1` is the harder case for liveness, since members queue behind
each other; runners with four workers differ only in how soon a kick is taken.  In `Activation` the second claim is the
one that meets Pods, runs and gates of the first; a third meets those of the second.  One fault puts a process end, a
Pod crash or a failing call at each point.  In `Setup` a budget of troubles is shared by process ends, lost heartbeats,
failing calls, Jobs and rollouts, forgotten Jobs and deletions: two are a failure with its recovery and a second event
that meets the recovery, which is where goroutines overlap.  In `TrustTask` each set of documents is one story (a
sign-in redeemed twice, one cancelled while it is approved, two wallets, two claims of a VTA), every document may arrive
any number of times, and two executions are enough for a race; slots are symmetric.  One trouble is an execution that
dies, a lease or a poll that lapses, at any point.  `Estimates` has no steps: its questions are enumerated, with
clusters that hold fewer and more sessions than the loop bound.

Deadlock is not checked where the system may stop (`CHECK_DEADLOCK FALSE`): with the reservations used up, the session
running, a request decided, there is nothing left to do.

**Fairness.**  `Connection` (`WorkerFairness`): queues tick every ten seconds in every process and a started goroutine
is scheduled, hence weak fairness for the workers' steps.  Requests have a goroutine each while the model gives a
replica one slot, so manual grants must not starve them (strong fairness of `KickAdditional`), and a maintenance window
ends (strong fairness of a request's `JobGrant`).

`Upgrade`: goroutines run; a rollout wait is bounded by five minutes and a scheduler waits for nothing but its own
tasks.  `InFlightEnds` is checked without failing writes: a final status that cannot be written is only logged and waits
for the next start of the process.

`Pool`: reconcile comes round every ten seconds, workers go on; a member in the queue is taken although others are taken
first, because the queue is a first-in-first-out channel (strong fairness of `RunOne`).

`Activation`: tickers, the worker and Kubernetes go on.  A prewarm run may be cancelled by the next, but its calls take
less than the ten seconds between two ticks, so that of infinitely many one takes effect (strong fairness).

`Setup`: goroutines run, Jobs end, Pods become ready, a process that ended is started again, the queue ticks.

Nothing is assumed of people, wallets and browsers, and process ends, lost heartbeats and other faults are never fair.

## What the checks show

*The gate* holds: under every interleaving, deadline and crash no key is accepted or installed that nobody approved, the
first administrator is never replaced, reservations follow their lifecycle, the unique index is never hit, and a
reservation or a wallet binding is released only for a key that the VTA holds, even though `Reconcile` decides on stale
rows.  The reason is worth knowing: once a session ran with a key installed, the key stays in the VTA's list, so an old
"running" is still good evidence.  An accepted administrator ends up installed or the failure on record, with two
exceptions that the property states: `Stranded` (the worker loses its heartbeat while it deploys the VTA or the VTC)
and `Superseded` (a recovery is launched over another).  In both the session waits for the next start of a process; see
the disagreements below.

*Upgrades* hold their main promise in the order of their writes: whatever fails and wherever the process ends, the
column and the Deployment agree once nothing is in flight, provided only one change worked on the session.  The code
does not enforce that proviso (guard and insert are separate), so sessions with overlapping changes are excepted, and
so are sessions that could not be read.  A stopped batch is not fed any more: no task of a paused or completed batch is
marked running, and of a cancelled one only the task that had been dispatched and read as pending before the cancellation
skipped it, as the last of its batch.

*Capacity.*  The greedy simulation never promises a session that no placement could host, and for sessions of one
component it is exact and no known figure beside the count is below it.  (For several components greedy may miss a
placement that exists; the code errs on the refusing side.)  A reservation takes away exactly what it promises, up to the
bound of the loop: a cluster that holds more than `MaxSessions` sessions shows as many beside a small reservation as
without it.  The dashboard's estimate is the smaller one as long as metrics are there and every storage node takes
new volumes; without metrics the two have nothing to do with each other, which is why the property has that premise.

*The pool.*  A member is never handed to two people and a browser never gets two; cleanup and build never take a member
back from the one who confirmed it; a record at Cloudflare whose id was saved goes with its session; every admitted
member fits the cluster although the snapshot is stale and another request may hold the same.  The last holds because a
session counts from its insertion until it runs; a member that starts running while a request holds a snapshot is in
neither number and is excepted (`raced`).  It is stated with the placement itself, not with the estimate, which ends at
the loop bound.

*Activation* implements the same hand-over promise as the gate, although here the Pod starts before anyone confirmed:
what matters is that the gate opens only for the authorized id of a confirmed claim, that readiness is decided by the
Pod of that id, and that authorization is never taken back.

*Setup.*  A daemon starts on a volume only after every Job that prepares it, and a receipt Job takes effect once, even
where a recovery and the provisioning worker run the same chain side by side: the Jobs' names serialize them.  Every
session settles, with two exceptions that the property states: `Superseded` (a recovery was launched over another, and the
older one's step may be the last status written) and `Interrupted` (the worker is cancelled at `deploy_vta`, `deploy_vtc` or
`step_trust_registry`, which no queue takes up).  One statement is not met:

1. *Administrator named at creation* (`upfront_admin`): the second half does not start, since the kick meets a status
   that `AcceptManual` does not resume, and the session stays at `step_vta_register_dids`.

*Trust Tasks.*  The claim of a reservation (`vta_claim`) whose effect was committed is answered with success whenever it
is sent again; this does not hold for the sign-in documents (see below).  A decided sign-in stays as it is (its state and
the key that claimed it), and all redeems of a sign-in share one wallet session.  One statement is not met:

2. *Account choice* (`same_cookie`): of two redeems that choose different accounts at once, the second is answered with
   a token whose user does not own the session it names.

**Known disagreements no run checks.**  Met while modelling, explained here so that nobody takes them for promises:

* *Expiry.*  docs/vta-claim-implementation-design.md:201-202 has a reservation lapse when its confirmation hold
  expires.  `claim`, `Confirm` and `Reject` (connection/store.go:289-293, 344-350, 377-382) write `lapsed` and return
  `ErrExpired` from the transaction, which rolls the write back; the row stays `claimed` until somebody reads it.
* *Deletion.*  A worker that outlives `Stop` writes its own status over `deleting` (setup/orchestrator.go:440-444,
  565-571, 677-695): none of these writes has a condition on the status it replaces.
* *Confirmed reservations.*  connection/store.go:392-393 speaks of a recovery loop; no loop resumes a first
  administrator whose process ended between `Confirm` and `StartProvisioning`.
* *Interrupted recovery.*  A vta_only session at `deploy_vta` whose recovery was interrupted is in nobody's list
  (setup/initial_provision.go:13-16, setup/orchestrator_fullstack.go:1244-1251).
* *Recovery beside the queue.*  The recovery's status `step_vtc_setup` (setup/orchestrator_recovery.go:164) makes the
  queue run the chain from the import beside it.  `ReceiptsHold` shows that it repeats no effect.
* *A lost heartbeat.*  setup/initial_provision.go:120-126 cancels the worker on any ping that fails or takes three seconds;
  setup/orchestrator_vtc.go:40-49 then returns without `markFailed`.  `deploy_vta`, `deploy_vtc` and `step_trust_registry`
  are in no queue (setup/initial_provision.go:13-16), so the session stays there until a process starts, although
  setup/orchestrator_fullstack.go:1180-1192 wants every status to have someone working on it.
* *A recovery recovered again* may leave the older one's step as the last status written
  (setup/orchestrator_fullstack.go:1180-1192 wants every status to have someone working on it).
* *Resuming a batch* while its scheduler is on the way out (upgrade/runner.go:71-75, 43-48) leaves it running with
  pending tasks until the process restarts.
* *A skipped task still runs.*  handler/admin_upgrade.go:434-436 says that pending tasks are skipped.  A task whose
  goroutine has read it as pending is skipped by `Cancel` and then marked running without a condition
  (upgrade/runner.go:181) and its Deployment patched.  `StopsFeeding` says that this is at most one task, and the last
  of its batch.
* *Deletion before Start.*  A DELETE between the insertion of a full-stack row and `Start` finds no goroutine to cancel
  (handler/setup.go:848-903, setup/orchestrator.go:120-139); the one launched afterwards goes on beside the teardown.
* *A stale kick* may start the pool's worker on a member that is being activated: `runOne` (pool/runner.go:128) lets
  `provisioning` pass, `BuildPool` refuses it, and `recordBuildError` writes `failed` until the activation writes its
  own status; docs/pooled-vta-claim-design.md:261-263 gives an activation one owner.
* *Superseded gate.*  docs/pooled-vta-claim-design.md:465-467 wants the gate of a superseded claim cancelled.  The runs
  act on the current claim only, whose prewarm or cancel finds another claim's template and writes nothing
  (setup/pool_prewarm.go:64-103, k8s/vta_resources.go:123-125).  The activation of the new claim then fails with
  `ErrPoolActivationConflict`, and so does every retry.
* *Limiting figure.*  capacity/capacity.go:116-119 and 250-251 say that the figure of the limiting resource agrees with the
  count.  Each figure ignores the other resources (lines 252-266), so one node with only CPU free and one with only
  memory free give two positive figures and a count of 0.  Only the display is concerned; what holds is `FiguresCoverCount`.
* *Two estimates.*  handler/capacity_service.go:18-21 has dashboard and gate agree on what fits; they share the simulation
  but not the readings (handler/dashboard.go:210-236, capacity_service.go:129-156).
* *Resent sign-in documents.*  docs/keyring-app-sign-in-contract.md:162 has a wallet without an HTTP response resend the
  same signed document.  When the process ended between the commit of `oobClaim`, `oobProve` or `oobRespond` and
  `RecordResponse`, the execution that takes over finds the row already moved on and refuses, although the first one
  succeeded; and it takes over only when the lease has run out.

## Proofs

`ConnectionProofs` proves, for any sets of sessions, keys, replicas and recovery goroutines and any numbers of
reservations and faults, every safety property of the run `connection`, including the refinement `Spec =>
ImplementsHandover`.  The assumptions are those of `ConnectionAssumption`: a session exists, full-stack sessions are
sessions, `NoKey` is not a key, the bounds are natural numbers.

The argument is one inductive invariant, `IndInv`.  The checked properties are not inductive because the actors carry
copies: a worker its key, a job its request, a reader its rows, a failed session its stage.  `IndInv` says what those
copies are still worth:

* `UsedRows`, `ActiveIsCurrent`: rows are used in order and only the newest of a session is active, which is what
  makes "no current reservation" in `AcceptManual` mean "no active one";
* `ClaimantKept`, `ApprovedRows`: from claim to release a row has a key, approved from confirmation on;
* `GateIsFree`, `WorkerKey`: a waiting gate has no administrator, and the worker carries the session's own;
* `PipelineInstalled`: a session past the import, one that failed past it, or one under any recovery has its administrator
  in the VTA, which is why recovery may skip the import;
* `JobKey`, `JobRow`: a job's key is approved and its request is started or settled, never back at confirmed;
* `ViewIsSafe`: what a reader loaded still justifies releasing.

Each action has a lemma that it preserves `IndInv` and makes `Progress`: every row moves as `RowStep` allows and no key
or administrator is lost.  `Frame` gives the conjuncts about variables an action leaves alone, `PipelineStep` covers
all status writes of worker and recovery.  `Progress` also yields the two action properties; the refinement maps each
action to an approval, acceptance, submission, installation, or a stutter.

`UpgradeProofs` proves every safety property of the run `upgrade` for any sessions, targets, releases, batches,
requests, process ends and failing writes, from `UpgradeAssumption`; only `StoppedBatchIsNotFed` also assumes
`Concurrency = 1`, the column's default that no handler overrides, and finitely many targets (it counts the goroutines
of a batch).  With a higher concurrency the code does not promise it: one task may fail and pause the batch while
another is between its read and its first write, and more than one skipped task may still run.

Its invariant, also called `IndInv`, says what goroutines may still conclude from what they read:

* `Meaning`, `QueueRow`, `PcRow`: the statuses a row can have now that a scheduler's snapshot or a task goroutine saw
  earlier; a pending row may have been skipped by a cancellation, any row may be gone with its session, nothing else;
* `Waited`, `AtRest`: task goroutines exist only under a scheduler in its loop, and a batch about to be completed has
  no unfinished row, although a resume may have reopened it in between;
* `DataRow`: at each point of a rollout what the Deployment or the column already holds on a clean target;
* `Noticed`: sessions with two changes at once are marked, which is what lets a step of one task leave the targets of
  all others alone (`OneInFlight`);
* `Known`, `PlanKnown`, `Unused`: rows and planned rows name both releases, and unused batch ids have no traces.

`OneTaskKeeps` settles once what every task step leaves alone (`TaskFrame`), so that each action's lemma only looks at
its own row and target.  `RollbacksAreOneWay` follows from `PcRow`: a goroutine that reaches `MarkRunning` or `Succeed`
cannot have a rolling_back row.  Fail-fast adds `Sole`, `Starting` and
`Emptied`: between `Dispatch` and `MarkRunning` only the one goroutine of the batch could pause it, and a cancellation
leaves nothing pending, so that a goroutine that read its task before that is the last of the batch.

The proofs also stand for instances too large for the runs: full-stack sessions in `Connection`, and two batches on one
target or a process end together with a failing write in `Upgrade`.

`ActivationProofs` proves every safety property of the run `activation` and the refinement, for any numbers of claims,
prewarm runs and faults.  `ActivationAssumption` says that the bounds are natural numbers and `None` is no claim.
The invariant, again `IndInv`, follows the activation id from the claim to the volume:

* `Ordered`, `Administered`: a claim is made only when every earlier one is over for good, and the session's
  administrator is the one claim that was confirmed;
* `Hosted`, `Authorized`: an authorization is the administrator's, comes after the ACL at the DID host, and stays with a
  template of the same id that has a replica and no prewarm mark;
* `Scripted(c)`, `GateAfterHosting`: where the Pods of a claim may be in their script, and what volume and import
  counter hold then; this is where an interrupted `import-did` is told from a finished one;
* `RunningHasAdmin`: the session runs only with the key in the volume.

A prewarm run carries the claim it loaded, which may be outdated when it writes; `AuthorizedKeeps` shows that its write
then meets a template or an annotation that stops it.

`PoolProofs` proves every safety property of the run `pool` for every farm: any batches, members, claims, browsers and
workers, any cluster, and any numbers of requests, process ends and failing calls.  `PoolAssumption` keeps `None` apart
from these sets and the numbers of a farm natural, and says that the footprint of a VTA and the clusters have amounts
that are not negative.  The invariant says of each member what its three possible owners may still do: `RowFits` ties
the fields of a row to its status, `RunFits` the place of the build or cleanup worker to the row it holds, `OwnerFits`
the owner's deletion and the DNS record to both; `ClaimFits` the states of a claim to the member's, `Drained` the status
of a batch to those of its members, and `OneClaimPerBrowser` is the partial unique index.  Nearly every action concerns
one member, so generic lemmas (a row that changes in such fields, a worker that moves) prove `IndInv` and `Course`, what
no step may do to a member, once, and each action cites the one it is an instance of.

Admission has an invariant of its own, `Admitted`, on top of `IndInv`: all live members fit, and for every request that
holds a snapshot of n free places, n more fit beside those that run.  The second part is what the snapshot is still
worth: members that are inserted, built, claimed or deleted meanwhile do not enter it, a member that leaves `running`
only makes room (fewer sessions fit wherever more did, `HoldsFewer`), and one that begins to run sets `raced`.  The
insertion admits at most n minus the members that do not run, counted under the lock with what other requests inserted,
which `FitsBeside` turns into the first part.

`CapacityProofs` and `EstimatesProofs` prove the three properties of the run `capacity` for every mode, cluster, number of
replicas, reservation, reading and loop bound, from `CapacityAssumption` (the bound is positive) and
`EstimatesAssumption` (amounts are natural numbers, lists are finite, the live reading is among the samples when there
are metrics).  The recursive functions need an induction that the library's theorems cannot give here, so `Induction`
and `FiniteInduction` state it for sets of numbers and sets of subsets, from the well-foundedness of `<`; with them
the recursions are shown to have their equations and finite sums their laws.  On this rest:

* the placement: what `PlacePod`, `PlaceVolume` and `PlaceSession` take off, that a failed placement stays failed
  (`PlacingLasts`), that k and then n sessions are k + n (`PlacingSplits`, which gives `ReservationsKept`), and that the
  count is the last k that still fits (`SimulateIsPrefix`);
* that greedy is sound: along the placement an assignment of all Pods and volumes so far is carried whose needs per node
  and disk are exactly what is gone (`PlacingIsHosted`, `HostedFits`);
* that it is complete for one component: each node has a capacity in Pods and each disk in replicas (`Cap`), a placed Pod
  takes one place from one node and a volume one from r distinct disks; hosting n sessions needs n places on the
  nodes and, disks counted up to n each, n * r places on disks (`HostsEnough`, by counting replicas in two ways), and as
  long as there are as many, the next placement succeeds and leaves one session's less (`EnoughPlaces`);
* the dashboard: the high-water mark covers the live reading, so its nodes have less (`HighWaterCovers`), a reservation
  leaves less still, and what less can host more can (`MoreHosts`); exactness turns this back into counts.

`TrustTaskProofs` proves every property of the run `trust_task` for any set of documents and any number of concurrent
executions.  `TrustTaskAssumption` says that `None` is no document and nobody's name.  An execution carries the row it
read, which may be outdated in every field: the invariant says nothing of it, since the conditions of the writes
(`login.st` as it is now) are what keeps the row in order, and `Course` shows for each of them that they do.
`GuardFits` and `ExecutionFits` say that a lease is of an execution and what is answered is completed, `RowFits` relates
a sign-in's state to its wallet, its identity and the one session.  `Undisturbed` holds while no execution died and no
lease lapsed: one execution per document, and the poll is held by the redeem that waits; with troubles two redeems may
poll at once, and only the single session remains (`OneRedeem` states both).

`SetupProofs` proves every safety property of the run `setup` for any kinds of session and any number of troubles;
`SetupAssumption` gives the kinds their fields and makes the bound a natural number.  Most of it is about one question:
what a status or a goroutine's place still says of Kubernetes, when goroutines start in the middle of the chain.

* `Rank` numbers the places of the chain; `Reached(n)` says that every Job before the n-th place took effect, every
  Deployment before it exists, and behind the VTC's setup its identity is known.  Nothing of it is undone (`Rises`), and a
  step that did its work reaches the next place (`StepDone`);
* `Progress`: until a deletion, `Reached` holds at each goroutine's place (per goroutine), and at the place that the
  status or the stage of a failure names (`RowReached`), which is why a recovery may begin there; `Prepared` then
  follows because every Job of a volume comes before its daemon (`PreparedFirst`);
* `Roles`: before the gate one goroutine drives the session and its status is one of that side; behind it the session
  has an administrator.  Hence a worker and a recovery overlap behind the gate only, a recovery before it
  finds nobody, and `markFailedAt` always finds a stage in the row;
* `JobFits`: a finished Job took effect, and a receipt that took effect is still there, so that it is met and not run again.

`DriveStep` says once when the step of a goroutine keeps all this, `Begins` when a launch does, and `Torn` that a deletion
ends only `Progress`; each action has its lemma, and `RowWritten` and `RowFailed` settle the two kinds of status write.

Only model-checked is liveness, that is `GrantSettles`, `AcceptedIsProvisioned`, `InFlightEnds`, `MembersSettle`,
`ActivationEnds` and `SetupSettles`: it rests on fairness and on when actions are enabled, which is beyond the prover.
The violated statements need no proof.

## Not modelled

* The *maintenance lease* of a VTA's access list and the interactive ACL routes: their exclusion is a PostgreSQL
  advisory lock held by a connection; `Connection` keeps what a grant job sees of it, a busy answer.
* *Trust Registry enablement* from inside (one step of `Setup`) and the restoring of the VTC's configuration.
* *Domains*: one row, one column, one request at a time; a DNS wait that fails is a step of `Setup`.
* *did:webvh logs*: hash chains and signatures, which a model could only assume.
* *Accounts, passkeys, invitations, sessions of the farm's own sign-in, listings, logs, monitoring, HTTP clients and
  Kubernetes manifests*: I/O and single-row changes without a protocol.

Everywhere: database reads that fail before anything was written, the wording of answers, names and URLs.
