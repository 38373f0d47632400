------------------------------- MODULE Setup -------------------------------
(***************************************************************************)
(* The setup of one full-stack session: the chain of Kubernetes Jobs and   *)
(* Deployments before and behind the administrator gate, the goroutines    *)
(* that drive it (launched, recovered, or the provisioning worker), the    *)
(* map of their cancel functions, the end of the process with the resume   *)
(* that follows, the hour after which Kubernetes forgets finished Jobs,    *)
(* and the deletion of the session.  Several goroutines may drive one      *)
(* session: only the provisioning worker takes the advisory lock.          *)
(***************************************************************************)
EXTENDS Naturals, Sequences, FiniteSets

CONSTANTS
    Kinds,        \* the sessions created: [custom, registry, upfront]
    MaxTroubles,  \* how often, in all: the API process ends; a call, a Job or a
                  \* rollout fails; a heartbeat is lost; the finished Jobs
                  \* reach the end of their hour; somebody deletes the session
    None

ASSUME SetupAssumption ==
    /\ Kinds \subseteq [custom : BOOLEAN, registry : BOOLEAN,
                        upfront : BOOLEAN]
    /\ MaxTroubles \in Nat

Components == {"vta", "mediator", "dids", "vtc"}

-----------------------------------------------------------------------------
(* The steps: what they do, the volumes they open, the components that     *)
(* have to serve meanwhile, and whether the finished Job is kept.          *)

Work(does, volumes, peers, keep) ==
    [does |-> does, on |-> volumes, peers |-> peers, keep |-> keep]

Call == Work("call", {}, {}, FALSE)
Job(volumes) == Work("job", volumes, {}, FALSE)
Receipt(volumes) == Work("job", volumes, {}, TRUE)
Daemon(c) == Work("deploy", {c}, {}, FALSE)

DnsWait == Work("wait", {}, {}, FALSE)
EnvProvision == Call
K8sProvision == Call
TlsProvision == Work("cert", {}, {}, FALSE)
VtaSetup == Job({"vta"})
MediatorP1 == Job({"mediator"})
MediatorReprov == Job({"vta", "mediator"})
MediatorP2 == Job({"mediator"})
DidsP1 == Job({"dids"})
DidsProvision == Job({"vta", "dids"})
DidsP2 == Job({"dids"})
DidsInvite == Job({"dids"})
DidsLoadDid == Job({"vta", "dids"})
DidsGrantFarm == Job({"dids"})
VtaRegisterDids == Work("job", {"vta"}, {"dids"}, FALSE)

\* A slip: the Job of the import may be collected.
ImportAdminDidSlip == Job({"vta"})

ImportAdminDid == Receipt({"vta"})
VtcSetupKey == Receipt({"vtc"})
VtcAclGrant == Receipt({"vta"})
VtcSetup == Work("job", {"vtc"}, {"vta", "mediator", "dids"}, TRUE)
TrustRegistry == Work("registry", {}, {}, FALSE)

Step == [dns_wait |-> DnsWait, env_provision |-> EnvProvision,
         k8s_provision |-> K8sProvision, tls_provision |-> TlsProvision,
         step_vta_setup |-> VtaSetup,
         step_mediator_p1 |-> MediatorP1,
         step_mediator_reprov |-> MediatorReprov,
         step_mediator_p2 |-> MediatorP2,
         step_dids_p1 |-> DidsP1, step_dids_provision |-> DidsProvision,
         step_dids_p2 |-> DidsP2, step_dids_invite |-> DidsInvite,
         step_dids_load_did |-> DidsLoadDid,
         step_dids_grant_farm |-> DidsGrantFarm,
         deploy_dids |-> Daemon("dids"),
         deploy_mediator |-> Daemon("mediator"),
         step_vta_register_dids |-> VtaRegisterDids,
         step_import_admin_did |-> ImportAdminDid,
         step_vtc_setup_key |-> VtcSetupKey,
         step_vtc_acl_grant |-> VtcAclGrant,
         deploy_vta |-> Daemon("vta"), step_vtc_setup |-> VtcSetup,
         deploy_vtc |-> Daemon("vtc"), step_trust_registry |-> TrustRegistry]

Steps == DOMAIN Step
JobSteps == {s \in Steps : Step[s].does = "job"}

\* A slip: the dids daemon starts before its DID logs are loaded.
BeforeTheGateSlip ==
    <<"dns_wait", "env_provision", "k8s_provision", "tls_provision",
      "step_vta_setup", "step_mediator_p1", "step_mediator_reprov",
      "step_mediator_p2", "step_dids_p1", "step_dids_provision",
      "step_dids_p2", "step_dids_invite", "step_dids_grant_farm",
      "deploy_dids", "step_dids_load_did", "deploy_mediator",
      "step_vta_register_dids", "gate">>

BeforeTheGate ==
    <<"dns_wait", "env_provision", "k8s_provision", "tls_provision",
      "step_vta_setup", "step_mediator_p1", "step_mediator_reprov",
      "step_mediator_p2", "step_dids_p1", "step_dids_provision",
      "step_dids_p2", "step_dids_invite", "step_dids_load_did",
      "step_dids_grant_farm", "deploy_dids", "deploy_mediator",
      "step_vta_register_dids", "gate">>

BehindTheGate ==
    <<"step_import_admin_did", "step_vtc_setup_key", "step_vtc_acl_grant",
      "deploy_vta", "step_vtc_setup", "deploy_vtc", "step_trust_registry",
      "end">>

\* The eighteen places up to the gate, then the eight behind it.
Chain == [i \in 1..26 |-> IF i <= 18 THEN BeforeTheGate[i]
                          ELSE BehindTheGate[i - 18]]

\* The resume lists.
ResumePreGateSlip ==
    {"env_provision", "k8s_provision", "tls_provision", "step_vta_setup",
     "step_mediator_p1", "step_mediator_reprov", "step_mediator_p2",
     "step_dids_p1", "step_dids_provision", "step_dids_p2",
     "step_dids_invite", "step_dids_load_did", "step_dids_grant_farm",
     "step_vta_register_dids"}

\* A slip: the first step behind the gate is listed before it.
ResumePreGateWideSlip ==
    ResumePreGateSlip \cup {"dns_wait", "step_import_admin_did"}

ResumePreGate ==
    {"dns_wait", "env_provision", "k8s_provision", "tls_provision",
     "step_vta_setup", "step_mediator_p1", "step_mediator_reprov",
     "step_mediator_p2", "step_dids_p1", "step_dids_provision",
     "step_dids_p2", "step_dids_invite", "step_dids_load_did",
     "step_dids_grant_farm", "step_vta_register_dids"}

ResumePostGate == {"step_import_admin_did", "step_vtc_setup_key",
                   "step_vtc_acl_grant", "step_vtc_setup"}

ResumeDeployment == {"deploy_dids", "deploy_mediator", "deploy_vta",
                     "deploy_vtc", "step_trust_registry"}

\* The stages a user may recover from.
Recoverable == ResumeDeployment

\* ResumableProvisionStatus, for a full-stack session.
Resumable == ResumePostGate \cup {"deploy_vta", "deploy_vtc"}

-----------------------------------------------------------------------------
VARIABLES
    kind,
    session,   \* the row: status, failed stage, administrator, VTC identity,
               \* state of the Trust Registry
    job,       \* the Jobs in Kubernetes
    ran,       \* how often a Job took effect on the session's volumes
    deploy,    \* the Deployments; "stale" still counts the replaced Pod
    run,       \* the goroutines
    cancels,   \* the map entry of the launched goroutines' cancel function
    life,      \* the API process: about to call Start, serving, or down
    teardown,  \* how far a DELETE request is
    spent      \* the troubles so far

kube == <<job, ran, deploy>>
vars == <<kind, session, kube, run, cancels, life, teardown, spent>>

Launched == {"a", "b"}
Runs == Launched \cup {"worker"}
Idle == [at |-> "idle", todo |-> "enter", live |-> FALSE, of |-> "none",
         admin |-> FALSE, vtc |-> FALSE, reg |-> "disabled"]

Init ==
    /\ kind \in Kinds
    /\ session = [st |-> "dns_provision", failed |-> "", admin |-> kind.upfront,
                  vtc |-> FALSE,
                  reg |-> IF kind.registry THEN "enabling" ELSE "disabled"]
    /\ job = [s \in JobSteps |-> "none"]
    /\ ran = [s \in JobSteps |-> 0]
    /\ deploy = [c \in Components |-> "none"]
    /\ run = [r \in Runs |-> Idle]
    /\ cancels = None
    /\ life = "creating"
    /\ teardown = "none"
    /\ spent = 0

Trouble == spent < MaxTroubles /\ spent' = spent + 1

\* A goroutine for this session that loaded its row.
Fresh(of, at, todo) ==
    [at |-> at, todo |-> todo, live |-> TRUE, of |-> of,
     admin |-> session.admin, vtc |-> session.vtc, reg |-> session.reg]

\* launch: the older goroutine is cancelled, its map entry replaced.
Launch(r, of, at, todo) ==
    /\ run[r].at = "idle"
    /\ run' = [q \in Runs |-> IF q = r THEN Fresh(of, at, todo)
                              ELSE IF q = cancels
                                   THEN [run[q] EXCEPT !.live = FALSE]
                              ELSE run[q]]
    /\ cancels' = r

\* Updates of the row; a deleted row takes none.
Row(row) == session' = IF session.st = "gone" THEN session ELSE row
Status(status) == Row([session EXCEPT !.st = status])

\* A slip: the stage of the second failure replaces that of the first.
FailedAtSlip(stage) ==
    Row([session EXCEPT !.st = "failed",
             !.failed = IF stage = "" THEN session.st ELSE stage])

\* markFailedAt: the first failure names the stage.
FailedAt(stage) ==
    Row([session EXCEPT !.st = "failed",
             !.failed = IF session.st = "failed" THEN @
                        ELSE IF stage = "" THEN session.st ELSE stage])

Goto(r, at, todo) == run' = [run EXCEPT ![r].at = at, ![r].todo = todo]
Leave(r) == Goto(r, "leave", "enter")

\* A goroutine gives up on its step; only a recovery names the stage itself.
Fails(r) ==
    /\ FailedAt(IF run[r].of = "recover" THEN run[r].at ELSE "")
    /\ Leave(r)

DeployOf == [vta |-> "deploy_vta", mediator |-> "deploy_mediator",
             dids |-> "deploy_dids", vtc |-> "deploy_vtc"]

-----------------------------------------------------------------------------
(* One goroutine.                                                          *)

Position(s) == CHOOSE i \in DOMAIN Chain : Chain[i] = s

\* The step after s; a certificate is only awaited for a custom domain.
After(s) ==
    LET n == Chain[Position(s) + 1]
    IN  IF n = "tls_provision" /\ ~kind.custom THEN Chain[Position(s) + 2]
        ELSE n

\* fsSetStatus, which does not look at the context.  The registry step writes
\* its own status; the first step behind the gate writes the administrator
\* with it.
EnterStep(r) ==
    /\ run[r].at \in Steps \ {"step_trust_registry"}
    /\ run[r].todo = "enter"
    /\ Row([session EXCEPT !.st = run[r].at,
                !.admin = @ \/ run[r].at = "step_import_admin_did"])
    /\ Goto(r, run[r].at, "work")
    /\ UNCHANGED <<kind, kube, cancels, life, teardown, spent>>

\* A goroutine whose context is cancelled returns from its next call.
Stopped(r) ==
    /\ run[r].at \in Steps /\ run[r].todo # "enter"
    /\ ~run[r].live
    /\ Leave(r)
    /\ UNCHANGED <<kind, session, kube, cancels, life, teardown, spent>>

\* The calls that create no Job: DNS, namespace, Vault, the manifests.  Only
\* a custom domain fails on DNS.
CallStep(r) ==
    /\ run[r].at \in Steps /\ run[r].todo = "work" /\ run[r].live
    /\ Step[run[r].at].does \in {"call", "wait", "cert"}
    /\ \/ /\ Goto(r, After(run[r].at), "enter")
          /\ UNCHANGED <<session, spent>>
       \/ /\ Step[run[r].at].does = "wait" => kind.custom
          /\ Trouble /\ Fails(r)
    /\ UNCHANGED <<kind, kube, cancels, life, teardown>>

\* prepareRegistryForVtc gives the registry an identity before the VTC is set
\* up.  Its failure is noted in the row, and met at the last step.
PrepareRegistry(r) ==
    /\ run[r].at = "step_vtc_setup"
    /\ run[r].reg = "enabling" /\ ~run[r].vtc
    /\ Trouble
    /\ Row([session EXCEPT !.reg = "failed"])
    /\ run' = [run EXCEPT ![r].todo = "wait", ![r].reg = "failed"]

\* CreateComponentJob: a Job of that name is left alone.
CreateJob(r) ==
    LET s == run[r].at IN
    /\ s \in JobSteps /\ run[r].todo = "work" /\ run[r].live
    /\ job' = [job EXCEPT ![s] = IF @ = "none" THEN "active" ELSE @]
    /\ \/ /\ run' = [run EXCEPT ![r].todo = "wait"]
          /\ UNCHANGED <<session, spent>>
       \/ PrepareRegistry(r)
    /\ UNCHANGED <<kind, ran, deploy, cancels, life, teardown>>

\* WaitForJob, the logs, and the identities parsed from them.
AwaitJob(r) ==
    LET s == run[r].at IN
    /\ s \in JobSteps /\ run[r].todo = "wait" /\ run[r].live
    /\ \/ /\ job[s] = "done"
          /\ IF s = "step_vtc_setup"
             THEN Row([session EXCEPT !.vtc = TRUE])
             ELSE UNCHANGED session
          /\ Goto(r, After(s), "enter")
       \/ /\ job[s] \in {"failed", "none"}
          /\ Fails(r)
    /\ UNCHANGED <<kind, kube, cancels, life, teardown, spent>>

Component(s) == CHOOSE c \in Step[s].on : TRUE

\* CreateComponentDeployment, again only when there is none.
CreateDaemon(r) ==
    LET s == run[r].at IN
    /\ s \in Steps /\ run[r].todo = "work" /\ run[r].live
    /\ Step[s].does = "deploy"
    /\ deploy' = [deploy EXCEPT
                      ![Component(s)] = IF @ = "none" THEN "starting" ELSE @]
    /\ Goto(r, s, "wait")
    /\ UNCHANGED <<kind, session, job, ran, cancels, life, teardown, spent>>

\* WaitForComponentDeploymentReady looks at the count of ready Pods only.
AwaitDaemon(r) ==
    LET s == run[r].at IN
    /\ s \in Steps /\ run[r].todo = "wait" /\ run[r].live
    /\ Step[s].does = "deploy"
    /\ \/ /\ deploy[Component(s)] \in {"ready", "stale"}
          /\ Goto(r, After(s), "enter")
          /\ UNCHANGED <<session, spent>>
       \/ /\ deploy[Component(s)] \notin {"ready", "stale"}
          /\ Trouble /\ Fails(r)
    /\ UNCHANGED <<kind, kube, cancels, life, teardown>>

\* reconcileFullStackRecoveryImages: a recovery first changes the Pods of the
\* failed and of every earlier Deployment, then waits for the earlier ones, as
\* weakly as above.
ReconcileImages(r) ==
    LET upTo == Position(run[r].at)
        earlier == {c \in Components :
                        Position(DeployOf[c]) < Position(run[r].at)}
        waiting == {c \in earlier : deploy[c] \notin {"ready", "stale"}}
    IN
    /\ run[r].at \in Steps /\ run[r].todo = "images" /\ run[r].live
    /\ deploy' = [c \in Components |->
                      IF Position(DeployOf[c]) <= upTo /\ deploy[c] = "ready"
                      THEN "stale" ELSE deploy[c]]
    /\ \/ /\ waiting = {}
          /\ Goto(r, run[r].at, "work")
          /\ UNCHANGED <<session, spent>>
       \/ /\ waiting # {}
          /\ Trouble /\ Fails(r)
    /\ UNCHANGED <<kind, job, ran, cancels, life, teardown>>

\* queueProvision: AcceptManual of a row that has its administrator needs a
\* status behind the gate; then the queue is kicked.
Kicked ==
    IF session.admin /\ session.st \in Resumable /\ run["worker"].at = "idle"
    THEN Fresh("finish", "step_import_admin_did", "enter")
    ELSE run["worker"]

\* The end of the first half.  runFullStack hands a session created with an
\* administrator to Provision; a recovered one is first moved behind the gate,
\* for the next tick of the queue.
Gate(r) ==
    /\ run[r].at = "gate"
    /\ \/ /\ ~run[r].admin
          /\ Status("awaiting_admin_did") /\ Leave(r)
       \/ /\ run[r].admin /\ run[r].of = "recover"
          /\ Status("step_import_admin_did") /\ Leave(r)
       \/ /\ run[r].admin /\ run[r].of = "start"
          /\ run' = [run EXCEPT ![r].at = "leave", ![r].todo = "enter",
                                !["worker"] = Kicked]
          /\ UNCHANGED session
    /\ UNCHANGED <<kind, kube, cancels, life, teardown, spent>>

\* finishRegistrySetup on the row as this goroutine knows it.
EnterRegistry(r) ==
    /\ run[r].at = "step_trust_registry" /\ run[r].todo = "enter"
    /\ \/ /\ run[r].reg \in {"disabled", "active"}
          /\ Goto(r, "end", "enter")
          /\ UNCHANGED session
       \/ /\ run[r].reg = "failed"
          /\ FailedAt("step_trust_registry") /\ Leave(r)
       \/ /\ run[r].reg = "enabling"
          /\ Status("step_trust_registry")
          /\ Goto(r, "step_trust_registry", "work")
    /\ UNCHANGED <<kind, kube, cancels, life, teardown, spent>>

EnableRegistry(r) ==
    /\ run[r].at = "step_trust_registry" /\ run[r].todo = "work"
    /\ run[r].live
    /\ \/ /\ Row([session EXCEPT !.reg = "active"])
          /\ Goto(r, "end", "enter")
          /\ UNCHANGED spent
       \/ /\ Trouble
          /\ Row([session EXCEPT !.reg = "failed", !.st = "failed",
                      !.failed = IF session.st = "failed" THEN @
                                 ELSE "step_trust_registry"])
          /\ Leave(r)
    /\ UNCHANGED <<kind, kube, cancels, life, teardown>>

Finish(r) ==
    /\ run[r].at = "end"
    /\ Row([session EXCEPT !.st = "running",
                !.failed = IF run[r].of = "recover" THEN "" ELSE @])
    /\ Leave(r)
    /\ UNCHANGED <<kind, kube, cancels, life, teardown, spent>>

\* The deferred function of launch deletes the map entry of the session,
\* whoever it belongs to by now.
Exit(r) ==
    /\ run[r].at = "leave"
    /\ run' = [run EXCEPT ![r] = Idle]
    /\ cancels' = IF r \in Launched THEN None ELSE cancels
    /\ UNCHANGED <<kind, session, kube, life, teardown, spent>>

Drive(r) ==
    \/ EnterStep(r) \/ Stopped(r) \/ CallStep(r)
    \/ CreateJob(r) \/ AwaitJob(r) \/ CreateDaemon(r) \/ AwaitDaemon(r)
    \/ ReconcileImages(r) \/ Gate(r) \/ EnterRegistry(r)
    \/ EnableRegistry(r) \/ Finish(r) \/ Exit(r)

-----------------------------------------------------------------------------
(* Kubernetes.                                                             *)

\* A Job of a volume's store fails while a daemon holds it, and without the
\* components it talks to; it may fail anyway.
JobEnds(s) ==
    LET held == \E c \in Step[s].on \ {"mediator"} : deploy[c] # "none"
        served == \A c \in Step[s].peers : deploy[c] = "ready"
    IN
    /\ job[s] = "active"
    /\ \/ /\ ~held /\ served
          /\ job' = [job EXCEPT ![s] = "done"]
          /\ ran' = [ran EXCEPT ![s] = IF @ = 2 THEN 2 ELSE @ + 1]
          /\ UNCHANGED spent
       \/ /\ job' = [job EXCEPT ![s] = "failed"]
          /\ UNCHANGED ran
          /\ IF held \/ ~served THEN UNCHANGED spent ELSE Trouble
    /\ UNCHANGED <<kind, session, deploy, run, cancels, life, teardown>>

DaemonReady(c) ==
    /\ deploy[c] \in {"starting", "stale"}
    /\ deploy' = [deploy EXCEPT ![c] = "ready"]
    /\ UNCHANGED <<kind, session, job, ran, run, cancels, life>>
    /\ UNCHANGED <<teardown, spent>>

\* ttlSecondsAfterFinished: an hour later the finished Jobs are gone, but for
\* the receipts.  No step of a goroutine lasts that long.
Hour ==
    /\ \A r \in Runs : run[r].at \in Steps => run[r].todo # "wait"
    /\ job' = [s \in JobSteps |->
                   IF job[s] = "failed" \/ (job[s] = "done" /\ ~Step[s].keep)
                   THEN "none" ELSE job[s]]
    /\ job' # job /\ Trouble
    /\ UNCHANGED <<kind, session, ran, deploy, run, cancels, life, teardown>>

-----------------------------------------------------------------------------
(* The requests, the queue, the process.                                   *)

\* The tail of createFullStack, after the row and its DNS records.
Create(r) ==
    /\ life = "creating"
    /\ life' = "up"
    /\ IF session.st = "gone" THEN UNCHANGED <<run, cancels>>
       ELSE Launch(r, "start", "dns_wait", "enter")
    /\ UNCHANGED <<kind, session, kube, teardown, spent>>

\* recoverSession: the row goes back to the failed stage, in one transaction.
Recover(r) ==
    /\ life = "up"
    /\ session.st = "failed" /\ session.failed \in Recoverable
    /\ LET stage == session.failed
           reg == IF stage = "step_trust_registry" THEN "enabling"
                  ELSE session.reg
           todo == IF stage = "step_trust_registry" THEN "enter" ELSE "images"
       IN  /\ session' = [session EXCEPT !.st = stage, !.failed = "",
                                         !.reg = reg]
           /\ Launch(r, "recover", stage, todo)
    /\ UNCHANGED <<kind, kube, life, teardown, spent>>

\* ProvisionAdmin on a session at the gate: AcceptManual.
ProvisionAdmin ==
    /\ life = "up" /\ session.st = "awaiting_admin_did" /\ ~session.admin
    /\ session' = [session EXCEPT !.st = "step_import_admin_did",
                                  !.admin = TRUE]
    /\ UNCHANGED <<kind, kube, run, cancels, life, teardown, spent>>

\* The tick of RunProvisionQueue, or a kick: runProvisionOperation takes the
\* advisory lock and starts at the first step behind the gate.
ProvisionTick ==
    /\ life = "up" /\ session.admin /\ session.st \in ResumePostGate
    /\ run["worker"].at = "idle"
    /\ run' = [run EXCEPT !["worker"] =
                   Fresh("finish", "step_import_admin_did", "enter")]
    /\ UNCHANGED <<kind, session, kube, cancels, life, teardown, spent>>

\* The heartbeat of the advisory lock's connection cancels the worker of a
\* session under deletion.
Heartbeat ==
    /\ run["worker"].live /\ session.st \in {"deleting", "gone"}
    /\ run' = [run EXCEPT !["worker"].live = FALSE]
    /\ UNCHANGED <<kind, session, kube, cancels, life, teardown, spent>>

\* It does so as well when its ping fails or takes more than three seconds.
HeartbeatLost ==
    /\ run["worker"].live /\ Trouble
    /\ run' = [run EXCEPT !["worker"].live = FALSE]
    /\ UNCHANGED <<kind, session, kube, cancels, life, teardown>>

\* The process ends, with its goroutines and requests.
Crash ==
    /\ life # "down" /\ Trouble
    /\ run' = [r \in Runs |-> Idle] /\ cancels' = None
    /\ life' = "down"
    /\ teardown' = IF teardown \in {"none", "done"} THEN teardown
                   ELSE "gave_up"
    /\ UNCHANGED <<kind, session, kube>>

\* Resume and resumeFullStack.
Boot(r) ==
    /\ life = "down" /\ life' = "up"
    /\ \/ /\ session.st \in ResumePreGate
          /\ Launch(r, "start", "dns_wait", "enter")
       \/ /\ session.st \in ResumePostGate
                            \cup (IF session.admin THEN {"awaiting_admin_did"}
                                  ELSE {})
          /\ run' = [run EXCEPT !["worker"] = Kicked]
          /\ UNCHANGED cancels
       \/ /\ session.st \in ResumeDeployment
          /\ Launch(r, "recover", session.st,
                    IF session.st = "step_trust_registry" THEN "enter"
                    ELSE "images")
       \/ /\ session.st \notin
                  ResumePreGate \cup ResumePostGate \cup ResumeDeployment
          /\ ~(session.st = "awaiting_admin_did" /\ session.admin)
          /\ UNCHANGED <<run, cancels>>
    /\ UNCHANGED <<kind, session, kube, teardown, spent>>

-----------------------------------------------------------------------------
(* DELETE: teardownSession, deleteFullStack.                               *)

\* Cancel: connection.Stop, then the worker and the goroutine the map names.
\* What they do between the two they also do afterwards: write their next
\* status before they look at their context.
DeleteAsk ==
    /\ life # "down" /\ session.st # "gone"
    /\ teardown \in {"none", "gave_up"}
    /\ Status("deleting") /\ teardown' = "asked" /\ Trouble
    /\ run' = [r \in Runs |-> IF r \in {"worker", cancels}
                              THEN [run[r] EXCEPT !.live = FALSE] ELSE run[r]]
    /\ cancels' = None
    /\ UNCHANGED <<kind, kube, life>>

\* The wait for the worker's advisory lock, fifteen seconds at most.
DeleteGivesUp ==
    /\ teardown = "asked" /\ run["worker"].at # "idle"
    /\ teardown' = "gave_up" /\ Trouble
    /\ UNCHANGED <<kind, session, kube, run, cancels, life>>

DeleteResources ==
    /\ teardown = "asked" /\ run["worker"].at = "idle"
    /\ teardown' = "removed"
    /\ job' = [s \in JobSteps |-> "none"]
    /\ ran' = [s \in JobSteps |-> 0]
    /\ deploy' = [c \in Components |-> "none"]
    /\ UNCHANGED <<kind, session, run, cancels, life, spent>>

\* The row last; a namespace shared with other sessions stays.
DeleteRow ==
    /\ teardown = "removed" /\ teardown' = "done"
    /\ session' = [session EXCEPT !.st = "gone"]
    /\ UNCHANGED <<kind, kube, run, cancels, life, spent>>

Deletion == DeleteAsk \/ DeleteGivesUp \/ DeleteResources \/ DeleteRow

\* One of the two names of launched goroutines, the first that is free.
Free(r) == run[r].at = "idle" /\ (r = "b" => run["a"].at # "idle")

Kubernetes == (\E s \in JobSteps : JobEnds(s))
              \/ (\E c \in Components : DaemonReady(c))

Next ==
    \/ \E r \in Runs : Drive(r)
    \/ Kubernetes \/ Hour
    \/ \E r \in Launched : Free(r) /\ (Create(r) \/ Recover(r) \/ Boot(r))
    \/ ProvisionAdmin \/ ProvisionTick \/ Heartbeat \/ HeartbeatLost
    \/ Crash \/ Deletion

Spec == Init /\ [][Next]_vars

\* Goroutines run, Jobs end, Pods become ready, the process is restarted and
\* the queue ticks; nothing is owed by users.
FairSpec ==
    /\ Spec
    /\ \A r \in Runs : WF_vars(Drive(r))
    /\ WF_vars(Kubernetes)
    /\ WF_vars(\E r \in Launched : Free(r) /\ (Create(r) \/ Boot(r)))
    /\ WF_vars(ProvisionTick) /\ WF_vars(Heartbeat)

-----------------------------------------------------------------------------
(* Properties.                                                             *)

Statuses == Steps \cup {"dns_provision", "awaiting_admin_did", "running",
                        "failed", "deleting", "gone"}

\* The shape of the state; the stage of a failure is always the step that
\* failed, whatever fails after it.
TypeOK ==
    /\ session \in [st : Statuses,
                    failed : Steps \cup {"", "running", "deleting"},
                    admin : BOOLEAN, vtc : BOOLEAN,
                    reg : {"disabled", "enabling", "active", "failed"}]
    /\ job \in [JobSteps -> {"none", "active", "done", "failed"}]
    /\ ran \in [JobSteps -> 0..2]
    /\ deploy \in [Components -> {"none", "starting", "ready", "stale"}]
    /\ \A r \in Runs : run[r].at \in Steps \cup {"idle", "gate", "end", "leave"}
    /\ cancels \in Launched \cup {None}
    /\ life \in {"creating", "up", "down"}
    /\ teardown \in {"none", "asked", "removed", "gave_up", "done"}

\* The Jobs that write a component's volume: all of them before it is served.
Prepares(c) == {s \in JobSteps : c \in Step[s].on}

\* The Jobs behind the gate, each the receipt of what it did.
Receipts == {"step_import_admin_did", "step_vtc_setup_key",
             "step_vtc_acl_grant", "step_vtc_setup"}

\* runFullStack: a daemon starts on a volume only when every Job that writes
\* it offline took effect, whichever goroutine, resume or recovery got there.
StartsPrepared ==
    \A c \in Components :
        deploy[c] # "none" /\ teardown = "none"
            => \A s \in Prepares(c) : ran[s] > 0

\* fsStepImportAdminDid, fsStepVtcAclGrant, fsStepVtcSetup: a step whose Job is
\* its receipt takes effect once, across crashes, the recovery that races the
\* provisioning queue, and the hour after which other Jobs are forgotten.
ReceiptsHold ==
    \A s \in Receipts : ran[s] <= 1

\* A running session has its administrator imported, its VTC set up and its
\* four Deployments, whoever finished it.
RunningIsComplete ==
    session.st = "running" /\ teardown = "none" =>
        /\ session.admin /\ session.vtc
        /\ \A c \in Components : deploy[c] # "none"
        /\ \A s \in Receipts : ran[s] = 1

\* Nothing is served unprepared, and nothing runs incomplete.
ServedIsPrepared == StartsPrepared /\ RunningIsComplete

Past == ResumePostGate \cup {"deploy_vta", "deploy_vtc",
                             "step_trust_registry", "running"}

\* Resume and recovery continue behind the administrator gate: no session that
\* was handed to its administrator enters a step before it again.
NeverBackBeforeTheGate ==
    [][session.st \in Past \/ (session.st = "failed"
                               /\ session.failed \in Past)
         => session'.st \notin
                ResumePreGate \cup {"deploy_dids", "deploy_mediator",
                                    "awaiting_admin_did"}]_vars

Settled == {"awaiting_admin_did", "running", "failed"}

\* A recovery that was recovered again, and is still to write its step.
Superseded == \E r \in Launched : ~run[r].live
                                  /\ run[r].at \notin {"idle", "leave"}

\* A worker that stops at a step no queue takes up: only the start of a
\* process resumes that session.
Interrupted ==
    /\ ~run["worker"].live
    /\ run["worker"].at \in {"deploy_vta", "deploy_vtc", "step_trust_registry"}

\* resumeFullStack: work that is owed is picked up again.  Every session that
\* entered its first step waits for its administrator, runs or fails in the
\* end, unless its deletion was asked for.  Without the two exceptions this is
\* false of the code: what a superseded recovery writes last, and the step of
\* an interrupted worker, stay until the process is started again.
SetupSettles ==
    [](~Superseded /\ ~Interrupted)
        => ((session.st \in Steps /\ ~kind.upfront)
               ~> (session.st \in Settled \/ teardown # "none"))

\* handler/setup.go, createSetupRequest: with an administrator named in the
\* request the second half starts by itself.
UpfrontAdminProceeds ==
    (kind.upfront /\ session.st = "step_vta_register_dids")
        ~> (session.st \notin {"step_vta_register_dids"})
=============================================================================
