----------------------------- MODULE Activation -----------------------------
(***************************************************************************)
(* One pooled VTA from the first reservation to its release: the claims    *)
(* that follow each other on it, the runs that prewarm its Pod or cancel   *)
(* it, the gate the Pod polls, the worker that activates the confirmed     *)
(* claim, the Deployment they share and the Pod's one-shot init script.    *)
(* A claim's activation id, its key and the claim itself are one value.    *)
(* The inventory the member comes from and its deletion are in Pool.       *)
(***************************************************************************)
EXTENDS Naturals, FiniteSets

CONSTANTS
    MaxClaims,    \* claims ever created on the member
    Runs,         \* prewarm goroutines that may overlap
    MaxFaults,    \* ends of the API process, Pod crashes, failing calls of
                  \* Kubernetes and DID hosting
    None

ASSUME ActivationAssumption ==
    /\ MaxClaims \in Nat /\ MaxFaults \in Nat
    /\ None \notin 1..MaxClaims

Claims == 1..MaxClaims

VARIABLES
    session,  \* the setup_sessions row: status and administrator
    claim,    \* the mobile_connections rows
    deploy,   \* the Deployment: template id, replicas, both annotations
    pods,     \* for each template id, where its Pod's init script is
    volume,   \* the VTA's volume: ACL entries and receipts
    imports,  \* how often import-did ran for a claim
    hosting,  \* the VTA has its ACL entry at the DID host
    pre,      \* the prewarm runs
    kick,     \* a prewarm run is about to start
    worker,   \* where the activation worker is
    faults

cluster == <<deploy, pods, volume, imports>>
vars == <<session, claim, cluster, hosting, pre, kick, worker, faults>>

IdleRun == [pc |-> "idle", c |-> None, cancelled |-> FALSE]
Parked == [tmpl |-> None, on |-> FALSE, auth |-> None, warm |-> None]
Confirmed == {"provisioning", "released"}

Init ==
    /\ session = [st |-> "pool_waiting", admin |-> None]
    /\ claim = [c \in Claims |-> [st |-> "none", late |-> FALSE]]
    /\ deploy = Parked
    /\ pods = [c \in Claims |-> "none"]
    /\ volume = [acl |-> {}, receipts |-> {}]
    /\ imports = [c \in Claims |-> 0]
    /\ hosting = FALSE
    /\ pre = [r \in Runs |-> IdleRun]
    /\ kick = FALSE
    /\ worker = "idle"
    /\ faults = 0

Fault == faults < MaxFaults /\ faults' = faults + 1

\* connection.Current: the claim created last.
IsCurrent(c) ==
    /\ claim[c].st # "none"
    /\ \A d \in Claims : claim[d].st # "none" => d <= c

\* A claim no one can confirm any more.
Over(c) ==
    \/ claim[c].st \in {"rejected", "lapsed"}
    \/ claim[c].st \in {"open", "claimed"} /\ claim[c].late

-----------------------------------------------------------------------------
(* The claims of the member, as in Pool.                                   *)

To(c, status) == claim' = [claim EXCEPT ![c].st = status]

Reserve(c) ==
    /\ session.st = "pool_waiting" /\ session.admin = None
    /\ claim[c].st = "none"
    /\ \A d \in 1..(c - 1) : Over(d) /\ claim[d].st # "claimed"
    /\ claim' = [d \in Claims |->
           IF d = c THEN [st |-> "open", late |-> FALSE]
           ELSE IF claim[d].st = "open" THEN [claim[d] EXCEPT !.st = "lapsed"]
           ELSE claim[d]]
    /\ UNCHANGED <<session, cluster, hosting, pre, kick, worker, faults>>

\* The wallet submits its DID; the handler kicks the prewarm afterwards.
Claim(c) ==
    /\ claim[c].st = "open" /\ ~claim[c].late
    /\ session.st = "pool_waiting"
    /\ To(c, "claimed")
    /\ kick' = TRUE
    /\ UNCHANGED <<session, cluster, hosting, pre, worker, faults>>

Expire(c) ==
    /\ claim[c].st \in {"open", "claimed"} /\ ~claim[c].late
    /\ claim' = [claim EXCEPT ![c].late = TRUE]
    /\ UNCHANGED <<session, cluster, hosting, pre, kick, worker, faults>>

\* A page that shows the claim lapses a late one and kicks the prewarm.
View(c) ==
    /\ claim[c].st \in {"open", "claimed"} /\ claim[c].late
    /\ To(c, "lapsed")
    /\ kick' = TRUE
    /\ UNCHANGED <<session, cluster, hosting, pre, worker, faults>>

Reject(c) ==
    /\ \/ claim[c].st = "open" /\ IsCurrent(c) /\ To(c, "lapsed")
       \/ claim[c].st = "claimed" /\ ~claim[c].late /\ To(c, "rejected")
    /\ kick' = TRUE
    /\ UNCHANGED <<session, cluster, hosting, pre, worker, faults>>

Confirm(c) ==
    /\ claim[c].st = "claimed" /\ ~claim[c].late
    /\ To(c, "provisioning")
    /\ session' = [st |-> "provisioning", admin |-> c]
    /\ UNCHANGED <<cluster, hosting, pre, kick, worker, faults>>

\* The operator retries; the worker's lock must be free.
RetryActivation ==
    /\ session.st = "failed" /\ worker = "idle"
    /\ session' = [session EXCEPT !.st = "provisioning"]
    /\ UNCHANGED <<claim, cluster, hosting, pre, kick, worker, faults>>

-----------------------------------------------------------------------------
(* Prewarm runs.                                                           *)

\* RunPoolPrewarmQueue, every ten seconds: a member with a claimed claim, or
\* whose Deployment carries the prewarm label, is kicked.
QueueTick ==
    /\ ~kick
    /\ \/ \E c \in Claims : claim[c].st = "claimed"
       \/ deploy.warm # None
    /\ kick' = TRUE
    /\ UNCHANGED <<session, claim, cluster, hosting, pre, worker, faults>>

\* KickPoolPrewarm: the newer run cancels the older one.
StartRun(r) ==
    /\ kick
    /\ pre[r].pc = "idle"
    /\ kick' = FALSE
    /\ pre' = [q \in Runs |->
           IF q = r THEN [IdleRun EXCEPT !.pc = "load"]
           ELSE [pre[q] EXCEPT !.cancelled = (pre[q].pc # "idle")]]
    /\ UNCHANGED <<session, claim, cluster, hosting, worker, faults>>

EndRun(r) == pre' = [pre EXCEPT ![r] = IdleRun]

\* reconcilePoolPrewarm up to its call of Kubernetes: what the latest claim,
\* lapsed when it is late, asks for.
LoadRun(r) ==
    /\ pre[r].pc = "load"
    /\ \/ (\A c \in Claims : ~IsCurrent(c)) /\ EndRun(r) /\ UNCHANGED claim
       \/ \E c \in Claims :
            /\ IsCurrent(c)
            /\ LET late == claim[c].st = "claimed" /\ claim[c].late
               IN /\ claim' = IF late
                              THEN [claim EXCEPT ![c].st = "lapsed"]
                              ELSE claim
                  /\ pre' = [pre EXCEPT ![r] =
                       IF claim[c].st \in Confirmed THEN IdleRun
                       ELSE [@ EXCEPT !.c = c,
                              !.pc = IF claim[c].st = "claimed" /\ ~late
                                     THEN "warm" ELSE "cancel"]]
    /\ UNCHANGED <<session, cluster, hosting, kick, worker, faults>>

\* updateParkedVtaDeployment without authorization: the template becomes the
\* claim's and the Deployment is started, unless it is another claim's, is
\* authorized or runs unclaimed.
Prewarm(c) ==
    IF deploy.tmpl \notin {None, c} \/ deploy.auth # None
       \/ (deploy.tmpl = None /\ deploy.on)
    THEN UNCHANGED deploy
    ELSE deploy' = [deploy EXCEPT !.tmpl = c, !.on = TRUE, !.warm = c]

\* A slip: a cancel takes whatever it finds for its own claim's prewarm.
CancelPrewarmSlip(c) == deploy' = Parked

\* CancelPoolPrewarm: back to the parked template, when it is this claim's
\* and not authorized.
CancelPrewarm(c) ==
    IF deploy.auth # None \/ deploy.warm # c \/ deploy.tmpl # c
    THEN UNCHANGED deploy
    ELSE deploy' = Parked

\* The run's write, under the Deployment's resource version.
ApplyRun(r) ==
    /\ \/ pre[r].pc = "warm" /\ Prewarm(pre[r].c)
       \/ pre[r].pc = "cancel" /\ CancelPrewarm(pre[r].c)
    /\ EndRun(r)
    /\ UNCHANGED <<session, claim, pods, volume, imports, hosting, kick,
                   worker, faults>>

\* The run is cancelled before its write, or the write fails.
DropRun(r) ==
    /\ pre[r].pc # "idle"
    /\ \/ pre[r].cancelled /\ UNCHANGED faults
       \/ pre[r].pc # "load" /\ Fault
    /\ EndRun(r)
    /\ UNCHANGED <<session, claim, cluster, hosting, kick, worker>>

-----------------------------------------------------------------------------
(* The activation worker of the confirmed claim.                           *)

\* A slip: work that an earlier worker began is not taken again.
TakeSlip ==
    /\ worker = "idle" /\ ~hosting
    /\ session.st = "provisioning" /\ session.admin # None
    /\ worker' = "acl"
    /\ UNCHANGED <<session, claim, cluster, hosting, pre, kick, faults>>

\* RunProvisionQueue and KickProvision: under the session's advisory lock.
Take ==
    /\ worker = "idle"
    /\ session.st = "provisioning" /\ session.admin # None
    /\ worker' = "acl"
    /\ UNCHANGED <<session, claim, cluster, hosting, pre, kick, faults>>

FailActivation == session' = [session EXCEPT !.st = "failed"]

\* runProvision: the VTA's ACL entry at the DID host comes first.
HostingAcl ==
    /\ worker = "acl"
    /\ \/ /\ hosting' = TRUE /\ worker' = "patch"
          /\ UNCHANGED <<session, faults>>
       \/ Fault /\ FailActivation /\ worker' = "idle" /\ UNCHANGED hosting
    /\ UNCHANGED <<claim, cluster, pre, kick>>

\* loadPoolActivation: the confirmed claim of the session's administrator.
Loaded(c) == c = session.admin /\ claim[c].st \in Confirmed

\* A slip: the Deployment is authorized, but not started.
ActivateSlip(c) ==
    /\ deploy.tmpl \in {None, c}
    /\ deploy.tmpl = None => ~deploy.on
    /\ deploy' = [deploy EXCEPT !.tmpl = c, !.auth = c, !.warm = None]

\* updateParkedVtaDeployment with authorization: the Deployment is started
\* with the claim's script, or a Pod that waits is only authorized.
Activate(c) ==
    /\ deploy.tmpl \in {None, c}
    /\ deploy.tmpl = None => ~deploy.on
    /\ deploy' = [tmpl |-> c, on |-> TRUE, auth |-> c, warm |-> None]

PatchDeployment ==
    /\ worker = "patch"
    /\ \/ \E c \in Claims : Loaded(c) /\ Activate(c) /\ worker' = "wait"
                            /\ UNCHANGED <<session, faults>>
       \/ /\ ~\E c \in Claims : Loaded(c) /\ deploy.tmpl \in {None, c}
                   /\ (deploy.tmpl = None => ~deploy.on)
          /\ FailActivation /\ worker' = "idle" /\ UNCHANGED <<deploy, faults>>
       \/ Fault /\ FailActivation /\ worker' = "idle" /\ UNCHANGED deploy
    /\ UNCHANGED <<claim, pods, volume, imports, hosting, pre, kick>>

\* A slip: the container that imports counts as ready.
ReadySlip ==
    /\ deploy.on /\ deploy.tmpl # None
    /\ pods[deploy.tmpl] \in {"import", "receipt", "serve"}

Ready == deploy.on /\ deploy.tmpl # None /\ pods[deploy.tmpl] = "serve"

\* WaitForVtaActivation and finishVtaOnlyDeployment: running and released, or
\* failed when the init script keeps failing or two minutes pass.
FinishActivation ==
    /\ worker = "wait"
    /\ worker' = "idle"
    /\ \/ /\ Ready
          /\ session' = [session EXCEPT !.st = "running"]
          /\ claim' = [c \in Claims |->
                 IF IsCurrent(c) /\ claim[c].st = "provisioning"
                 THEN [claim[c] EXCEPT !.st = "released"] ELSE claim[c]]
       \/ ~Ready /\ FailActivation /\ UNCHANGED claim
    /\ UNCHANGED <<cluster, hosting, pre, kick, faults>>

-----------------------------------------------------------------------------
(* The Pod: Kubernetes starts it from the template and ends it with it.    *)

Wanted(c) == deploy.on /\ deploy.tmpl = c
PodTo(c, pc) == pods' = [pods EXCEPT ![c] = pc]

StartPod(c) ==
    /\ Wanted(c) /\ pods[c] \in {"none", "exited"}
    /\ PodTo(c, "gate")
    /\ UNCHANGED <<session, claim, deploy, volume, imports, hosting, pre,
                   kick, worker, faults>>

\* A Pod that is no longer wanted runs on until it is stopped.
StopPod(c) ==
    /\ ~Wanted(c) /\ pods[c] # "none"
    /\ PodTo(c, "none")
    /\ UNCHANGED <<session, claim, deploy, volume, imports, hosting, pre,
                   kick, worker, faults>>

\* PoolActivationGate, the rows: the current claim, confirmed, with the
\* administrator of the session.
GateConfirmed(c) ==
    claim[c].st \in Confirmed /\ IsCurrent(c) /\ session.admin = c

\* 410: another claim is current, or this one is over.
GateGone(c) == ~IsCurrent(c) \/ Over(c)

\* A slip: every answer but 410 ends the wait.
PollGateSlip(c) ==
    /\ pods[c] = "gate"
    /\ PodTo(c, IF GateGone(c) THEN "exited" ELSE "probe")
    /\ UNCHANGED <<session, claim, deploy, volume, imports, hosting, pre,
                   kick, worker, faults>>

\* The script's poll: 410 ends it, everything else but 200 polls again.
PollGate(c) ==
    /\ pods[c] = "gate"
    /\ \/ GateConfirmed(c) /\ PodTo(c, "authorized")
       \/ GateGone(c) /\ PodTo(c, "exited")
    /\ UNCHANGED <<session, claim, deploy, volume, imports, hosting, pre,
                   kick, worker, faults>>

\* PoolActivationAuthorized, read after the rows.
GateAuthorized(c) == deploy.auth = c

OpenGate(c) ==
    /\ pods[c] = "authorized"
    /\ PodTo(c, IF GateAuthorized(c) THEN "probe" ELSE "gate")
    /\ UNCHANGED <<session, claim, deploy, volume, imports, hosting, pre,
                   kick, worker, faults>>

\* The receipt, then the VTA's own ACL, tell whether the import was done.
ProbeAcl(c) ==
    /\ pods[c] = "probe"
    /\ PodTo(c, IF c \in volume.receipts THEN "serve"
                ELSE IF c \in volume.acl THEN "receipt" ELSE "import")
    /\ UNCHANGED <<session, claim, deploy, volume, imports, hosting, pre,
                   kick, worker, faults>>

ImportDid(c) ==
    /\ pods[c] = "import"
    /\ volume' = [volume EXCEPT !.acl = @ \cup {c}]
    /\ imports' = [imports EXCEPT ![c] = @ + 1]
    /\ PodTo(c, "receipt")
    /\ UNCHANGED <<session, claim, deploy, hosting, pre, kick, worker,
                   faults>>

\* The receipt, and the control server, whose registration is an upsert.
WriteReceipt(c) ==
    /\ pods[c] = "receipt"
    /\ volume' = [volume EXCEPT !.receipts = @ \cup {c}]
    /\ PodTo(c, "serve")
    /\ UNCHANGED <<session, claim, deploy, imports, hosting, pre, kick,
                   worker, faults>>

\* The container ends between two commands and is started again.
PodCrash(c) ==
    /\ pods[c] \notin {"none", "exited"}
    /\ Fault
    /\ PodTo(c, "exited")
    /\ UNCHANGED <<session, claim, deploy, volume, imports, hosting, pre,
                   kick, worker>>

\* The API process ends.
Crash ==
    /\ Fault
    /\ pre' = [r \in Runs |-> IdleRun]
    /\ kick' = FALSE
    /\ worker' = "idle"
    /\ UNCHANGED <<session, claim, cluster, hosting>>

-----------------------------------------------------------------------------
ClaimStep(c) ==
    Reserve(c) \/ Claim(c) \/ Expire(c) \/ View(c) \/ Reject(c) \/ Confirm(c)

Worker == Take \/ HostingAcl \/ PatchDeployment \/ FinishActivation

Script(c) ==
    PollGate(c) \/ OpenGate(c) \/ ProbeAcl(c) \/ ImportDid(c)
    \/ WriteReceipt(c)

PodStep(c) == StartPod(c) \/ StopPod(c) \/ Script(c)

Next ==
    \/ \E c \in Claims : ClaimStep(c) \/ PodStep(c) \/ PodCrash(c)
    \/ RetryActivation \/ QueueTick \/ Worker \/ Crash
    \/ \E r \in Runs : StartRun(r) \/ LoadRun(r) \/ ApplyRun(r) \/ DropRun(r)

\* The tickers come round, goroutines go on, Kubernetes reconciles.  Runs
\* are cancelled by newer ones, but their calls take less than the ten
\* seconds between two ticks, so of infinitely many one takes effect.
Fairness ==
    /\ WF_vars(QueueTick)
    /\ WF_vars(\E r \in Runs : StartRun(r))
    /\ SF_vars(\E r \in Runs : LoadRun(r))
    /\ SF_vars(\E r \in Runs : ApplyRun(r))
    /\ WF_vars(Worker)
    /\ \A c \in Claims : WF_vars(PodStep(c))

Spec == Init /\ [][Next]_vars
FairSpec == Spec /\ Fairness

-----------------------------------------------------------------------------
Past == {"probe", "import", "receipt", "serve"}   \* past the gate

TypeOK ==
    /\ session \in [st : {"pool_waiting", "provisioning", "running", "failed"},
                    admin : Claims \cup {None}]
    /\ claim \in [Claims ->
           [st : {"none", "open", "claimed", "rejected", "lapsed"}
                 \cup Confirmed,
            late : BOOLEAN]]
    /\ deploy \in [tmpl : Claims \cup {None}, on : BOOLEAN,
                   auth : Claims \cup {None}, warm : Claims \cup {None}]
    /\ deploy.on <=> deploy.tmpl # None
    /\ pods \in [Claims -> {"none", "gate", "authorized", "exited"} \cup Past]
    /\ volume \in [acl : SUBSET Claims, receipts : SUBSET Claims]
    /\ imports \in [Claims -> 0..(MaxFaults + 1)]
    /\ hosting \in BOOLEAN /\ kick \in BOOLEAN
    /\ pre \in [Runs -> [pc : {"idle", "load", "warm", "cancel"},
                         c : Claims \cup {None}, cancelled : BOOLEAN]]
    /\ worker \in {"idle", "acl", "patch", "wait"}
    /\ faults \in 0..MaxFaults

\* The member keeps the promise of module Handover although its Pod starts
\* before anyone confirms: its ACL holds the confirmed key or nothing, and
\* its administrator is never replaced, whichever Pods, runs and claims
\* overlap.
Member == {"member"}
HandoverOf == INSTANCE Handover WITH
    Sessions <- Member, Keys <- Claims, NoKey <- None,
    holder <- [s \in Member |-> session.admin],
    approved <- [s \in Member |-> {c \in Claims : claim[c].st \in Confirmed}],
    installed <- [s \in Member |-> volume.acl]
ImplementsHandover == HandoverOf!HSpec

\* "The provision worker creates the DID-hosting ACL before writing the
\* authorization annotation ... Only then does the endpoint return 200": no
\* Pod writes the volume, or serves, before the VTA is known to its DID host
\* and the worker authorized exactly that claim.
GateAfterHosting ==
    \A c \in Claims : pods[c] \in Past => hosting /\ deploy.auth = c

\* import-did prompts when the entry exists: it runs at most once, although
\* the container can end between the import and its receipt.
ImportedOnce == \A c \in Claims : imports[c] <= 1

\* "An authorized activation always wins and is never scaled down", by no
\* prewarm, cancel or retry that was decided before.
AuthorizedStays ==
    [][deploy.auth # None => UNCHANGED deploy]_vars

\* A session that is advertised as running holds its administrator's key.
RunningHasAdmin ==
    session.st = "running" => session.admin \in volume.acl

\* A confirmed claim's session settles: running or failed, for its
\* administrator to see, across the end of the process in any step.
ActivationSettles ==
    (session.st = "provisioning") ~> (session.st \in {"running", "failed"})

\* A claimed member whose Deployment is parked is prewarmed, also after the
\* end of the process lost the kick, as long as its claim lasts.  (A
\* Deployment that a superseded claim holds stays.)
PrewarmIsRepaired ==
    \A c \in Claims :
        (claim[c].st = "claimed" /\ deploy.tmpl = None)
            ~> (deploy.tmpl # None \/ claim[c].st # "claimed" \/ claim[c].late)

\* A gate whose claim is over is removed as long as no newer claim was
\* made.
GateIsRemoved ==
    \A c \in Claims :
        (deploy.tmpl = c /\ Over(c) /\ IsCurrent(c))
            ~> (deploy.tmpl # c \/ ~IsCurrent(c))

\* What a Pod may have done to the volume, and what "running" claims about it
\* (k8s/vta_resources.go: vtaActivationCommand; pool_activation.go).
VolumeIsGuarded == GateAfterHosting /\ ImportedOnce /\ RunningHasAdmin

\* Everything that was begun on a member comes to its end: the activation,
\* the prewarm whose kick was lost, the gate whose claim is over
\* (pool_prewarm.go: reconcilePoolPrewarmQueue; initial_provision.go).
ActivationEnds == ActivationSettles /\ PrewarmIsRepaired /\ GateIsRemoved
=============================================================================
