------------------------- MODULE ActivationProofs -------------------------
(***************************************************************************)
(* The safety of a pooled VTA's activation for any number of claims,       *)
(* prewarm runs and faults.                                                *)
(***************************************************************************)
EXTENDS Activation, TLAPS

----------------------------------------------------------------------------
(* The inductive invariant *)

ClaimStates == {"none", "open", "claimed", "rejected", "lapsed"} \cup Confirmed

ClaimRows == [st : ClaimStates, late : BOOLEAN]

DeployRows == [tmpl : Claims \cup {None}, on : BOOLEAN,
               auth : Claims \cup {None}, warm : Claims \cup {None}]

\* A run that decided what to write knows for which claim.
PreRows == {p \in [pc : {"idle", "load", "warm", "cancel"},
                   c : Claims \cup {None}, cancelled : BOOLEAN] :
               p.pc \in {"warm", "cancel"} => p.c \in Claims}

\* A claim is made only when every earlier one is over for good.
Ordered ==
    \A c, d \in Claims :
        d < c /\ claim[c].st # "none" => claim[d].st \in {"rejected", "lapsed"}

\* The administrator is the claim that was confirmed, and the session waits
\* in the pool as long as there is none.
Administered ==
    /\ session.st = "pool_waiting" <=> session.admin = None
    /\ \A c \in Claims : claim[c].st \in Confirmed <=> c = session.admin
    /\ worker # "idle" => session.admin # None

\* The worker patches after it made the hosting ACL.
Hosted == worker \in {"patch", "wait"} => hosting

\* An authorized Deployment is the administrator's, runs and is not marked
\* as a prewarm.
Authorized ==
    deploy.auth # None =>
        /\ hosting
        /\ deploy.auth = session.admin
        /\ deploy.tmpl = deploy.auth
        /\ deploy.on
        /\ deploy.warm = None

\* What the script of claim c has done and what it is about to do.
Scripted(c) ==
    /\ imports[c] = (IF c \in volume.acl THEN 1 ELSE 0)
    /\ pods[c] = "import" => c \notin volume.acl
    /\ pods[c] = "receipt" => c \in volume.acl
    /\ pods[c] = "serve" => c \in volume.acl
    /\ c \in volume.receipts => c \in volume.acl
    /\ c \in volume.acl => c = session.admin

IndInv ==
    /\ TypeOK
    /\ pre \in [Runs -> PreRows]
    /\ Ordered
    /\ Administered
    /\ Hosted
    /\ Authorized
    /\ \A c \in Claims : Scripted(c)
    /\ GateAfterHosting
    /\ RunningHasAdmin

USE ActivationAssumption DEF Claims

LEMMA InitIndInv == Init => IndInv
<1>. SUFFICES ASSUME Init PROVE IndInv
  OBVIOUS
<1>1. TypeOK
  <2>1. /\ imports \in [Claims -> 0..(MaxFaults + 1)] /\ faults \in 0..MaxFaults
        /\ pre \in [Runs -> PreRows] /\ claim \in [Claims -> ClaimRows]
    BY DEF Init, IdleRun, PreRows, ClaimRows, ClaimStates
  <2>2. /\ deploy \in [tmpl : Claims \cup {None}, on : BOOLEAN,
                       auth : Claims \cup {None}, warm : Claims \cup {None}]
        /\ deploy.on <=> deploy.tmpl # None
        /\ volume \in [acl : SUBSET Claims, receipts : SUBSET Claims]
    BY DEF Init, Parked
  <2>. QED BY <2>1, <2>2 DEF Init, TypeOK, ClaimRows, ClaimStates, PreRows
<1>2. Ordered /\ Administered /\ Hosted /\ Authorized
  BY DEF Init, Ordered, Administered, Hosted, Authorized, Parked, Confirmed
<1>3. (\A c \in Claims : Scripted(c)) /\ GateAfterHosting /\ RunningHasAdmin
  BY DEF Init, Scripted, GateAfterHosting, RunningHasAdmin, Past
<1>4. pre \in [Runs -> PreRows]
  BY DEF Init, IdleRun, PreRows
<1>. QED BY <1>1, <1>2, <1>3, <1>4 DEF IndInv

----------------------------------------------------------------------------
(* Claims and prewarm runs *)

\* Unconfirmed claims end, runs and ticks come and go, the worker dies: the
\* Deployment, the Pods and the administrator do not notice.
LEMMA Unnoticed ==
    ASSUME IndInv,
           UNCHANGED <<session, cluster, hosting>>,
           claim' \in [Claims -> ClaimRows],
           \A c \in Claims :
              \/ claim'[c].st = claim[c].st
              \/ /\ claim[c].st \in {"open", "claimed"}
                 /\ claim'[c].st \in {"claimed", "rejected", "lapsed"},
           pre' \in [Runs -> PreRows],
           kick' \in BOOLEAN,
           worker' \in {worker, "idle"},
           faults' \in 0..MaxFaults
    PROVE  IndInv'
<1>1. TypeOK'
  BY DEF IndInv, TypeOK, cluster, ClaimRows, ClaimStates, PreRows
<1>2. Ordered'
  BY DEF IndInv, Ordered
<1>3. Administered'
  BY DEF IndInv, Administered, Confirmed
<1>4. Hosted' /\ Authorized'
  BY DEF IndInv, Hosted, Authorized, cluster
<1>5. (\A c \in Claims : Scripted(c)') /\ GateAfterHosting' /\ RunningHasAdmin'
  BY DEF IndInv, Scripted, GateAfterHosting, RunningHasAdmin, cluster
<1>. QED BY <1>1, <1>2, <1>3, <1>4, <1>5 DEF IndInv

\* A row keeps its shape whichever field is written.
LEMMA RowMoves ==
    ASSUME NEW row \in ClaimRows, NEW st \in ClaimStates
    PROVE  /\ [row EXCEPT !.st = st] \in ClaimRows
           /\ [row EXCEPT !.st = st].st = st
           /\ [row EXCEPT !.late = TRUE] \in ClaimRows
           /\ [row EXCEPT !.late = TRUE].st = row.st
  BY DEF ClaimRows

LEMMA ClaimMoves ==
    ASSUME claim \in [Claims -> ClaimRows], NEW c \in Claims,
           NEW st \in ClaimStates,
           \/ claim' = [claim EXCEPT ![c].st = st]
           \/ claim' = [claim EXCEPT ![c].late = TRUE] /\ st = claim[c].st
    PROVE  /\ claim' \in [Claims -> ClaimRows]
           /\ claim'[c].st = st
           /\ \A d \in Claims \ {c} : claim'[d] = claim[d]
<1>1. PICK row \in ClaimRows : claim' = [claim EXCEPT ![c] = row] /\ row.st = st
  <2>1. CASE claim' = [claim EXCEPT ![c].st = st]
    BY <2>1, RowMoves
  <2>2. CASE claim' = [claim EXCEPT ![c].late = TRUE] /\ st = claim[c].st
    BY <2>2, RowMoves
  <2>. QED BY <2>1, <2>2
<1>. QED BY <1>1

LEMMA ClaimEndsKeep ==
    ASSUME IndInv, NEW c \in Claims,
           Claim(c) \/ Expire(c) \/ View(c) \/ Reject(c)
    PROVE  IndInv'
<1>1. /\ claim \in [Claims -> ClaimRows] /\ pre \in [Runs -> PreRows]
      /\ kick \in BOOLEAN /\ faults \in 0..MaxFaults
  BY DEF IndInv, TypeOK, ClaimRows, ClaimStates, PreRows
<1>2. /\ UNCHANGED <<session, cluster, hosting, pre, worker, faults>>
      /\ kick' \in {kick, TRUE}
  BY DEF Claim, Expire, View, Reject
<1>3. /\ claim' \in [Claims -> ClaimRows]
      /\ \A d \in Claims :
           \/ claim'[d].st = claim[d].st
           \/ /\ claim[d].st \in {"open", "claimed"}
              /\ claim'[d].st \in {"claimed", "rejected", "lapsed"}
  <2>1. PICK st \in ClaimStates :
          /\ \/ claim' = [claim EXCEPT ![c].st = st]
             \/ claim' = [claim EXCEPT ![c].late = TRUE] /\ st = claim[c].st
          /\ \/ st = claim[c].st
             \/ /\ claim[c].st \in {"open", "claimed"}
                /\ st \in {"claimed", "rejected", "lapsed"}
    BY DEF Claim, Expire, View, Reject, To, ClaimStates
  <2>. QED BY <1>1, <2>1, ClaimMoves
<1>. QED BY <1>1, <1>2, <1>3, Unnoticed

\* The new claim is open, and what came before it is over for good.
LEMMA ReserveKeeps ==
    ASSUME IndInv, NEW c \in Claims, Reserve(c)
    PROVE  IndInv'
<1>1. claim \in [Claims -> ClaimRows]
  BY DEF IndInv, TypeOK, ClaimRows, ClaimStates
<1>2. /\ claim' \in [Claims -> ClaimRows]
      /\ claim'[c].st = "open" /\ claim[c].st = "none"
      /\ \A d \in Claims \ {c} :
           \/ claim'[d].st = claim[d].st
           \/ claim[d].st = "open" /\ claim'[d].st = "lapsed"
      /\ \A d \in Claims : d < c => claim'[d].st \in {"rejected", "lapsed"}
  <2>1. \A d \in Claims :
          claim'[d] = IF d = c THEN [st |-> "open", late |-> FALSE]
                      ELSE IF claim[d].st = "open"
                           THEN [claim[d] EXCEPT !.st = "lapsed"] ELSE claim[d]
    BY DEF Reserve
  <2>2. DOMAIN claim' = Claims /\ claim' = [d \in Claims |-> claim'[d]]
    BY DEF Reserve
  <2>3. \A d \in Claims : claim'[d] \in ClaimRows
    <3>1. [st |-> "open", late |-> FALSE] \in ClaimRows /\ "lapsed" \in ClaimStates
      BY DEF ClaimRows, ClaimStates
    <3>2. \A d \in Claims : /\ claim[d] \in ClaimRows
                            /\ [claim[d] EXCEPT !.st = "lapsed"] \in ClaimRows
      BY <1>1, <3>1, RowMoves
    <3>. QED BY <2>1, <3>1, <3>2
  <2>4. \A d \in Claims : d < c => claim'[d].st \in {"rejected", "lapsed"}
    BY <1>1, <2>1 DEF Reserve, Over, ClaimRows, ClaimStates
  <2>. QED BY <1>1, <2>1, <2>2, <2>3, <2>4 DEF Reserve, ClaimRows, ClaimStates
<1>3. UNCHANGED <<session, cluster, hosting, pre, kick, worker, faults>>
  BY DEF Reserve
<1>4. TypeOK'
  BY <1>2, <1>3 DEF IndInv, TypeOK, cluster, ClaimRows, ClaimStates
<1>5. Ordered'
  BY <1>2 DEF IndInv, Ordered
<1>6. Administered'
  BY <1>2, <1>3 DEF IndInv, Administered, Confirmed
<1>7. Hosted' /\ Authorized'
  BY <1>3 DEF IndInv, Hosted, Authorized, cluster
<1>8. (\A d \in Claims : Scripted(d)') /\ GateAfterHosting' /\ RunningHasAdmin'
  BY <1>3 DEF IndInv, Scripted, GateAfterHosting, RunningHasAdmin, cluster
<1>. QED BY <1>3, <1>4, <1>5, <1>6, <1>7, <1>8 DEF IndInv

\* A claim that can be confirmed is the newest, and nobody was confirmed yet.
LEMMA ConfirmFirst ==
    ASSUME IndInv, NEW c \in Claims, Confirm(c)
    PROVE  /\ session.admin = None
           /\ \A d \in Claims : claim[d].st \notin Confirmed
<1>1. claim[c].st = "claimed"
  BY DEF Confirm
<1>2. ASSUME NEW d \in Claims, claim[d].st \in Confirmed PROVE FALSE
  <2>1. d # c
    BY <1>1, <1>2 DEF Confirmed
  <2>2. d < c \/ c < d
    BY <2>1
  <2>. QED BY <1>1, <1>2, <2>2 DEF IndInv, Ordered, Confirmed
<1>3. session.admin \in Claims \cup {None}
  BY DEF IndInv, TypeOK
<1>. QED BY <1>2, <1>3 DEF IndInv, Administered

LEMMA ConfirmKeeps ==
    ASSUME IndInv, NEW c \in Claims, Confirm(c)
    PROVE  IndInv'
<1>1. claim \in [Claims -> ClaimRows]
  BY DEF IndInv, TypeOK, ClaimRows, ClaimStates
<1>2. /\ claim' \in [Claims -> ClaimRows]
      /\ claim'[c].st = "provisioning" /\ claim[c].st = "claimed"
      /\ \A d \in Claims \ {c} : claim'[d] = claim[d]
      /\ session' = [st |-> "provisioning", admin |-> c]
  BY <1>1 DEF Confirm, To, ClaimRows, ClaimStates, Confirmed
<1>3. UNCHANGED <<cluster, hosting, pre, kick, worker, faults>>
  BY DEF Confirm
<1>4. session.admin = None /\ \A d \in Claims : claim[d].st \notin Confirmed
  BY ConfirmFirst
<1>5. TypeOK'
  BY <1>2, <1>3 DEF IndInv, TypeOK, cluster, ClaimRows, ClaimStates
<1>6. Ordered'
  BY <1>2 DEF IndInv, Ordered
<1>7. Administered'
  BY <1>2, <1>3, <1>4 DEF Administered, Confirmed
<1>8. Hosted'
  BY <1>3 DEF IndInv, Hosted
<1>9. deploy.auth = None
  BY <1>4 DEF IndInv, Authorized
<1>10. Authorized'
  BY <1>3, <1>9 DEF Authorized, cluster
<1>11. (\A d \in Claims : Scripted(d)') /\ GateAfterHosting'
  BY <1>3, <1>4, <1>9 DEF IndInv, Scripted, GateAfterHosting, cluster
<1>12. RunningHasAdmin'
  BY <1>2 DEF RunningHasAdmin
<1>. QED BY <1>3, <1>5, <1>6, <1>7, <1>8, <1>10, <1>11, <1>12 DEF IndInv

LEMMA RunsKeep ==
    ASSUME IndInv,
           \/ QueueTick \/ Crash
           \/ \E r \in Runs : StartRun(r) \/ LoadRun(r) \/ DropRun(r)
    PROVE  IndInv'
<1>1. /\ claim \in [Claims -> ClaimRows] /\ pre \in [Runs -> PreRows]
      /\ kick \in BOOLEAN /\ faults \in 0..MaxFaults
      /\ IdleRun \in PreRows
  BY DEF IndInv, TypeOK, ClaimRows, ClaimStates, PreRows, IdleRun
<1>2. CASE QueueTick
  BY <1>1, <1>2, Unnoticed DEF QueueTick
<1>3. CASE Crash
  <2>1. pre' \in [Runs -> PreRows] /\ faults' \in 0..MaxFaults
    BY <1>1, <1>3 DEF Crash, Fault
  <2>. QED BY <1>1, <1>3, <2>1, Unnoticed DEF Crash
<1>4. ASSUME NEW r \in Runs, StartRun(r) PROVE IndInv'
  <2>1. [IdleRun EXCEPT !.pc = "load"] \in PreRows
    BY DEF IdleRun, PreRows
  <2>2. pre' \in [Runs -> PreRows]
    BY <1>1, <1>4, <2>1 DEF StartRun, PreRows
  <2>. QED BY <1>1, <1>4, <2>2, Unnoticed DEF StartRun
<1>5. ASSUME NEW r \in Runs, LoadRun(r) PROVE IndInv'
  <2>1. /\ UNCHANGED <<session, cluster, hosting, kick, worker, faults>>
        /\ \/ claim' = claim
           \/ \E c \in Claims : /\ claim[c].st = "claimed"
                                /\ claim' = [claim EXCEPT ![c].st = "lapsed"]
    BY <1>5 DEF LoadRun
  <2>2. /\ claim' \in [Claims -> ClaimRows]
        /\ \A d \in Claims :
             \/ claim'[d].st = claim[d].st
             \/ /\ claim[d].st \in {"open", "claimed"}
                /\ claim'[d].st \in {"claimed", "rejected", "lapsed"}
    BY <1>1, <2>1 DEF ClaimRows, ClaimStates
  <2>3. pre' \in [Runs -> PreRows]
    <3>1. ASSUME NEW c \in Claims, NEW pc \in {"warm", "cancel"}
          PROVE  [pre[r] EXCEPT !.c = c, !.pc = pc] \in PreRows
      BY <1>1 DEF PreRows
    <3>2. PICK row \in PreRows : pre' = [pre EXCEPT ![r] = row]
      BY <1>1, <1>5, <3>1 DEF LoadRun, EndRun
    <3>. QED BY <1>1, <3>2
  <2>. QED BY <1>1, <2>1, <2>2, <2>3, Unnoticed
<1>6. ASSUME NEW r \in Runs, DropRun(r) PROVE IndInv'
  <2>1. pre' \in [Runs -> PreRows] /\ faults' \in 0..MaxFaults
    BY <1>1, <1>6 DEF DropRun, EndRun, Fault
  <2>. QED BY <1>1, <1>6, <2>1, Unnoticed DEF DropRun
<1>. QED BY <1>2, <1>3, <1>4, <1>5, <1>6

----------------------------------------------------------------------------
(* The Deployment, its Pods and the activation worker *)

\* An authorized Deployment stays as it is, whoever writes to it.
LEMMA AuthorizedKeeps ==
    ASSUME IndInv, Next
    PROVE  deploy.auth # None => UNCHANGED deploy
<1>. SUFFICES ASSUME deploy.auth # None PROVE UNCHANGED deploy
  OBVIOUS
<1>1. /\ deploy.auth = session.admin /\ deploy.tmpl = deploy.auth
      /\ deploy.on = TRUE /\ deploy.warm = None
      /\ deploy \in [tmpl : Claims \cup {None}, on : BOOLEAN,
                     auth : Claims \cup {None}, warm : Claims \cup {None}]
  BY DEF IndInv, Authorized, TypeOK
<1>2. ASSUME NEW r \in Runs, ApplyRun(r) PROVE UNCHANGED deploy
  BY <1>2 DEF ApplyRun, Prewarm, CancelPrewarm
<1>3. ASSUME PatchDeployment PROVE UNCHANGED deploy
  <2>1. ASSUME NEW c \in Claims, Loaded(c), Activate(c) PROVE UNCHANGED deploy
    BY <1>1, <2>1 DEF Loaded, Activate
  <2>. QED BY <1>3, <2>1 DEF PatchDeployment
<1>4. ASSUME NEW c \in Claims, ClaimStep(c) \/ PodStep(c) \/ PodCrash(c)
      PROVE  UNCHANGED deploy
  BY <1>4 DEF ClaimStep, Reserve, Claim, Expire, View, Reject, Confirm, PodStep,
              StartPod, StopPod, Script, PollGate, OpenGate, ProbeAcl, ImportDid,
              WriteReceipt, PodCrash, cluster
<1>5. ASSUME NEW r \in Runs, StartRun(r) \/ LoadRun(r) \/ DropRun(r)
      PROVE  UNCHANGED deploy
  BY <1>5 DEF StartRun, LoadRun, DropRun, cluster
<1>6. ASSUME \/ RetryActivation \/ QueueTick \/ Crash \/ Take \/ HostingAcl
             \/ FinishActivation
      PROVE  UNCHANGED deploy
  BY <1>6 DEF RetryActivation, QueueTick, Crash, Take, HostingAcl,
              FinishActivation, cluster
<1>. QED BY <1>2, <1>3, <1>4, <1>5, <1>6 DEF Next, Worker

\* A write of the Deployment leaves what the Pods rely on.
LEMMA DeployWritten ==
    ASSUME IndInv,
           UNCHANGED <<session, claim, pods, volume, imports, hosting, kick>>,
           pre' \in [Runs -> PreRows],
           deploy' \in DeployRows, deploy'.on <=> deploy'.tmpl # None,
           deploy.auth # None => UNCHANGED deploy,
           Authorized',
           worker' \in {"idle", "acl", "patch", "wait"},
           worker' \in {"patch", "wait"} => hosting,
           worker' # "idle" => session.admin # None,
           faults' \in 0..MaxFaults
    PROVE  IndInv'
<1>1. TypeOK'
  BY DEF IndInv, TypeOK, PreRows, DeployRows
<1>2. Ordered' /\ Administered' /\ Hosted' /\ RunningHasAdmin'
  BY DEF IndInv, Ordered, Administered, Hosted, RunningHasAdmin
<1>3. (\A c \in Claims : Scripted(c)')
  BY DEF IndInv, Scripted
<1>4. GateAfterHosting'
  BY DEF IndInv, GateAfterHosting
<1>. QED BY <1>1, <1>2, <1>3, <1>4 DEF IndInv

LEMMA PrewarmRow ==
    ASSUME NEW d \in DeployRows, NEW c \in Claims
    PROVE  /\ [d EXCEPT !.tmpl = c, !.on = TRUE, !.warm = c] \in DeployRows
           /\ [d EXCEPT !.tmpl = c, !.on = TRUE, !.warm = c].on = TRUE
           /\ [d EXCEPT !.tmpl = c, !.on = TRUE, !.warm = c].tmpl = c
           /\ [d EXCEPT !.tmpl = c, !.on = TRUE, !.warm = c].auth = d.auth
<1>. DEFINE e == [d EXCEPT !.tmpl = c]
            f == [e EXCEPT !.on = TRUE]
            g == [f EXCEPT !.warm = c]
<1>1. e \in DeployRows /\ e.tmpl = c /\ e.auth = d.auth
  BY DEF DeployRows
<1>2. f \in DeployRows /\ f.tmpl = c /\ f.auth = d.auth /\ f.on = TRUE
  <2>. HIDE DEF e
  <2>. QED BY <1>1 DEF DeployRows
<1>3. g \in DeployRows /\ g.tmpl = c /\ g.auth = d.auth /\ g.on = TRUE
  <2>. HIDE DEF f
  <2>. QED BY <1>2 DEF DeployRows
<1>. QED BY <1>3

LEMMA ApplyKeeps ==
    ASSUME IndInv, NEW r \in Runs, ApplyRun(r)
    PROVE  IndInv'
<1>1. /\ deploy \in DeployRows /\ (deploy.on <=> deploy.tmpl # None)
      /\ pre \in [Runs -> PreRows] /\ IdleRun \in PreRows
      /\ worker \in {"idle", "acl", "patch", "wait"}
      /\ faults \in 0..MaxFaults
  BY DEF IndInv, TypeOK, DeployRows, PreRows, IdleRun
<1>2. pre[r].pc \in {"warm", "cancel"} /\ pre[r].c \in Claims
  BY <1>1 DEF ApplyRun, PreRows
<1>3. /\ deploy' \in DeployRows /\ (deploy'.on <=> deploy'.tmpl # None)
      /\ deploy.auth # None => UNCHANGED deploy
      /\ deploy.auth = None => deploy'.auth = None
  <2>1. CASE Prewarm(pre[r].c)
    <3>. DEFINE c == pre[r].c
    <3>1. /\ [deploy EXCEPT !.tmpl = c, !.on = TRUE, !.warm = c] \in DeployRows
          /\ [deploy EXCEPT !.tmpl = c, !.on = TRUE, !.warm = c].on = TRUE
          /\ [deploy EXCEPT !.tmpl = c, !.on = TRUE, !.warm = c].tmpl = c
          /\ [deploy EXCEPT !.tmpl = c, !.on = TRUE, !.warm = c].auth = deploy.auth
      BY <1>1, <1>2, PrewarmRow, Zenon
    <3>2. \/ UNCHANGED deploy
          \/ /\ deploy.auth = None
             /\ deploy' = [deploy EXCEPT !.tmpl = c, !.on = TRUE, !.warm = c]
      BY <2>1 DEF Prewarm
    <3>3. c # None
      BY <1>2
    <3>. HIDE DEF c
    <3>. QED BY <1>1, <3>1, <3>2, <3>3
  <2>2. CASE CancelPrewarm(pre[r].c)
    <3>1. Parked \in DeployRows /\ ~Parked.on /\ Parked.tmpl = None
          /\ Parked.auth = None
      BY DEF Parked, DeployRows
    <3>2. UNCHANGED deploy \/ (deploy.auth = None /\ deploy' = Parked)
      BY <2>2 DEF CancelPrewarm
    <3>. QED BY <1>1, <3>1, <3>2
  <2>. QED BY <2>1, <2>2 DEF ApplyRun
<1>4. UNCHANGED <<session, claim, pods, volume, imports, hosting, kick, worker,
                  faults>>
  BY DEF ApplyRun
<1>5. pre' \in [Runs -> PreRows]
  BY <1>1 DEF ApplyRun, EndRun
<1>6. Authorized'
  BY <1>3, <1>4 DEF IndInv, Authorized
<1>7. worker \in {"patch", "wait"} => hosting
  BY DEF IndInv, Hosted
<1>8. worker # "idle" => session.admin # None
  BY DEF IndInv, Administered
<1>. QED BY <1>1, <1>3, <1>4, <1>5, <1>6, <1>7, <1>8, DeployWritten

LEMMA WorkerKeeps ==
    ASSUME IndInv, Worker \/ RetryActivation
    PROVE  IndInv'
<1>1. /\ deploy \in DeployRows /\ (deploy.on <=> deploy.tmpl # None)
      /\ worker \in {"idle", "acl", "patch", "wait"}
      /\ faults \in 0..MaxFaults
      /\ session \in [st : {"pool_waiting", "provisioning", "running", "failed"},
                      admin : Claims \cup {None}]
      /\ claim \in [Claims -> ClaimRows] /\ pre \in [Runs -> PreRows]
      /\ session.st = "pool_waiting" <=> session.admin = None
      /\ worker # "idle" => session.admin # None
      /\ worker \in {"patch", "wait"} => hosting
      /\ hosting \in BOOLEAN
  BY DEF IndInv, TypeOK, DeployRows, ClaimRows, ClaimStates, Administered, Hosted
\* A new status of a session that has its administrator.
<1>2. ASSUME session.admin # None,
             NEW st \in {"provisioning", "running", "failed"},
             session' = [session EXCEPT !.st = st],
             UNCHANGED <<cluster, pre, kick>>,
             hosting' \in BOOLEAN, hosting => hosting',
             claim' \in [Claims -> ClaimRows],
             \A c \in Claims :
                \/ claim'[c].st = claim[c].st
                \/ claim[c].st \in Confirmed /\ claim'[c].st \in Confirmed,
             worker' \in {worker, "idle"},
             faults' \in 0..MaxFaults,
             st = "running" => session.admin \in volume.acl
      PROVE  IndInv'
  <2>1. session'.st = st /\ session'.admin = session.admin
    BY <1>1, <1>2
  <2>2. TypeOK'
    BY <1>1, <1>2 DEF IndInv, TypeOK, ClaimRows, ClaimStates, cluster
  <2>3. Ordered'
    BY <1>2 DEF IndInv, Ordered, Confirmed
  <2>4. Administered'
    BY <1>1, <1>2, <2>1 DEF IndInv, Administered
  <2>5. Hosted'
    BY <1>1, <1>2 DEF Hosted
  <2>8. Authorized'
    BY <1>2, <2>1 DEF IndInv, Authorized, cluster
  <2>6. (\A c \in Claims : Scripted(c)')
    BY <1>2, <2>1 DEF IndInv, Scripted, cluster
  <2>7. GateAfterHosting'
    BY <1>2 DEF IndInv, GateAfterHosting, cluster
  <2>9. RunningHasAdmin'
    BY <1>2, <2>1 DEF RunningHasAdmin, cluster
  <2>. QED BY <1>1, <1>2, <2>2, <2>3, <2>4, <2>5, <2>6, <2>7, <2>8,
               <2>9 DEF IndInv
<1>3. CASE RetryActivation
  <2>1. session.admin # None
    BY <1>1, <1>3 DEF RetryActivation
  <2>. QED BY <1>1, <1>2, <1>3, <2>1 DEF RetryActivation
\* A step of the worker that leaves the session alone.
<1>4. ASSUME UNCHANGED <<session, claim, pods, volume, imports, pre, kick>>,
             session.admin # None,
             hosting' \in BOOLEAN, hosting => hosting',
             deploy' \in DeployRows, deploy'.on <=> deploy'.tmpl # None,
             deploy.auth # None => UNCHANGED deploy,
             Authorized',
             worker' \in {"acl", "patch", "wait"},
             worker' \in {"patch", "wait"} => hosting',
             UNCHANGED faults
      PROVE  IndInv'
  <2>1. TypeOK'
    BY <1>1, <1>4 DEF IndInv, TypeOK, DeployRows
  <2>2. Ordered' /\ Administered'
    BY <1>4 DEF IndInv, Ordered, Administered
  <2>3. Hosted' /\ RunningHasAdmin'
    BY <1>4 DEF IndInv, Hosted, RunningHasAdmin
  <2>4. (\A c \in Claims : Scripted(c)')
    BY <1>4 DEF IndInv, Scripted
  <2>5. GateAfterHosting'
    BY <1>4 DEF IndInv, GateAfterHosting
  <2>. QED BY <1>1, <1>4, <2>1, <2>2, <2>3, <2>4, <2>5 DEF IndInv
<1>5. CASE Take
  <2>1. Authorized'
    BY <1>5 DEF Take, IndInv, Authorized, cluster
  <2>. QED BY <1>1, <1>4, <1>5, <2>1 DEF Take, cluster
<1>6. ASSUME worker # "idle", FailActivation, worker' = "idle",
             UNCHANGED <<claim, cluster, hosting, pre, kick>>,
             faults' \in 0..MaxFaults
      PROVE  IndInv'
  BY <1>1, <1>2, <1>6 DEF FailActivation
<1>7. CASE HostingAcl
  <2>1. ASSUME hosting' = TRUE, worker' = "patch", UNCHANGED <<session, faults>>
        PROVE  IndInv'
    <3>1. worker # "idle" /\ UNCHANGED <<claim, cluster, pre, kick>>
      BY <1>7 DEF HostingAcl
    <3>2. Authorized'
      BY <2>1, <3>1 DEF IndInv, Authorized, cluster
    <3>. QED BY <1>1, <1>4, <2>1, <3>1, <3>2 DEF cluster
  <2>2. ASSUME Fault, FailActivation, worker' = "idle", UNCHANGED hosting
        PROVE  IndInv'
    <3>1. worker # "idle" /\ UNCHANGED <<claim, cluster, pre, kick>>
      BY <1>7 DEF HostingAcl
    <3>2. faults' \in 0..MaxFaults
      BY <1>1, <2>2 DEF Fault
    <3>. QED BY <1>6, <2>2, <3>1, <3>2
  <2>. QED BY <1>7, <2>1, <2>2 DEF HostingAcl
<1>8. CASE PatchDeployment
  <2>1. /\ worker = "patch"
        /\ UNCHANGED <<claim, pods, volume, imports, hosting, pre, kick>>
    BY <1>8 DEF PatchDeployment
  <2>2. ASSUME NEW c \in Claims, Loaded(c), Activate(c), worker' = "wait",
               UNCHANGED <<session, faults>>
        PROVE  IndInv'
    <3>1. /\ deploy' = [tmpl |-> c, on |-> TRUE, auth |-> c, warm |-> None]
          /\ c = session.admin /\ hosting
      BY <1>1, <2>1, <2>2 DEF Activate, Loaded
    <3>2. deploy' \in DeployRows /\ (deploy'.on <=> deploy'.tmpl # None)
      BY <3>1 DEF DeployRows
    <3>3. Authorized'
      BY <2>1, <2>2, <3>1 DEF Authorized
    <3>4. deploy.auth # None => UNCHANGED deploy
      BY <1>1, <3>1 DEF IndInv, Authorized, DeployRows
    <3>. QED BY <1>1, <1>4, <2>1, <2>2, <3>1, <3>2, <3>3, <3>4
  <2>3. ASSUME FailActivation, worker' = "idle", UNCHANGED deploy,
               faults' \in 0..MaxFaults
        PROVE  IndInv'
    BY <1>6, <2>1, <2>3 DEF cluster
  <2>4. Fault => faults' \in 0..MaxFaults
    BY <1>1 DEF Fault
  <2>5. \/ \E c \in Claims : /\ Loaded(c) /\ Activate(c) /\ worker' = "wait"
                            /\ UNCHANGED <<session, faults>>
        \/ /\ FailActivation /\ worker' = "idle" /\ UNCHANGED deploy
           /\ faults' = faults \/ Fault
    BY <1>8 DEF PatchDeployment
  <2>. QED BY <1>1, <2>2, <2>3, <2>4, <2>5
<1>9. CASE FinishActivation
  <2>1. /\ worker = "wait" /\ worker' = "idle"
        /\ UNCHANGED <<cluster, hosting, pre, kick, faults>>
    BY <1>9 DEF FinishActivation
  <2>2. CASE ~Ready /\ FailActivation /\ UNCHANGED claim
    BY <1>1, <1>6, <2>1, <2>2
  <2>3. CASE /\ Ready
             /\ session' = [session EXCEPT !.st = "running"]
             /\ claim' = [c \in Claims |->
                    IF IsCurrent(c) /\ claim[c].st = "provisioning"
                    THEN [claim[c] EXCEPT !.st = "released"] ELSE claim[c]]
    <3>1. /\ claim' \in [Claims -> ClaimRows]
          /\ \A c \in Claims :
               \/ claim'[c].st = claim[c].st
               \/ claim[c].st \in Confirmed /\ claim'[c].st \in Confirmed
      <4>1. "released" \in ClaimStates
        BY DEF ClaimStates, Confirmed
      <4>2. \A c \in Claims :
              \/ claim'[c] = claim[c]
              \/ /\ claim[c].st = "provisioning"
                 /\ claim'[c] = [claim[c] EXCEPT !.st = "released"]
        BY <2>3
      <4>3. \A c \in Claims : /\ claim[c] \in ClaimRows
                              /\ [claim[c] EXCEPT !.st = "released"] \in ClaimRows
                              /\ [claim[c] EXCEPT !.st = "released"].st = "released"
        BY <1>1, <4>1, RowMoves
      <4>4. claim' = [c \in Claims |-> claim'[c]]
        BY <2>3
      <4>. QED BY <4>2, <4>3, <4>4 DEF Confirmed
    <3>2. session.admin \in volume.acl
      <4>1. deploy.tmpl \in Claims /\ pods[deploy.tmpl] = "serve"
        BY <1>1, <2>3 DEF Ready, DeployRows
      <4>2. deploy.tmpl \in volume.acl
        BY <4>1 DEF IndInv, Scripted
      <4>. QED BY <4>1, <4>2 DEF IndInv, Scripted
    <3>. QED BY <1>1, <1>2, <2>1, <2>3, <3>1, <3>2
  <2>. QED BY <1>9, <2>2, <2>3 DEF FinishActivation
<1>. QED BY <1>3, <1>5, <1>7, <1>8, <1>9 DEF Worker

PodStates == {"none", "gate", "authorized", "exited"} \cup Past

\* A step of one Pod, given what it does to its script's invariant.
LEMMA PodMoves ==
    ASSUME IndInv, NEW c \in Claims, NEW pc \in PodStates,
           PodTo(c, pc),
           UNCHANGED <<session, claim, deploy, hosting, pre, kick, worker>>,
           volume' \in [acl : SUBSET Claims, receipts : SUBSET Claims],
           imports' \in [Claims -> Nat],
           volume.acl \subseteq volume'.acl,
           \A d \in Claims \ {c} :
              /\ imports'[d] = imports[d]
              /\ d \in volume.acl <=> d \in volume'.acl
              /\ d \in volume.receipts <=> d \in volume'.receipts,
           Scripted(c)',
           pc \in Past => hosting /\ deploy.auth = c,
           faults' \in 0..MaxFaults
    PROVE  IndInv'
<1>1. /\ pods \in [Claims -> PodStates]
      /\ pods' = [pods EXCEPT ![c] = pc]
  BY DEF IndInv, TypeOK, PodTo, PodStates
<1>2. \A d \in Claims : Scripted(d)'
  <2>1. ASSUME NEW d \in Claims \ {c} PROVE Scripted(d)'
    BY <1>1, <2>1 DEF IndInv, Scripted
  <2>. QED BY <2>1
<1>3. \A d \in Claims : imports'[d] \in 0..(MaxFaults + 1)
  BY <1>2 DEF Scripted
<1>4. TypeOK'
  BY <1>1, <1>3 DEF IndInv, TypeOK, PodStates
<1>5. Ordered' /\ Administered' /\ Hosted' /\ Authorized'
  BY DEF IndInv, Ordered, Administered, Hosted, Authorized
<1>6. GateAfterHosting'
  BY <1>1 DEF IndInv, GateAfterHosting
<1>7. RunningHasAdmin'
  BY DEF IndInv, RunningHasAdmin
<1>. QED BY <1>2, <1>4, <1>5, <1>6, <1>7 DEF IndInv

LEMMA PodsKeep ==
    ASSUME IndInv, NEW c \in Claims, PodStep(c) \/ PodCrash(c)
    PROVE  IndInv'
<1>1. /\ pods \in [Claims -> PodStates] /\ imports \in [Claims -> Nat]
      /\ volume \in [acl : SUBSET Claims, receipts : SUBSET Claims]
      /\ faults \in 0..MaxFaults
      /\ Scripted(c)
      /\ pods[c] \in Past => hosting /\ deploy.auth = c
      /\ deploy.auth = c => hosting /\ c = session.admin
  BY DEF IndInv, TypeOK, PodStates, GateAfterHosting, Authorized
\* A step that only moves the script.
<1>2. ASSUME NEW pc \in PodStates, PodTo(c, pc),
             UNCHANGED <<session, claim, deploy, volume, imports, hosting, pre,
                         kick, worker>>,
             faults' \in 0..MaxFaults,
             pc = "import" => c \notin volume.acl,
             pc \in {"receipt", "serve"} => c \in volume.acl,
             pc \in Past => hosting /\ deploy.auth = c
      PROVE  IndInv'
  <2>1. Scripted(c)'
    BY <1>1, <1>2 DEF Scripted, PodTo
  <2>. QED BY <1>1, <1>2, <2>1, PodMoves
<1>3. CASE StartPod(c)
  BY <1>1, <1>2, <1>3 DEF StartPod, PodStates, Past
<1>4. CASE StopPod(c)
  BY <1>1, <1>2, <1>4 DEF StopPod, PodStates, Past
<1>5. CASE PollGate(c)
  BY <1>1, <1>2, <1>5 DEF PollGate, PodStates, Past
<1>6. CASE OpenGate(c)
  BY <1>1, <1>2, <1>6 DEF OpenGate, GateAuthorized, PodStates, Past
<1>7. CASE ProbeAcl(c)
  BY <1>1, <1>2, <1>7 DEF ProbeAcl, Scripted, PodStates, Past
<1>8. CASE PodCrash(c)
  BY <1>1, <1>2, <1>8 DEF PodCrash, Fault, PodStates, Past
<1>9. CASE ImportDid(c)
  <2>1. /\ pods[c] = "import" /\ "receipt" \in PodStates
        /\ PodTo(c, "receipt")
        /\ UNCHANGED <<session, claim, deploy, hosting, pre, kick, worker, faults>>
    BY <1>9 DEF ImportDid, PodStates, Past
  <2>2. /\ volume' \in [acl : SUBSET Claims, receipts : SUBSET Claims]
        /\ volume'.acl = volume.acl \cup {c}
        /\ volume'.receipts = volume.receipts
    BY <1>1, <1>9 DEF ImportDid
  <2>3. /\ imports' \in [Claims -> Nat] /\ imports'[c] = imports[c] + 1
        /\ \A d \in Claims \ {c} : imports'[d] = imports[d]
    BY <1>1, <1>9 DEF ImportDid
  <2>4. hosting /\ deploy.auth = c /\ c = session.admin
    BY <1>1, <2>1 DEF Past
  <2>5. Scripted(c)'
    BY <1>1, <2>1, <2>2, <2>3, <2>4 DEF Scripted, PodTo
  <2>. QED BY <1>1, <2>1, <2>2, <2>3, <2>4, <2>5, PodMoves
<1>10. CASE WriteReceipt(c)
  <2>1. /\ pods[c] = "receipt" /\ "serve" \in PodStates
        /\ PodTo(c, "serve")
        /\ UNCHANGED <<session, claim, deploy, imports, hosting, pre, kick, worker,
                       faults>>
    BY <1>10 DEF WriteReceipt, PodStates, Past
  <2>2. /\ volume' \in [acl : SUBSET Claims, receipts : SUBSET Claims]
        /\ volume'.acl = volume.acl
        /\ volume'.receipts = volume.receipts \cup {c}
    BY <1>1, <1>10 DEF WriteReceipt
  <2>3. hosting /\ deploy.auth = c
    BY <1>1, <2>1 DEF Past
  <2>4. Scripted(c)'
    BY <1>1, <2>1, <2>2 DEF Scripted, PodTo
  <2>. QED BY <1>1, <2>1, <2>2, <2>3, <2>4, PodMoves
<1>. QED BY <1>3, <1>4, <1>5, <1>6, <1>7, <1>8, <1>9, <1>10 DEF PodStep, Script

----------------------------------------------------------------------------
(* The theorems *)

LEMMA IndInvInductive == IndInv /\ [Next]_vars => IndInv'
<1>. SUFFICES ASSUME IndInv, [Next]_vars PROVE IndInv'
  OBVIOUS
<1>1. ASSUME NEW c \in Claims, ClaimStep(c) \/ PodStep(c) \/ PodCrash(c)
      PROVE  IndInv'
  BY <1>1, ClaimEndsKeep, ReserveKeeps, ConfirmKeeps, PodsKeep DEF ClaimStep
<1>2. CASE RetryActivation \/ Worker
  BY <1>2, WorkerKeeps
<1>3. CASE QueueTick \/ Crash
  BY <1>3, RunsKeep
<1>4. ASSUME NEW r \in Runs,
             StartRun(r) \/ LoadRun(r) \/ ApplyRun(r) \/ DropRun(r)
      PROVE  IndInv'
  BY <1>4, RunsKeep, ApplyKeeps
<1>5. CASE UNCHANGED vars
  <2>1. UNCHANGED <<session, claim, deploy, pods, volume, imports, hosting, pre,
                    kick, worker, faults>>
    BY <1>5 DEF vars, cluster
  <2>. QED BY <2>1 DEF IndInv, TypeOK, Ordered, Administered, Hosted, Authorized,
                       Scripted, GateAfterHosting, RunningHasAdmin
<1>. QED BY <1>1, <1>2, <1>3, <1>4, <1>5 DEF Next

LEMMA Invariance == Spec => []IndInv
  BY InitIndInv, IndInvInductive, PTL DEF Spec

\* Rows, annotations, Pods and runs stay within the values the handlers, the
\* worker and the init script give them (TypeOK of Activation), whatever
\* claims, prewarm runs and process ends overlap.
THEOREM ActivationTypes == Spec => []TypeOK
<1>1. IndInv => TypeOK
  BY DEF IndInv
<1>. QED BY <1>1, Invariance, PTL

\* No Pod gets past its gate before the hosting ACL exists and the worker
\* authorized its claim, import-did runs at most once per claim although its
\* container may end after it, and a running session holds its administrator's
\* key (VolumeIsGuarded).
THEOREM VolumeGuarded == Spec => []VolumeIsGuarded
<1>1. IndInv => VolumeIsGuarded
  BY DEF IndInv, VolumeIsGuarded, ImportedOnce, Scripted, GateAfterHosting,
         RunningHasAdmin
<1>. QED BY <1>1, Invariance, PTL

\* No prewarm run, cancel or retry decided before changes a Deployment once
\* the activation worker authorized it (AuthorizedStays).
THEOREM AuthorizationStays == Spec => AuthorizedStays
<1>1. IndInv /\ [Next]_vars => [deploy.auth # None => UNCHANGED deploy]_vars
  BY AuthorizedKeeps
<1>. QED BY <1>1, Invariance, PTL DEF Spec, AuthorizedStays

\* A step that keeps the administrator, what was confirmed and the VTA's ACL
\* is invisible to Handover.
LEMMA Quiet ==
    ASSUME session'.admin = session.admin, volume'.acl = volume.acl,
           \A c \in Claims : claim'[c].st \in Confirmed <=> claim[c].st \in Confirmed
    PROVE  UNCHANGED HandoverOf!hvars
<1>1. {c \in Claims : claim[c].st \in Confirmed}' = {c \in Claims : claim[c].st \in Confirmed}
  OBVIOUS
<1>. QED BY <1>1 DEF HandoverOf!hvars

\* Confirming a claim submits its key.
LEMMA ConfirmSimulated ==
    ASSUME IndInv, NEW c \in Claims, Confirm(c)
    PROVE  HandoverOf!HNext
<1>1. /\ claim' = [claim EXCEPT ![c].st = "provisioning"]
      /\ session'.admin = c /\ volume' = volume
  BY DEF Confirm, To, cluster
<1>2. claim \in [Claims -> ClaimRows] /\ "provisioning" \in ClaimStates
  BY DEF IndInv, TypeOK, ClaimRows, ClaimStates, Confirmed
<1>3. /\ claim'[c].st = "provisioning"
      /\ \A d \in Claims \ {c} : claim'[d] = claim[d]
  BY <1>1, <1>2, ClaimMoves
<1>4. {d \in Claims : claim[d].st \in Confirmed}'
        = {d \in Claims : claim[d].st \in Confirmed} \cup {c}
  BY <1>3 DEF Confirmed
<1>5. session.admin = None
  BY ConfirmFirst
<1>6. HandoverOf!Submit("member", c)
  BY <1>1, <1>4, <1>5 DEF HandoverOf!Submit, Member
<1>. QED BY <1>6 DEF HandoverOf!HNext, Member

\* import-did installs the confirmed key.
LEMMA ImportSimulated ==
    ASSUME IndInv, NEW c \in Claims, ImportDid(c)
    PROVE  HandoverOf!HNext
<1>1. /\ volume'.acl = volume.acl \cup {c} /\ UNCHANGED <<session, claim>>
      /\ deploy.auth = c
  BY DEF ImportDid, IndInv, TypeOK, GateAfterHosting, Past
<1>2. session.admin = c /\ claim[c].st \in Confirmed
  BY <1>1 DEF IndInv, Authorized, Administered
<1>3. HandoverOf!Install("member", c)
  BY <1>1, <1>2 DEF HandoverOf!Install, Member
<1>. QED BY <1>3 DEF HandoverOf!HNext, Member

\* No other step of a claim, a run or the worker confirms anything.
LEMMA ClaimsQuiet ==
    ASSUME IndInv, NEW c \in Claims,
           Reserve(c) \/ Claim(c) \/ Expire(c) \/ View(c) \/ Reject(c)
    PROVE  UNCHANGED HandoverOf!hvars
<1>1. claim \in [Claims -> ClaimRows] /\ UNCHANGED <<session, volume>>
  BY DEF IndInv, TypeOK, ClaimRows, ClaimStates, Reserve, Claim, Expire, View,
         Reject, cluster
<1>2. CASE Reserve(c)
  <2>1. \A d \in Claims :
          \/ claim'[d] = claim[d]
          \/ d = c /\ claim[d].st = "none" /\ claim'[d].st = "open"
          \/ claim[d].st = "open" /\ claim'[d] = [claim[d] EXCEPT !.st = "lapsed"]
    BY <1>2 DEF Reserve
  <2>2. \A d \in Claims : [claim[d] EXCEPT !.st = "lapsed"].st = "lapsed"
    BY <1>1, RowMoves DEF ClaimStates
  <2>3. \A d \in Claims : claim'[d].st \in Confirmed <=> claim[d].st \in Confirmed
    BY <2>1, <2>2 DEF Confirmed
  <2>. QED BY <1>1, <2>3, Quiet
<1>3. CASE Claim(c) \/ Expire(c) \/ View(c) \/ Reject(c)
  <2>1. PICK st \in ClaimStates :
          /\ \/ claim' = [claim EXCEPT ![c].st = st]
             \/ claim' = [claim EXCEPT ![c].late = TRUE] /\ st = claim[c].st
          /\ claim[c].st \notin Confirmed /\ st \notin Confirmed
    BY <1>3 DEF Claim, Expire, View, Reject, To, ClaimStates, Confirmed
  <2>2. claim'[c].st = st /\ \A d \in Claims \ {c} : claim'[d] = claim[d]
    BY <1>1, <2>1, ClaimMoves
  <2>3. \A d \in Claims : claim'[d].st \in Confirmed <=> claim[d].st \in Confirmed
    BY <2>1, <2>2
  <2>. QED BY <1>1, <2>3, Quiet
<1>. QED BY <1>2, <1>3

LEMMA RunsQuiet ==
    ASSUME IndInv,
           NEW r \in Runs, StartRun(r) \/ LoadRun(r) \/ ApplyRun(r) \/ DropRun(r)
    PROVE  UNCHANGED HandoverOf!hvars
<1>1. claim \in [Claims -> ClaimRows] /\ UNCHANGED <<session, volume>>
  BY DEF IndInv, TypeOK, ClaimRows, ClaimStates, StartRun, LoadRun, ApplyRun,
         DropRun, cluster
<1>2. CASE UNCHANGED claim
  BY <1>1, <1>2, Quiet
<1>3. CASE LoadRun(r)
  <2>1. \/ claim' = claim
        \/ \E c \in Claims : /\ claim[c].st = "claimed"
                             /\ claim' = [claim EXCEPT ![c].st = "lapsed"]
    BY <1>3 DEF LoadRun
  <2>2. ASSUME NEW c \in Claims, claim[c].st = "claimed",
               claim' = [claim EXCEPT ![c].st = "lapsed"]
        PROVE  \A d \in Claims : claim'[d].st \in Confirmed <=> claim[d].st \in Confirmed
    <3>1. claim'[c].st = "lapsed" /\ \A d \in Claims \ {c} : claim'[d] = claim[d]
      BY <1>1, <2>2, ClaimMoves DEF ClaimStates
    <3>. QED BY <2>2, <3>1 DEF Confirmed
  <2>. QED BY <1>1, <1>2, <2>1, <2>2, Quiet
<1>. QED BY <1>2, <1>3 DEF StartRun, ApplyRun, DropRun

LEMMA WorkerQuiet ==
    ASSUME IndInv, Worker \/ RetryActivation
    PROVE  UNCHANGED HandoverOf!hvars
<1>1. /\ claim \in [Claims -> ClaimRows]
      /\ session \in [st : {"pool_waiting", "provisioning", "running", "failed"},
                      admin : Claims \cup {None}]
  BY DEF IndInv, TypeOK, ClaimRows, ClaimStates
<1>2. /\ UNCHANGED volume
      /\ session' = session \/ \E st \in {"provisioning", "running", "failed"} :
                                 session' = [session EXCEPT !.st = st]
  BY DEF Worker, RetryActivation, Take, HostingAcl, PatchDeployment,
         FinishActivation, FailActivation, cluster
<1>3. session'.admin = session.admin
  BY <1>1, <1>2
<1>4. CASE UNCHANGED claim
  BY <1>2, <1>3, <1>4, Quiet
<1>5. CASE FinishActivation /\ ~UNCHANGED claim
  <2>1. \A c \in Claims :
          \/ claim'[c] = claim[c]
          \/ /\ claim[c].st = "provisioning"
             /\ claim'[c] = [claim[c] EXCEPT !.st = "released"]
    BY <1>5 DEF FinishActivation
  <2>2. \A c \in Claims : [claim[c] EXCEPT !.st = "released"].st = "released"
    BY <1>1, RowMoves DEF ClaimStates, Confirmed
  <2>. QED BY <1>2, <1>3, <2>1, <2>2, Quiet DEF Confirmed
<1>. QED BY <1>4, <1>5 DEF Worker, RetryActivation, Take, HostingAcl,
                           PatchDeployment, cluster

\* Every step of the member is a step of Handover or leaves its variables
\* alone.
LEMMA StepSimulated ==
    IndInv /\ [Next]_vars => [HandoverOf!HNext]_(HandoverOf!hvars)
<1>. SUFFICES ASSUME IndInv, [Next]_vars
              PROVE  HandoverOf!HNext \/ UNCHANGED HandoverOf!hvars
  OBVIOUS
<1>1. ASSUME NEW c \in Claims, ClaimStep(c)
      PROVE  HandoverOf!HNext \/ UNCHANGED HandoverOf!hvars
  BY <1>1, ConfirmSimulated, ClaimsQuiet DEF ClaimStep
<1>2. ASSUME NEW c \in Claims, PodStep(c) \/ PodCrash(c)
      PROVE  HandoverOf!HNext \/ UNCHANGED HandoverOf!hvars
  <2>1. CASE ImportDid(c)
    BY <2>1, ImportSimulated
  <2>2. CASE WriteReceipt(c)
    <3>1. volume'.acl = volume.acl /\ UNCHANGED <<session, claim>>
      BY <2>2 DEF WriteReceipt, IndInv, TypeOK
    <3>. QED BY <3>1, Quiet
  <2>3. CASE ~ImportDid(c) /\ ~WriteReceipt(c)
    <3>1. UNCHANGED <<volume, session, claim>>
      BY <1>2, <2>3 DEF PodStep, PodCrash, StartPod, StopPod, Script, PollGate,
                        OpenGate, ProbeAcl
    <3>. QED BY <3>1, Quiet
  <2>. QED BY <2>1, <2>2, <2>3
<1>3. CASE RetryActivation \/ Worker
  BY <1>3, WorkerQuiet
<1>4. CASE QueueTick \/ Crash \/ UNCHANGED vars
  <2>1. UNCHANGED <<volume, session, claim>>
    BY <1>4 DEF QueueTick, Crash, vars, cluster
  <2>. QED BY <2>1, Quiet
<1>5. ASSUME NEW r \in Runs,
             StartRun(r) \/ LoadRun(r) \/ ApplyRun(r) \/ DropRun(r)
      PROVE  UNCHANGED HandoverOf!hvars
  BY <1>5, RunsQuiet
<1>. QED BY <1>1, <1>2, <1>3, <1>4, <1>5 DEF Next

\* A pooled VTA keeps the promise of module Handover although its Pod starts
\* before anyone confirms (ImplementsHandover): its administrator is never
\* replaced and its ACL holds the confirmed key or nothing.
THEOREM MemberImplementsHandover == Spec => ImplementsHandover
<1>1. ASSUME Init PROVE HandoverOf!HInit
  <2>1. [s \in Member |-> session.admin] = [s \in Member |-> None]
    BY <1>1 DEF Init
  <2>2. {c \in Claims : claim[c].st \in Confirmed} = {}
    BY <1>1 DEF Init, Confirmed
  <2>3. volume.acl = {}
    BY <1>1 DEF Init
  <2>. QED BY <2>1, <2>2, <2>3 DEF HandoverOf!HInit
<1>. QED BY <1>1, StepSimulated, Invariance, PTL
         DEF Spec, ImplementsHandover, HandoverOf!HSpec
=============================================================================
