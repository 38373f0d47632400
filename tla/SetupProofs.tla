----------------------------- MODULE SetupProofs -----------------------------
(***************************************************************************)
(* The safety of the setup of a full-stack session for any kinds of        *)
(* session and any number of troubles: nothing is served before the Jobs   *)
(* that prepare it, the Jobs behind the gate take effect once, and no      *)
(* resume or recovery goes back before the gate.                           *)
(***************************************************************************)
EXTENDS Setup, TLAPS

-----------------------------------------------------------------------------
(* The inductive invariant *)

\* The place of a step in the chain, the inverse of Chain.
Rank == [dns_wait |-> 1, env_provision |-> 2, k8s_provision |-> 3,
         tls_provision |-> 4, step_vta_setup |-> 5, step_mediator_p1 |-> 6,
         step_mediator_reprov |-> 7, step_mediator_p2 |-> 8,
         step_dids_p1 |-> 9, step_dids_provision |-> 10,
         step_dids_p2 |-> 11, step_dids_invite |-> 12,
         step_dids_load_did |-> 13, step_dids_grant_farm |-> 14,
         deploy_dids |-> 15, deploy_mediator |-> 16,
         step_vta_register_dids |-> 17, gate |-> 18,
         step_import_admin_did |-> 19, step_vtc_setup_key |-> 20,
         step_vtc_acl_grant |-> 21, deploy_vta |-> 22, step_vtc_setup |-> 23,
         deploy_vtc |-> 24, step_trust_registry |-> 25, end |-> 26]

Places == DOMAIN Rank
EarlyPlaces == {p \in Places : Rank[p] <= 18}
LatePlaces == {p \in Places : Rank[p] > 18}

Registries == {"disabled", "enabling", "active", "failed"}

SessionRows ==
    [st : Statuses, failed : Steps \cup {"", "running", "deleting"},
     admin : BOOLEAN, vtc : BOOLEAN, reg : Registries]

GoRows ==
    [at : Steps \cup {"idle", "gate", "end", "leave"},
     todo : {"enter", "work", "wait", "images"}, live : BOOLEAN,
     of : {"none", "start", "recover", "finish"},
     admin : BOOLEAN, vtc : BOOLEAN, reg : Registries]

Typed ==
    /\ kind \in Kinds
    /\ session \in SessionRows
    /\ job \in [JobSteps -> {"none", "active", "done", "failed"}]
    /\ ran \in [JobSteps -> 0..2]
    /\ deploy \in [Components -> {"none", "starting", "ready", "stale"}]
    /\ run \in [Runs -> GoRows]
    /\ cancels \in Launched \cup {None}
    /\ life \in {"creating", "up", "down"}
    /\ teardown \in {"none", "asked", "removed", "gave_up", "done"}
    /\ spent \in 0..MaxTroubles

\* A finished Job took effect; a receipt is never forgotten.
JobFits(s) ==
    /\ job[s] = "done" => ran[s] > 0
    /\ s \in Receipts => ran[s] <= 1 /\ (ran[s] > 0 => job[s] = "done")

Active(r) == run[r].at \in Places
Early(r) == run[r].at \in EarlyPlaces
Late(r) == run[r].at \in LatePlaces

\* The rows a goroutine meets before the gate, and behind it.
EarlyRow ==
    session.st \in {s \in Steps : Rank[s] < 18}
                       \cup {"dns_provision", "deleting", "gone"}
LateRow ==
    \/ session.st \in Past \cup {"deleting", "gone"}
    \/ session.st = "failed" /\ session.failed \in Past \cup {"deleting"}

PastRow ==
    session.st \in Past \/ (session.st = "failed" /\ session.failed \in Past)

\* Before the gate one goroutine drives the session; behind it there is an
\* administrator.  A goroutine that works has entered its step.
Roles ==
    /\ \A r, q \in Runs : (Early(r) /\ Active(q)) => q = r
    /\ \A r \in Runs :
          /\ Early(r) => EarlyRow
          /\ Early(r) => (run[r].todo # "enter" => session.st # "dns_provision")
          /\ Late(r) => LateRow /\ session.admin
          /\ run[r].admin => session.admin
          /\ life # "up" => run[r].at = "idle"
    /\ PastRow => session.admin
    /\ life = "creating" => session.st \in {"dns_provision", "deleting", "gone"}

\* What the chain has done before its n-th place.
Reached(n) ==
    /\ \A s \in JobSteps : Rank[s] < n => ran[s] > 0
    /\ \A c \in Components : Rank[DeployOf[c]] < n => deploy[c] # "none"
    /\ n > 23 => session.vtc

\* The row says no more than what was done.
RowReached ==
    /\ \A s \in Steps :
          (session.st = s \/ (session.st = "failed" /\ session.failed = s))
              => Reached(Rank[s])
    /\ session.st = "awaiting_admin_did" => Reached(19)
    /\ session.st = "running" => Reached(26)

Prepared ==
    \A c \in Components :
        deploy[c] # "none" => \A s \in Prepares(c) : ran[s] > 0

\* Until it is deleted a session has all behind it that its goroutines and
\* its row are past.
Progress ==
    /\ \A r \in Runs : \A p \in Places :
          run[r].at = p => Reached(Rank[p])
    /\ RowReached
    /\ session.st # "gone"
    /\ Prepared

IndInv ==
    /\ Typed
    /\ \A s \in JobSteps : JobFits(s)
    /\ Roles
    /\ teardown = "none" => Progress

-----------------------------------------------------------------------------
(* The chain *)

LEMMA StepsAre ==
    Steps = {"dns_wait", "env_provision", "k8s_provision", "tls_provision",
      "step_vta_setup", "step_mediator_p1", "step_mediator_reprov",
      "step_mediator_p2", "step_dids_p1", "step_dids_provision",
      "step_dids_p2", "step_dids_invite", "step_dids_load_did",
      "step_dids_grant_farm", "deploy_dids", "deploy_mediator",
      "step_vta_register_dids", "step_import_admin_did", "step_vtc_setup_key",
      "step_vtc_acl_grant", "deploy_vta", "step_vtc_setup", "deploy_vtc",
      "step_trust_registry"}
  BY DEF Steps, Step

LEMMA ChainRank ==
    \A i \in 1..26 : Chain[i] \in Places /\ Rank[Chain[i]] = i
  <1>1. \A i \in 1..18 : /\ BeforeTheGate[i] \in Places
                         /\ Rank[BeforeTheGate[i]] = i
    BY DEF BeforeTheGate, Rank, Places
  <1>2. \A i \in 1..8 : /\ BehindTheGate[i] \in Places
                        /\ Rank[BehindTheGate[i]] = 18 + i
    BY DEF BehindTheGate, Rank, Places
  <1>. SUFFICES ASSUME NEW i \in 1..26
                PROVE  Chain[i] \in Places /\ Rank[Chain[i]] = i
    OBVIOUS
  <1>3. CASE i <= 18
    <2>1. i \in 1..18 /\ Chain[i] = BeforeTheGate[i]
      BY <1>3 DEF Chain
    <2>. QED
      BY <1>1, <2>1
  <1>4. CASE ~(i <= 18)
    <2>1. i - 18 \in 1..8 /\ 18 + (i - 18) = i
      BY <1>4
    <2>2. Chain[i] = BehindTheGate[i - 18]
      BY <1>4 DEF Chain
    <2>. QED
      BY <1>2, <2>1, <2>2
  <1>. QED
    BY <1>3, <1>4

LEMMA RankOnce ==
    /\ \A p \in Places : Rank[p] \in 1..26 /\ Rank[p] \in Nat
    /\ \A p, q \in Places : Rank[p] = Rank[q] => p = q
  <1>1. \A p \in Places : Rank[p] \in 1..26 /\ Rank[p] \in Nat
    BY DEF Rank, Places
  <1>2. \A p, q \in Places : Rank[p] = Rank[q] => p = q
    BY DEF Rank, Places
  <1>. QED
    BY <1>1, <1>2

LEMMA PlacesAre ==
    /\ Places = Steps \cup {"gate", "end"}
    /\ "idle" \notin Places /\ "leave" \notin Places
    /\ "gate" \notin Steps /\ "end" \notin Steps
  <1>1. Places = Steps \cup {"gate", "end"}
    BY StepsAre DEF Places, Rank
  <1>2. "idle" \notin Places /\ "leave" \notin Places
    BY DEF Places, Rank
  <1>. QED
    BY <1>1, <1>2, StepsAre

\* The ranks by name.
LEMMA Ranks ==
    /\ Rank["dns_wait"] = 1 /\ Rank["k8s_provision"] = 3
    /\ Rank["tls_provision"] = 4 /\ Rank["deploy_dids"] = 15
    /\ Rank["deploy_mediator"] = 16 /\ Rank["gate"] = 18
    /\ Rank["step_import_admin_did"] = 19 /\ Rank["step_vtc_setup_key"] = 20
    /\ Rank["step_vtc_acl_grant"] = 21 /\ Rank["deploy_vta"] = 22
    /\ Rank["step_vtc_setup"] = 23 /\ Rank["deploy_vtc"] = 24
    /\ Rank["step_trust_registry"] = 25 /\ Rank["end"] = 26
  BY DEF Rank

LEMMA Sides ==
    /\ Places = EarlyPlaces \cup LatePlaces
    /\ EarlyPlaces \cap LatePlaces = {}
    /\ \A p \in EarlyPlaces : Rank[p] <= 18
    /\ \A p \in LatePlaces : Rank[p] >= 19
  BY RankOnce DEF EarlyPlaces, LatePlaces

LEMMA LatePlacesAre ==
    LatePlaces = {"step_import_admin_did", "step_vtc_setup_key",
                  "step_vtc_acl_grant", "deploy_vta", "step_vtc_setup",
                  "deploy_vtc", "step_trust_registry", "end"}
  BY DEF LatePlaces, Places, Rank

LEMMA PastIs ==
    /\ Past = {"step_import_admin_did", "step_vtc_setup_key",
               "step_vtc_acl_grant", "deploy_vta", "step_vtc_setup",
               "deploy_vtc", "step_trust_registry", "running"}
    /\ \A s \in Steps : s \in LatePlaces <=> s \in Past
    /\ "awaiting_admin_did" \notin Steps /\ "running" \notin Steps
    /\ "failed" \notin Steps /\ "deleting" \notin Steps /\ "gone" \notin Steps
    /\ "dns_provision" \notin Steps /\ "" \notin Steps
  <1>1. Past = {"step_import_admin_did", "step_vtc_setup_key",
                "step_vtc_acl_grant", "deploy_vta", "step_vtc_setup",
                "deploy_vtc", "step_trust_registry", "running"}
    BY DEF Past, ResumePostGate
  <1>. QED
    BY <1>1, LatePlacesAre, StepsAre

\* What the table of the steps says of each.
LEMMA Table ==
    /\ Step["dns_wait"] = DnsWait
    /\ Step["env_provision"] = EnvProvision
    /\ Step["k8s_provision"] = K8sProvision
    /\ Step["tls_provision"] = TlsProvision
    /\ Step["step_vta_setup"] = VtaSetup
    /\ Step["step_mediator_p1"] = MediatorP1
    /\ Step["step_mediator_reprov"] = MediatorReprov
    /\ Step["step_mediator_p2"] = MediatorP2
    /\ Step["step_dids_p1"] = DidsP1
    /\ Step["step_dids_provision"] = DidsProvision
    /\ Step["step_dids_p2"] = DidsP2
    /\ Step["step_dids_invite"] = DidsInvite
    /\ Step["step_dids_load_did"] = DidsLoadDid
    /\ Step["step_dids_grant_farm"] = DidsGrantFarm
  BY DEF Step

LEMMA LaterTable ==
    /\ Step["step_vta_register_dids"] = VtaRegisterDids
    /\ Step["step_import_admin_did"] = ImportAdminDid
    /\ Step["step_vtc_setup_key"] = VtcSetupKey
    /\ Step["step_vtc_acl_grant"] = VtcAclGrant
    /\ Step["step_vtc_setup"] = VtcSetup
    /\ Step["step_trust_registry"] = TrustRegistry
  BY DEF Step

LEMMA DaemonTable ==
    /\ Step["deploy_dids"] = Daemon("dids")
    /\ Step["deploy_mediator"] = Daemon("mediator")
    /\ Step["deploy_vta"] = Daemon("vta")
    /\ Step["deploy_vtc"] = Daemon("vtc")
  BY DEF Step

\* The volumes of the Jobs.
LEMMA JobTable ==
    /\ Step["step_vta_setup"].does = "job"
    /\ Step["step_vta_setup"].on = {"vta"}
    /\ Step["step_mediator_p1"].does = "job"
    /\ Step["step_mediator_p1"].on = {"mediator"}
    /\ Step["step_mediator_reprov"].does = "job"
    /\ Step["step_mediator_reprov"].on = {"vta", "mediator"}
    /\ Step["step_mediator_p2"].does = "job"
    /\ Step["step_mediator_p2"].on = {"mediator"}
    /\ Step["step_dids_p1"].does = "job"
    /\ Step["step_dids_p1"].on = {"dids"}
    /\ Step["step_dids_provision"].does = "job"
    /\ Step["step_dids_provision"].on = {"vta", "dids"}
    /\ Step["step_dids_p2"].does = "job"
    /\ Step["step_dids_p2"].on = {"dids"}
    /\ Step["step_dids_invite"].does = "job"
    /\ Step["step_dids_invite"].on = {"dids"}
    /\ Step["step_dids_load_did"].does = "job"
    /\ Step["step_dids_load_did"].on = {"vta", "dids"}
    /\ Step["step_dids_grant_farm"].does = "job"
    /\ Step["step_dids_grant_farm"].on = {"dids"}
  BY Table DEF Work, Job, VtaSetup, MediatorP1, MediatorReprov, MediatorP2,
     DidsP1, DidsProvision, DidsP2, DidsInvite, DidsLoadDid, DidsGrantFarm

LEMMA LaterJobTable ==
    /\ Step["step_vta_register_dids"].does = "job"
    /\ Step["step_vta_register_dids"].on = {"vta"}
    /\ Step["step_import_admin_did"].does = "job"
    /\ Step["step_import_admin_did"].on = {"vta"}
    /\ Step["step_import_admin_did"].keep
    /\ Step["step_vtc_setup_key"].does = "job"
    /\ Step["step_vtc_setup_key"].on = {"vtc"}
    /\ Step["step_vtc_setup_key"].keep
    /\ Step["step_vtc_acl_grant"].does = "job"
    /\ Step["step_vtc_acl_grant"].on = {"vta"}
    /\ Step["step_vtc_acl_grant"].keep
    /\ Step["step_vtc_setup"].does = "job"
    /\ Step["step_vtc_setup"].on = {"vtc"}
    /\ Step["step_vtc_setup"].keep
  BY LaterTable DEF Work, Receipt, VtaRegisterDids, ImportAdminDid, VtcSetupKey,
     VtcAclGrant, VtcSetup

LEMMA OtherTable ==
    /\ Step["dns_wait"].does = "wait" /\ Step["tls_provision"].does = "cert"
    /\ Step["env_provision"].does = "call"
    /\ Step["k8s_provision"].does = "call"
    /\ Step["step_trust_registry"].does = "registry"
    /\ Step["deploy_dids"].does = "deploy"
    /\ Step["deploy_dids"].on = {"dids"}
    /\ Step["deploy_mediator"].does = "deploy"
    /\ Step["deploy_mediator"].on = {"mediator"}
    /\ Step["deploy_vta"].does = "deploy" /\ Step["deploy_vta"].on = {"vta"}
    /\ Step["deploy_vtc"].does = "deploy" /\ Step["deploy_vtc"].on = {"vtc"}
  BY Table, LaterTable, DaemonTable DEF Work, Call, Daemon, DnsWait,
      EnvProvision, K8sProvision, TlsProvision, TrustRegistry

LEMMA Jobs ==
    JobSteps =
      {"step_vta_setup", "step_mediator_p1", "step_mediator_reprov",
       "step_mediator_p2", "step_dids_p1", "step_dids_provision",
       "step_dids_p2", "step_dids_invite", "step_dids_load_did",
       "step_dids_grant_farm", "step_vta_register_dids",
       "step_import_admin_did", "step_vtc_setup_key", "step_vtc_acl_grant",
       "step_vtc_setup"}
  BY StepsAre, JobTable, LaterJobTable, OtherTable DEF JobSteps

\* A daemon's step creates its Deployment.
LEMMA Daemons ==
    /\ \A c \in Components : /\ DeployOf[c] \in Steps
                             /\ Step[DeployOf[c]].does = "deploy"
                             /\ Component(DeployOf[c]) = c
    /\ \A s \in Steps : Step[s].does = "deploy" =>
           Component(s) \in Components /\ DeployOf[Component(s)] = s
    /\ \A s \in Steps : Step[s].does = "deploy" => s \notin JobSteps
  <1>1. /\ DeployOf["vta"] = "deploy_vta" /\ DeployOf["vtc"] = "deploy_vtc"
        /\ DeployOf["dids"] = "deploy_dids"
        /\ DeployOf["mediator"] = "deploy_mediator"
    BY DEF DeployOf
  <1>2. /\ Component("deploy_vta") = "vta" /\ Component("deploy_vtc") = "vtc"
        /\ Component("deploy_dids") = "dids"
        /\ Component("deploy_mediator") = "mediator"
    BY OtherTable DEF Component
  <1>3. \A s \in Steps : Step[s].does = "deploy" =>
          s \in {"deploy_dids", "deploy_mediator", "deploy_vta", "deploy_vtc"}
    BY StepsAre, JobTable, LaterJobTable, OtherTable
  <1>4. \A s \in Steps : Step[s].does = "deploy" => s \notin JobSteps
    BY DEF JobSteps
  <1>. QED
    BY <1>1, <1>2, <1>3, <1>4, OtherTable, StepsAre DEF Components

\* Every Job of a volume comes before the daemon that serves it.
LEMMA PreparedFirst ==
    \A c \in Components : \A s \in Prepares(c) : Rank[s] < Rank[DeployOf[c]]
  <1>1. /\ DeployOf["vta"] = "deploy_vta" /\ DeployOf["vtc"] = "deploy_vtc"
        /\ DeployOf["dids"] = "deploy_dids"
        /\ DeployOf["mediator"] = "deploy_mediator"
    BY DEF DeployOf
  <1>. SUFFICES ASSUME NEW c \in Components, NEW s \in JobSteps,
                       c \in Step[s].on
                PROVE  Rank[s] < Rank[DeployOf[c]]
    BY DEF Prepares
  <1>2. CASE c = "vta"
    <2>1. Rank[s] <= 21
      BY <1>2, Jobs, JobTable, LaterJobTable DEF Rank
    <2>2. Rank[s] \in 1..26
      BY Jobs, StepsAre, PlacesAre, RankOnce
    <2>. QED
      BY <1>1, <1>2, <2>1, <2>2, Ranks
  <1>3. CASE c = "mediator"
    BY <1>1, <1>3, Jobs, JobTable, LaterJobTable DEF Rank
  <1>4. CASE c = "dids"
    BY <1>1, <1>4, Jobs, JobTable, LaterJobTable DEF Rank
  <1>5. CASE c = "vtc"
    BY <1>1, <1>5, Jobs, JobTable, LaterJobTable DEF Rank
  <1>. QED
    BY <1>2, <1>3, <1>4, <1>5 DEF Components

LEMMA ReceiptsKept == \A s \in Receipts : s \in JobSteps /\ Step[s].keep
  BY Jobs, LaterJobTable DEF Receipts

LEMMA Positions ==
    \A s \in Places : Position(s) = Rank[s] /\ Chain[Rank[s]] = s
  <1>. SUFFICES ASSUME NEW s \in Places
                PROVE  Position(s) = Rank[s] /\ Chain[Rank[s]] = s
    OBVIOUS
  <1>1. DOMAIN Chain = 1..26
    BY DEF Chain
  <1>2. Rank[s] \in 1..26
    BY RankOnce
  <1>3. Chain[Rank[s]] \in Places /\ Rank[Chain[Rank[s]]] = Rank[s]
    BY <1>2, ChainRank
  <1>4. Chain[Rank[s]] = s
    BY <1>3, RankOnce
  <1>5. \A i \in 1..26 : Chain[i] = s => i = Rank[s]
    BY ChainRank
  <1>6. Position(s) \in 1..26 /\ Chain[Position(s)] = s
    BY <1>1, <1>2, <1>4 DEF Position
  <1>. QED
    BY <1>4, <1>5, <1>6

\* The next place; only the certificate is left out.
LEMMA Onward ==
    ASSUME NEW s \in Steps
    PROVE  /\ After(s) \in Places
           /\ \/ Rank[After(s)] = Rank[s] + 1
              \/ Rank[s] = 3 /\ Rank[After(s)] = 5
  <1>1. Position(s) = Rank[s] /\ Rank[s] \in 1..25
    <2>1. s \in Places /\ s # "end"
      BY PlacesAre
    <2>2. Position(s) = Rank[s] /\ Rank[s] \in 1..26
      BY <2>1, Positions, RankOnce
    <2>3. "end" \in Places /\ Rank["end"] = 26
      BY PlacesAre, Ranks
    <2>4. Rank[s] # 26
      BY <2>1, <2>3, RankOnce
    <2>. QED
      BY <2>2, <2>4
  <1>. DEFINE n == Chain[Rank[s] + 1]
  <1>2. n \in Places /\ Rank[n] = Rank[s] + 1
    BY <1>1, ChainRank
  <1>3. CASE n = "tls_provision" /\ ~kind.custom
    <2>1. Rank[s] = 3
      BY <1>1, <1>2, <1>3, Ranks
    <2>2. After(s) = Chain[Rank[s] + 2]
      BY <1>1, <1>3 DEF After
    <2>3. Chain[5] \in Places /\ Rank[Chain[5]] = 5
      BY ChainRank
    <2>. QED
      BY <2>1, <2>2, <2>3
  <1>4. CASE ~(n = "tls_provision" /\ ~kind.custom)
    <2>1. After(s) = n
      BY <1>1, <1>4 DEF After
    <2>. QED
      BY <1>2, <2>1
  <1>. QED
    BY <1>3, <1>4

\* No step leaves its side of the gate.
LEMMA SameSide ==
    ASSUME NEW s \in Steps
    PROVE  /\ s \in EarlyPlaces => After(s) \in EarlyPlaces
           /\ s \in LatePlaces => After(s) \in LatePlaces
  <1>1. After(s) \in Places /\ s \in Places
        /\ (Rank[After(s)] = Rank[s] + 1
            \/ (Rank[s] = 3 /\ Rank[After(s)] = 5))
    BY Onward, PlacesAre
  <1>2. Rank[s] \in 1..26 /\ Rank[After(s)] \in 1..26 /\ Rank[s] # 18
    <2>1. "gate" \in Places /\ s # "gate"
      BY PlacesAre
    <2>. QED
      BY <1>1, <2>1, RankOnce, Ranks
  <1>. QED
    BY <1>1, <1>2 DEF EarlyPlaces, LatePlaces

-----------------------------------------------------------------------------
(* What the chain has done *)

\* Nothing that was done is undone.
Grows ==
    /\ \A s \in JobSteps : ran[s] > 0 => ran'[s] > 0
    /\ \A c \in Components : deploy[c] # "none" => deploy'[c] # "none"
    /\ session.vtc => session'.vtc

LEMMA Rises ==
    ASSUME Grows, NEW n \in Nat, Reached(n)
    PROVE  Reached(n)'
  BY DEF Grows, Reached

\* A step that did its work takes the chain to the next place.
LEMMA StepDone ==
    ASSUME NEW s \in Steps, Reached(Rank[s]), Grows,
           s \in JobSteps => ran'[s] > 0,
           Step[s].does = "deploy" => deploy'[Component(s)] # "none",
           s = "step_vtc_setup" => session'.vtc,
           NEW p \in Places, p = After(s)
    PROVE  Reached(Rank[p])'
  <1>1. /\ s \in Places
        /\ Rank[p] = Rank[s] + 1 \/ (Rank[s] = 3 /\ Rank[p] = 5)
    BY Onward, PlacesAre
  <1>2. Rank[s] \in 1..26 /\ Rank[p] \in 1..26
    BY <1>1, RankOnce
  <1>3. ASSUME NEW q \in Steps, Rank[q] < Rank[p]
        PROVE  Rank[q] < Rank[s] \/ q = s \/ q = "tls_provision"
    <2>1. q \in Places /\ Rank[q] \in 1..26
      BY PlacesAre, RankOnce
    <2>2. "tls_provision" \in Places /\ Rank["tls_provision"] = 4
      BY Ranks, PlacesAre, StepsAre
    <2>3. Rank[q] < Rank[s] \/ Rank[q] = Rank[s] \/ Rank[q] = 4
      BY <1>1, <1>2, <1>3, <2>1
    <2>. QED
      BY <1>1, <2>1, <2>2, <2>3, RankOnce
  <1>4. ASSUME NEW j \in JobSteps, Rank[j] < Rank[p]
        PROVE  ran'[j] > 0
    <2>1. j \in Steps /\ j # "tls_provision"
      BY Jobs DEF JobSteps
    <2>2. Rank[j] < Rank[s] \/ j = s
      BY <1>3, <1>4, <2>1
    <2>. QED
      BY <2>2 DEF Reached, Grows
  <1>5. ASSUME NEW c \in Components, Rank[DeployOf[c]] < Rank[p]
        PROVE  deploy'[c] # "none"
    <2>1. /\ DeployOf[c] \in Steps /\ Step[DeployOf[c]].does = "deploy"
          /\ Component(DeployOf[c]) = c
      BY Daemons
    <2>2. DeployOf[c] # "tls_provision"
      BY <2>1, OtherTable
    <2>3. Rank[DeployOf[c]] < Rank[s] \/ DeployOf[c] = s
      BY <1>3, <1>5, <2>1, <2>2
    <2>. QED
      BY <2>1, <2>3 DEF Reached, Grows
  <1>6. ASSUME Rank[p] > 23 PROVE session'.vtc
    <2>1. Rank[s] > 23 \/ Rank[s] = 23
      BY <1>1, <1>2, <1>6
    <2>2. "step_vtc_setup" \in Places /\ Rank["step_vtc_setup"] = 23
      BY Ranks, PlacesAre, StepsAre
    <2>3. Rank[s] = 23 => s = "step_vtc_setup"
      BY <1>1, <2>2, RankOnce
    <2>. QED
      BY <2>1, <2>3 DEF Reached, Grows
  <1>. QED
    BY <1>4, <1>5, <1>6 DEF Reached

-----------------------------------------------------------------------------
(* The step of one goroutine *)

Stays(q) ==
    /\ run'[q].at = run[q].at /\ run'[q].todo = run[q].todo
    /\ run'[q].admin = run[q].admin

KubeGoes ==
    /\ job' \in [JobSteps -> {"none", "active", "done", "failed"}]
    /\ ran' \in [JobSteps -> 0..2]
    /\ deploy' \in [Components -> {"none", "starting", "ready", "stale"}]
    /\ \A s \in JobSteps : JobFits(s)'
    /\ \A s \in JobSteps : ran[s] > 0 => ran'[s] > 0
    /\ \A c \in Components : deploy[c] # "none" => deploy'[c] # "none"
    /\ teardown = "none" => Prepared'

RowGoes ==
    /\ session' \in SessionRows
    /\ session.admin => session'.admin
    /\ session.vtc => session'.vtc
    /\ PastRow' => session'.admin
    /\ session'.st = "gone" => session.st = "gone"

LEMMA Apart ==
    \A r \in Runs : /\ Active(r) <=> (Early(r) \/ Late(r))
                    /\ ~(Early(r) /\ Late(r))
  BY Sides DEF Active, Early, Late

LEMMA ApartThen ==
    \A r \in Runs : /\ Active(r)' <=> (Early(r)' \/ Late(r)')
                    /\ ~(Early(r)' /\ Late(r)')
  BY Sides DEF Active, Early, Late

\* A row before the gate is not one behind it, nor a failed one.
LEMMA RowsApart ==
    /\ EarlyRow => ~PastRow /\ session.st \notin {"failed", "running"}
                   /\ session.st # "awaiting_admin_did"
    /\ LateRow => session.st # "awaiting_admin_did"
                  /\ session.st # "dns_provision"
  <1>1. ASSUME NEW s \in Steps, Rank[s] < 18
        PROVE  s \notin Past
    <2>1. Rank[s] \in 1..26
      BY PlacesAre, RankOnce
    <2>2. s \notin LatePlaces
      BY <1>1, <2>1, Sides
    <2>. QED
      BY <2>2, PastIs
  <1>2. EarlyRow => ~PastRow /\ session.st \notin {"failed", "running"}
                    /\ session.st # "awaiting_admin_did"
    BY <1>1, PastIs DEF EarlyRow, PastRow
  <1>3. LateRow => session.st # "awaiting_admin_did"
                   /\ session.st # "dns_provision"
    BY PastIs DEF LateRow
  <1>. QED
    BY <1>2, <1>3

LEMMA DriveStep ==
    ASSUME IndInv, NEW r \in Runs, Active(r),
           run' \in [Runs -> GoRows], \A q \in Runs \ {r} : Stays(q),
           run'[r].admin = run[r].admin,
           kind' = kind, cancels' \in Launched \cup {None},
           life' = life, teardown' = teardown, spent' \in 0..MaxTroubles,
           KubeGoes, RowGoes,
           \/ run'[r].at = "leave"
           \/ /\ Early(r) => Early(r)'
              /\ Late(r) => Late(r)'
              /\ Early(r) => EarlyRow' /\ (run'[r].todo # "enter" =>
                                             session'.st # "dns_provision")
              /\ teardown = "none" =>
                   \A p \in Places : run'[r].at = p => Reached(Rank[p])',
           Late(r) => LateRow',
           teardown = "none" => RowReached'
    PROVE  IndInv'
  <1>1. Typed'
    BY DEF IndInv, Typed, KubeGoes, RowGoes
  <1>2. \A s \in JobSteps : JobFits(s)'
    BY DEF KubeGoes
  <1>3. Roles
    BY DEF IndInv
  <1>4. life = "up"
    <2>1. run[r].at # "idle"
      BY PlacesAre DEF Active
    <2>2. life \in {"creating", "up", "down"}
      BY DEF IndInv, Typed
    <2>. QED
      BY <1>3, <2>1, <2>2 DEF Roles
  <1>5. \A q \in Runs \ {r} : /\ Early(q)' <=> Early(q)
                              /\ Late(q)' <=> Late(q)
                              /\ Active(q)' <=> Active(q)
    BY DEF Stays, Early, Late, Active
  <1>6. ASSUME NEW q \in Runs
        PROVE  /\ Early(q)' => Early(q)
               /\ Late(q)' => Late(q)
               /\ Active(q)' => Active(q)
    <2>1. CASE q # r
      BY <1>5, <2>1
    <2>2. CASE q = r /\ run'[r].at = "leave"
      <3>1. ~Active(r)'
        BY <2>2, PlacesAre DEF Active
      <3>. QED
        BY <2>2, <3>1, ApartThen
    <2>3. CASE q = r /\ run'[r].at # "leave"
      <3>1. /\ Early(r) => Early(r)'
            /\ Late(r) => Late(r)'
        BY <2>3
      <3>2. /\ Active(r) <=> (Early(r) \/ Late(r))
            /\ ~(Early(r)' /\ Late(r)')
        BY Apart, ApartThen
      <3>. QED
        BY <2>3, <3>1, <3>2
    <2>. QED
      BY <2>1, <2>2, <2>3
  <1>7. Roles'
    <2>1. ASSUME NEW q \in Runs, NEW t \in Runs, Early(q)', Active(t)'
          PROVE  t = q
      <3>1. Early(q) /\ Active(t)
        BY <1>6, <2>1
      <3>. QED
        BY <3>1, <1>3 DEF Roles
    <2>2. ASSUME NEW q \in Runs
          PROVE  /\ Early(q)' => EarlyRow'
                 /\ Early(q)' => (run'[q].todo # "enter" =>
                                    session'.st # "dns_provision")
                 /\ Late(q)' => LateRow' /\ session'.admin
                 /\ run'[q].admin => session'.admin
                 /\ life' # "up" => run'[q].at = "idle"
      <3>1. CASE q = r
        <4>1. Early(r)' => /\ EarlyRow'
                           /\ run'[r].todo # "enter" =>
                                 session'.st # "dns_provision"
          <5>1. SUFFICES ASSUME Early(r)'
                         PROVE  /\ EarlyRow'
                                /\ run'[r].todo # "enter" =>
                                       session'.st # "dns_provision"
            OBVIOUS
          <5>2. Early(r) /\ Active(r)'
            BY <1>6, <5>1, ApartThen
          <5>3. run'[r].at # "leave"
            BY <5>2, PlacesAre DEF Active
          <5>. QED
            BY <5>2, <5>3
        <4>2. Late(r)' => (LateRow' /\ session'.admin)
          <5>1. Late(r)' => Late(r)
            BY <1>6
          <5>2. Late(r) => session.admin
            BY <1>3 DEF Roles
          <5>. QED
            BY <5>1, <5>2 DEF RowGoes
        <4>3. run'[r].admin => session'.admin
          BY <1>3 DEF Roles, RowGoes
        <4>. QED
          BY <3>1, <1>4, <4>1, <4>2, <4>3
      <3>2. CASE q # r
        <4>1. ~Early(q)
          BY <1>3, <3>2 DEF Roles
        <4>2. Late(q) => Late(r) /\ session.admin
          BY <1>3, <3>2, Apart DEF Roles
        <4>3. run'[q].admin => session'.admin
          BY <1>3, <3>2 DEF Roles, RowGoes, Stays
        <4>. QED
          BY <1>4, <1>5, <3>2, <4>1, <4>2, <4>3 DEF RowGoes
      <3>. QED
        BY <3>1, <3>2
    <2>3. PastRow' => session'.admin
      BY DEF RowGoes
    <2>. QED
      BY <1>4, <2>1, <2>2, <2>3 DEF Roles
  <1>8. ASSUME teardown' = "none" PROVE Progress'
    <2>1. Progress /\ Grows
      BY <1>8 DEF IndInv, KubeGoes, RowGoes, Grows
    <2>2. ASSUME NEW q \in Runs, NEW p \in Places, run'[q].at = p
          PROVE  Reached(Rank[p])'
      <3>1. CASE q = r
        <4>1. run'[r].at # "leave"
          BY <3>1, <2>2, PlacesAre
        <4>. QED
          BY <1>8, <3>1, <2>2, <4>1
      <3>2. CASE q # r
        <4>1. run[q].at = p
          BY <3>2, <2>2 DEF Stays
        <4>2. Reached(Rank[p])
          BY <2>1, <4>1 DEF Progress
        <4>3. Rank[p] \in Nat
          BY RankOnce
        <4>. QED
          BY <2>1, <4>2, <4>3, Rises
      <3>. QED
        BY <3>1, <3>2
    <2>. QED
      BY <1>8, <2>1, <2>2 DEF Progress, RowGoes, KubeGoes
  <1>. QED
    BY <1>1, <1>2, <1>7, <1>8 DEF IndInv

-----------------------------------------------------------------------------
(* What a goroutine writes                                                 *)

Moves(r, p, todo) ==
    /\ run' \in [Runs -> GoRows]
    /\ \A q \in Runs \ {r} : Stays(q)
    /\ run'[r].at = p /\ run'[r].todo = todo
    /\ run'[r].admin = run[r].admin

LEMMA Cancelled ==
    ASSUME NEW row \in GoRows, NEW new, new = [row EXCEPT !.live = FALSE]
    PROVE  /\ new \in GoRows
           /\ new.at = row.at /\ new.todo = row.todo /\ new.admin = row.admin
  BY DEF GoRows

\* A Job was made; the registry may have failed meanwhile.
LEMMA Awaiting ==
    ASSUME NEW row \in GoRows, NEW new,
           \/ new = [row EXCEPT !.todo = "wait"]
           \/ new = [row EXCEPT !.todo = "wait", !.reg = "failed"]
    PROVE  /\ new \in GoRows
           /\ new.at = row.at /\ new.todo = "wait" /\ new.admin = row.admin
  <1>1. CASE new = [row EXCEPT !.todo = "wait"]
    BY <1>1 DEF GoRows
  <1>2. CASE new = [row EXCEPT !.todo = "wait", !.reg = "failed"]
    BY <1>2 DEF GoRows, Registries
  <1>. QED
    BY <1>1, <1>2

LEMMA Goes ==
    ASSUME run \in [Runs -> GoRows], NEW r \in Runs,
           NEW p \in Steps \cup {"idle", "gate", "end", "leave"},
           NEW todo \in {"enter", "work", "wait", "images"},
           Goto(r, p, todo)
    PROVE  Moves(r, p, todo)
  <1>1. run[r] \in GoRows
    OBVIOUS
  <1>2. PICK new : new = [run[r] EXCEPT !.at = p, !.todo = todo]
    OBVIOUS
  <1>3. run' = [run EXCEPT ![r] = new]
    BY <1>2 DEF Goto
  <1>4. /\ new \in GoRows
        /\ new.at = p /\ new.todo = todo /\ new.admin = run[r].admin
    BY <1>1, <1>2 DEF GoRows
  <1>. QED
    BY <1>3, <1>4 DEF Stays, Moves

\* Kubernetes as it was.
LEMMA KubeSame ==
    ASSUME IndInv, UNCHANGED kube
    PROVE  KubeGoes
  <1>1. \A s \in JobSteps : JobFits(s)'
    BY DEF IndInv, JobFits, kube
  <1>2. teardown = "none" => Prepared'
    BY DEF IndInv, Progress, Prepared, kube
  <1>. QED
    BY <1>1, <1>2 DEF IndInv, Typed, KubeGoes, kube

\* What the row says of the chain and of the gate, as r finds it.
RowOf(r) ==
    /\ RowGoes
    /\ Late(r) => LateRow'
    /\ teardown = "none" => RowReached'

LEMMA RowKept ==
    ASSUME IndInv, KubeGoes, NEW r \in Runs,
           session' \in SessionRows, session'.st = session.st,
           session'.failed = session.failed,
           session'.admin = session.admin, session.vtc => session'.vtc
    PROVE  /\ RowOf(r)
           /\ Early(r) => EarlyRow'
  <1>1. RowGoes
    <2>1. PastRow' <=> PastRow
      BY DEF PastRow
    <2>. QED
      BY <2>1 DEF IndInv, Roles, RowGoes
  <1>2. (LateRow' <=> LateRow) /\ (EarlyRow' <=> EarlyRow)
    BY DEF LateRow, EarlyRow
  <1>3. ASSUME teardown = "none" PROVE RowReached'
    <2>1. RowReached /\ Grows
      BY <1>1, <1>3 DEF IndInv, Progress, RowGoes, KubeGoes, Grows
    <2>2. \A s \in Steps : Reached(Rank[s]) => Reached(Rank[s])'
      BY <2>1, Rises, RankOnce, PlacesAre
    <2>3. /\ Reached(19) => Reached(19)'
          /\ Reached(26) => Reached(26)'
      BY <2>1, Rises
    <2>. QED
      BY <2>1, <2>2, <2>3 DEF RowReached
  <1>. QED
    BY <1>1, <1>2, <1>3 DEF IndInv, Roles, RowOf

\* A new status.
LEMMA RowWritten ==
    ASSUME IndInv, KubeGoes, NEW r \in Runs, Active(r),
           session' \in SessionRows,
           session.st = "gone" => session' = session,
           session.st # "gone" =>
             /\ session'.st # "gone"
             /\ session.admin => session'.admin
             /\ session.vtc => session'.vtc
             /\ PastRow' => session'.admin
             /\ Late(r) => session'.st \in Past
             /\ session'.st # "failed"
             /\ teardown = "none" =>
                  \/ session'.st = "awaiting_admin_did" /\ Reached(19)'
                  \/ session'.st = "running" /\ Reached(26)'
                  \/ session'.st \in Steps /\ \A s \in Steps :
                        session'.st = s => Reached(Rank[s])'
    PROVE  RowOf(r)
  <1>1. CASE session.st = "gone"
    <2>1. session' = session
      BY <1>1
    <2>. QED
      BY <2>1, RowKept DEF IndInv, Typed
  <1>2. CASE session.st # "gone"
    <2>1. RowGoes
      BY <1>2 DEF RowGoes
    <2>2. Late(r) => LateRow'
      BY <1>2 DEF LateRow
    <2>3. ASSUME teardown = "none" PROVE RowReached'
      BY <1>2, <2>3, PastIs DEF RowReached
    <2>. QED
      BY <2>1, <2>2, <2>3 DEF RowOf
  <1>. QED
    BY <1>1, <1>2

\* A failure is of the row's step or of the one its goroutine names.
LEMMA RowFailed ==
    ASSUME IndInv, KubeGoes, NEW r \in Runs, Active(r),
           NEW stage \in Steps \cup {""},
           stage = "" => run[r].todo # "enter",
           stage # "" => stage = run[r].at,
           session' \in SessionRows,
           session.st = "gone" => session' = session,
           session.st # "gone" =>
             /\ session'.st = "failed"
             /\ session'.failed = IF session.st = "failed" THEN session.failed
                                  ELSE IF stage = "" THEN session.st ELSE stage
             /\ session'.admin = session.admin /\ session'.vtc = session.vtc
    PROVE  RowOf(r)
  <1>1. CASE session.st = "gone"
    <2>1. session' = session
      BY <1>1
    <2>. QED
      BY <2>1, RowKept DEF IndInv, Typed
  <1>2. CASE session.st # "gone"
    <2>1. Early(r) \/ Late(r)
      BY Apart
    <2>2. stage \in Past => Late(r)
      <3>1. stage \in Past => stage \in LatePlaces /\ stage = run[r].at
        BY PastIs
      <3>. QED
        BY <3>1 DEF Late
    <2>3. stage # "" /\ Late(r) => stage \in Past
      BY PastIs DEF Late
    <2>4. RowGoes
      <3>1. PastRow' => PastRow \/ Late(r)
        BY <1>2, <2>2, PastIs DEF PastRow
      <3>2. PastRow \/ Late(r) => session.admin
        BY DEF IndInv, Roles
      <3>. QED
        BY <1>2, <3>1, <3>2 DEF RowGoes
    <2>5. Late(r) => LateRow'
      <3>1. Late(r) => LateRow
        BY DEF IndInv, Roles
      <3>2. Late(r) => session'.failed \in Past \cup {"deleting"}
        <4>1. SUFFICES ASSUME Late(r)
                       PROVE  session'.failed \in Past \cup {"deleting"}
          OBVIOUS
        <4>2. CASE session.st = "failed"
          BY <1>2, <3>1, <4>1, <4>2, PastIs DEF LateRow
        <4>3. CASE session.st # "failed"
          <5>1. session.st \in Past \cup {"deleting"}
            BY <1>2, <3>1, <4>1, <4>3 DEF LateRow
          <5>. QED
            BY <1>2, <2>3, <4>1, <4>3, <5>1
        <4>. QED
          BY <4>2, <4>3
      <3>. QED
        BY <1>2, <3>2 DEF LateRow
    <2>6. ASSUME teardown = "none" PROVE RowReached'
      <3>1. Progress /\ Grows
        BY <2>4, <2>6 DEF IndInv, RowGoes, KubeGoes, Grows
      <3>2. ASSUME NEW s \in Steps, session'.failed = s
            PROVE  Reached(Rank[s])'
        <4>1. s \in Places /\ s # ""
          BY PlacesAre, PastIs
        <4>2. \/ session.st = "failed" /\ session.failed = s
              \/ session.st = s
              \/ run[r].at = s
          BY <1>2, <3>2, <4>1
        <4>3. Reached(Rank[s])
          BY <3>1, <4>1, <4>2 DEF Progress, RowReached
        <4>4. Rank[s] \in Nat
          BY <4>1, RankOnce
        <4>. QED
          BY <3>1, <4>3, <4>4, Rises
      <3>. QED
        BY <1>2, <3>2, PastIs DEF RowReached
    <2>. QED
      BY <2>4, <2>5, <2>6 DEF RowOf
  <1>. QED
    BY <1>1, <1>2

LEMMA FailedAtWrites ==
    ASSUME IndInv, NEW r \in Runs, Active(r), NEW stage \in Steps \cup {""},
           stage = "" => run[r].todo # "enter", FailedAt(stage)
    PROVE  /\ session' \in SessionRows
           /\ session.st = "gone" => session' = session
           /\ session.st # "gone" =>
                /\ session'.st = "failed"
                /\ session'.failed =
                       IF session.st = "failed" THEN session.failed
                       ELSE IF stage = "" THEN session.st ELSE stage
                /\ session'.admin = session.admin
                /\ session'.vtc = session.vtc
  <1>1. session \in SessionRows
    BY DEF IndInv, Typed
  <1>2. stage = "" /\ session.st # "gone" /\ session.st # "failed" =>
            session.st \in Steps \cup {"running", "deleting"}
    <2>1. SUFFICES ASSUME run[r].todo # "enter", session.st # "gone",
                          session.st # "failed"
                   PROVE  session.st \in Steps \cup {"running", "deleting"}
      OBVIOUS
    <2>2. CASE Early(r)
      <3>1. EarlyRow /\ session.st # "dns_provision"
        BY <2>1, <2>2 DEF IndInv, Roles
      <3>. QED
        BY <2>1, <3>1 DEF EarlyRow
    <2>3. CASE Late(r)
      <3>1. LateRow
        BY <2>3 DEF IndInv, Roles
      <3>. QED
        BY <2>1, <3>1, PastIs, StepsAre DEF LateRow
    <2>. QED
      BY <2>2, <2>3, Apart
  <1>. DEFINE f == IF session.st = "failed" THEN session.failed
                   ELSE IF stage = "" THEN session.st ELSE stage
  <1>3. session.st # "gone" =>
            f \in Steps \cup {"", "running", "deleting"}
    BY <1>1, <1>2 DEF SessionRows
  <1>4. session' = IF session.st = "gone" THEN session
                   ELSE [session EXCEPT !.st = "failed", !.failed = f]
    BY <1>1 DEF FailedAt, Row, SessionRows
  <1>. HIDE DEF f
  <1>5. session.st # "gone" =>
          /\ session' \in SessionRows
          /\ session'.st = "failed" /\ session'.failed = f
          /\ session'.admin = session.admin /\ session'.vtc = session.vtc
    BY <1>1, <1>3, <1>4 DEF SessionRows, Statuses
  <1>. QED
    BY <1>1, <1>4, <1>5 DEF f

-----------------------------------------------------------------------------
(* The steps of a goroutine                                                *)

\* The rest of the state; a trouble is spent or not.
Around ==
    /\ kind' = kind /\ cancels' = cancels
    /\ life' = life /\ teardown' = teardown
    /\ spent' = spent \/ Trouble

LEMMA AroundTyped ==
    ASSUME IndInv, Around
    PROVE  /\ spent' \in 0..MaxTroubles
           /\ cancels' \in Launched \cup {None}
  BY SetupAssumption DEF IndInv, Typed, Around, Trouble

LEMMA GivesUp ==
    ASSUME IndInv, NEW r \in Runs, Active(r), Leave(r), Around,
           KubeGoes, RowOf(r)
    PROVE  IndInv'
  <1>1. Moves(r, "leave", "enter")
    BY Goes DEF IndInv, Typed, Leave
  <1>. QED
    BY <1>1, AroundTyped, DriveStep DEF Around, RowOf, Moves

LEMMA GoesOn ==
    ASSUME IndInv, NEW r \in Runs, NEW s \in Places, run[r].at = s,
           NEW p \in Places, NEW todo \in {"enter", "work", "wait", "images"},
           Moves(r, p, todo), Around, KubeGoes, RowOf(r),
           s \in EarlyPlaces => p \in EarlyPlaces,
           s \in LatePlaces => p \in LatePlaces,
           Early(r) => /\ EarlyRow'
                       /\ todo # "enter" => session'.st # "dns_provision",
           teardown = "none" => Reached(Rank[p])'
    PROVE  IndInv'
  <1>1. Active(r) /\ (Early(r) => Early(r)') /\ (Late(r) => Late(r)')
    BY DEF Moves, Active, Early, Late
  <1>. QED
    BY <1>1, AroundTyped, DriveStep DEF Around, RowOf, Moves

LEMMA EnterKeeps ==
    ASSUME IndInv, NEW r \in Runs, EnterStep(r)
    PROVE  IndInv'
  <1>. DEFINE s == run[r].at
  <1>1. /\ s \in Steps /\ s \in Places /\ Active(r)
        /\ Around /\ KubeGoes
        /\ Moves(r, s, "work")
    BY KubeSame, PlacesAre, Goes
       DEF EnterStep, Active, Around, IndInv, Typed
  <1>2. /\ session' \in SessionRows
        /\ session.st = "gone" => session' = session
        /\ session.st # "gone" =>
             /\ session'.st = s /\ session'.vtc = session.vtc
             /\ session.admin => session'.admin
    <2>1. session \in SessionRows
      BY DEF IndInv, Typed
    <2>2. s \in Statuses
      BY <1>1 DEF Statuses
    <2>. QED
      BY <2>1, <2>2 DEF EnterStep, Row, SessionRows
  <1>3. s \in EarlyPlaces \/ s \in LatePlaces
    BY <1>1, Sides
  <1>4. s \in LatePlaces => session.admin
    BY DEF IndInv, Roles, Late
  <1>5. ASSUME teardown = "none", session.st # "gone", NEW p \in Steps, s = p
        PROVE  Reached(Rank[p])'
    <2>1. Reached(Rank[p])
      BY <1>1, <1>5 DEF IndInv, Progress
    <2>2. Grows
      BY <1>1, <1>2, <1>5 DEF KubeGoes, Grows
    <2>. QED
      BY <1>1, <1>5, <2>1, <2>2, Rises, RankOnce
  <1>6. RowOf(r)
    <2>1. session.st # "gone" => (PastRow' => session'.admin)
      BY <1>1, <1>2, <1>4, PastIs DEF PastRow
    <2>2. Late(r) => s \in Past
      BY <1>1, PastIs DEF Late
    <2>. QED
      BY <1>1, <1>2, <1>5, <2>1, <2>2, PastIs, RowWritten
  <1>7. Early(r) => EarlyRow' /\ session'.st # "dns_provision"
    <2>1. Early(r) => Rank[s] < 18
      <3>1. s # "gate" /\ "gate" \in Places
        BY <1>1, PlacesAre
      <3>2. Rank[s] \in 1..26 /\ Rank[s] # 18
        BY <1>1, <3>1, RankOnce, Ranks
      <3>. QED
        BY <3>2, Sides DEF Early
    <2>. QED
      BY <1>1, <1>2, <2>1, PastIs DEF EarlyRow
  <1>8. teardown = "none" => session.st # "gone"
    BY DEF IndInv, Progress
  <1>. QED
    BY <1>1, <1>5, <1>6, <1>7, <1>8, GoesOn

LEMMA FailsKeeps ==
    ASSUME IndInv, NEW r \in Runs, run[r].at \in Steps,
           run[r].todo # "enter", Fails(r), Around, KubeGoes
    PROVE  IndInv'
  <1>1. Active(r)
    BY PlacesAre DEF Active
  <1>. DEFINE stage == IF run[r].of = "recover" THEN run[r].at ELSE ""
  <1>2. /\ stage \in Steps \cup {""}
        /\ stage # "" => stage = run[r].at
        /\ FailedAt(stage) /\ Leave(r)
    BY DEF Fails
  <1>. HIDE DEF stage
  <1>3. RowOf(r)
    BY <1>1, <1>2, FailedAtWrites, RowFailed
  <1>. QED
    BY <1>1, <1>2, <1>3, GivesUp

LEMMA SessionSame ==
    ASSUME IndInv, KubeGoes, NEW r \in Runs, UNCHANGED session
    PROVE  /\ RowOf(r)
           /\ Early(r) => EarlyRow'
           /\ Early(r) /\ run[r].todo # "enter" =>
                  session'.st # "dns_provision"
  BY RowKept DEF IndInv, Typed, Roles

LEMMA StoppedKeeps ==
    ASSUME IndInv, NEW r \in Runs, Stopped(r)
    PROVE  IndInv'
  <1>1. Active(r) /\ Leave(r) /\ Around /\ KubeGoes /\ UNCHANGED session
    BY KubeSame, PlacesAre DEF Stopped, Active, Around
  <1>. QED
    BY <1>1, SessionSame, GivesUp

\* A goroutine whose step did its work enters the next.
LEMMA NextKeeps ==
    ASSUME IndInv, NEW r \in Runs, run[r].at \in Steps,
           Goto(r, After(run[r].at), "enter"), Around, KubeGoes, RowOf(r),
           Early(r) => EarlyRow',
           run[r].at \in JobSteps => ran'[run[r].at] > 0,
           Step[run[r].at].does = "deploy" =>
               deploy'[Component(run[r].at)] # "none",
           teardown = "none" /\ run[r].at = "step_vtc_setup" => session'.vtc
    PROVE  IndInv'
  <1>1. PICK s \in Steps : s = run[r].at
    OBVIOUS
  <1>2. PICK p \in Places : p = After(s)
    BY Onward
  <1>3. /\ s \in EarlyPlaces => p \in EarlyPlaces
        /\ s \in LatePlaces => p \in LatePlaces
    BY <1>2, SameSide
  <1>4. ASSUME teardown = "none" PROVE Reached(Rank[p])'
    <2>1. Reached(Rank[s]) /\ Grows
      BY <1>1, <1>4, PlacesAre
         DEF IndInv, Progress, RowOf, RowGoes, KubeGoes, Grows
    <2>. QED
      BY <1>1, <1>2, <1>4, <2>1, StepDone
  <1>5. s \in Places /\ Moves(r, p, "enter")
    BY <1>1, <1>2, PlacesAre, Goes DEF IndInv, Typed
  <1>. QED
    BY <1>1, <1>3, <1>4, <1>5, GoesOn

LEMMA CallKeeps ==
    ASSUME IndInv, NEW r \in Runs, CallStep(r)
    PROVE  IndInv'
  <1>1. /\ run[r].at \in Steps /\ run[r].todo = "work"
        /\ run[r].at \notin JobSteps
        /\ run[r].at # "step_vtc_setup"
        /\ Step[run[r].at].does # "deploy"
        /\ Around /\ KubeGoes
    BY KubeSame, LaterJobTable DEF CallStep, Around, JobSteps
  <1>2. CASE Fails(r)
    BY <1>1, <1>2, FailsKeeps
  <1>3. CASE Goto(r, After(run[r].at), "enter") /\ UNCHANGED session
    BY <1>1, <1>3, SessionSame, NextKeeps
  <1>. QED
    BY <1>2, <1>3 DEF CallStep

LEMMA WaitKeeps ==
    ASSUME IndInv, NEW r \in Runs, NEW s \in Steps, run[r].at = s,
           NEW todo \in {"work", "wait"}, Moves(r, s, todo),
           run[r].todo # "enter", Around, KubeGoes,
           RowOf(r), Early(r) => EarlyRow',
           session'.st = session.st
    PROVE  IndInv'
  <1>1. s \in Places
    BY PlacesAre
  <1>2. teardown = "none" => Reached(Rank[s])'
    <2>1. SUFFICES ASSUME teardown = "none" PROVE Reached(Rank[s])'
      OBVIOUS
    <2>2. Reached(Rank[s]) /\ Grows
      BY <1>1, <2>1 DEF IndInv, Progress, RowOf, RowGoes, KubeGoes, Grows
    <2>. QED
      BY <1>1, <2>2, Rises, RankOnce
  <1>3. Early(r) => session'.st # "dns_provision"
    BY DEF IndInv, Roles
  <1>. QED
    BY <1>1, <1>2, <1>3, GoesOn

LEMMA CreateJobKeeps ==
    ASSUME IndInv, NEW r \in Runs, CreateJob(r)
    PROVE  IndInv'
  <1>1. PICK s \in JobSteps : s = run[r].at
    BY DEF CreateJob
  <1>2. /\ s \in Steps /\ run[r].todo = "work"
        /\ ran' = ran /\ deploy' = deploy
        /\ job' = [job EXCEPT ![s] = IF @ = "none" THEN "active" ELSE @]
    BY <1>1 DEF CreateJob, JobSteps
  <1>3. Around
    BY DEF CreateJob, PrepareRegistry, Around
  <1>4. KubeGoes
    <2>1. job' \in [JobSteps -> {"none", "active", "done", "failed"}]
      BY <1>2 DEF IndInv, Typed
    <2>2. \A j \in JobSteps : JobFits(j)'
      BY <1>2 DEF IndInv, Typed, JobFits
    <2>3. teardown = "none" => Prepared'
      BY <1>2 DEF IndInv, Progress, Prepared
    <2>. QED
      BY <1>2, <2>1, <2>2, <2>3 DEF IndInv, Typed, KubeGoes
  <1>5. Moves(r, s, "wait")
    <2>1. run \in [Runs -> GoRows]
      BY DEF IndInv, Typed
    <2>2. PICK new : /\ run' = [run EXCEPT ![r] = new]
                     /\ \/ new = [run[r] EXCEPT !.todo = "wait"]
                        \/ new = [run[r] EXCEPT !.todo = "wait",
                                               !.reg = "failed"]
      <3>1. CASE run' = [run EXCEPT ![r].todo = "wait"]
        BY <3>1
      <3>2. CASE run' = [run EXCEPT ![r].todo = "wait", ![r].reg = "failed"]
        BY <3>2
      <3>. QED
        BY <3>1, <3>2 DEF CreateJob, PrepareRegistry
    <2>3. /\ new \in GoRows /\ new.at = s /\ new.todo = "wait"
          /\ new.admin = run[r].admin
      BY <1>1, <2>1, <2>2, Awaiting
    <2>. QED
      BY <2>1, <2>2, <2>3 DEF Moves, Stays
  <1>6. /\ session' \in SessionRows /\ session'.st = session.st
        /\ session'.failed = session.failed
        /\ session'.admin = session.admin /\ session'.vtc = session.vtc
    <2>1. session \in SessionRows
      BY DEF IndInv, Typed
    <2>2. \/ session' = session
          \/ session' = [session EXCEPT !.reg = "failed"]
      BY DEF CreateJob, PrepareRegistry, Row
    <2>. QED
      BY <2>1, <2>2 DEF SessionRows, Registries
  <1>7. RowOf(r) /\ (Early(r) => EarlyRow')
    BY <1>4, <1>6, RowKept
  <1>. QED
    BY <1>1, <1>2, <1>3, <1>4, <1>5, <1>6, <1>7, WaitKeeps

LEMMA AwaitJobKeeps ==
    ASSUME IndInv, NEW r \in Runs, AwaitJob(r)
    PROVE  IndInv'
  <1>1. /\ run[r].at \in JobSteps /\ run[r].at \in Steps
        /\ run[r].todo = "wait" /\ Around /\ KubeGoes
    BY KubeSame DEF AwaitJob, Around, JobSteps
  <1>2. CASE Fails(r)
    BY <1>1, <1>2, FailsKeeps
  <1>3. CASE ~Fails(r)
    <2>1. /\ job[run[r].at] = "done"
          /\ Goto(r, After(run[r].at), "enter")
          /\ IF run[r].at = "step_vtc_setup"
             THEN Row([session EXCEPT !.vtc = TRUE])
             ELSE UNCHANGED session
      BY <1>3 DEF AwaitJob
    <2>2. ran'[run[r].at] > 0
      BY <1>1, <2>1 DEF IndInv, JobFits, AwaitJob, kube
    <2>3. session \in SessionRows
      BY DEF IndInv, Typed
    <2>4. /\ session' \in SessionRows /\ session'.st = session.st
          /\ session'.failed = session.failed
          /\ session'.admin = session.admin /\ (session.vtc => session'.vtc)
      BY <2>1, <2>3 DEF Row, SessionRows
    <2>5. teardown = "none" /\ run[r].at = "step_vtc_setup" => session'.vtc
      BY <2>1, <2>3 DEF Row, SessionRows, IndInv, Progress
    <2>6. RowOf(r) /\ (Early(r) => EarlyRow')
      BY <1>1, <2>4, RowKept
    <2>7. Step[run[r].at].does # "deploy"
      BY <1>1, Daemons
    <2>. QED
      BY <1>1, <2>1, <2>2, <2>5, <2>6, <2>7, NextKeeps
  <1>. QED
    BY <1>2, <1>3

\* A Deployment that was made or whose Pods were changed.
LEMMA KubeDeploys ==
    ASSUME IndInv, job' = job, ran' = ran,
           deploy' \in [Components -> {"none", "starting", "ready", "stale"}],
           \A c \in Components : deploy[c] # "none" => deploy'[c] # "none",
           teardown = "none" =>
             \A c \in Components : deploy'[c] # "none" =>
                 deploy[c] # "none" \/ Reached(Rank[DeployOf[c]])
    PROVE  KubeGoes
  <1>1. \A j \in JobSteps : JobFits(j)'
    BY DEF IndInv, JobFits
  <1>2. ASSUME teardown = "none", NEW c \in Components, deploy'[c] # "none",
               NEW s \in Prepares(c)
        PROVE  ran'[s] > 0
    <2>1. CASE deploy[c] # "none"
      BY <1>2, <2>1 DEF IndInv, Progress, Prepared
    <2>2. CASE Reached(Rank[DeployOf[c]])
      <3>1. s \in JobSteps /\ Rank[s] < Rank[DeployOf[c]]
        BY <1>2, PreparedFirst DEF Prepares
      <3>. QED
        BY <2>2, <3>1 DEF Reached
    <2>. QED
      BY <1>2, <2>1, <2>2
  <1>. QED
    BY <1>1, <1>2 DEF IndInv, Typed, KubeGoes, Prepared

LEMMA CreateDaemonKeeps ==
    ASSUME IndInv, NEW r \in Runs, CreateDaemon(r)
    PROVE  IndInv'
  <1>1. PICK s \in Steps : s = run[r].at
    BY DEF CreateDaemon
  <1>. DEFINE d == Component(s)
  <1>2. d \in Components /\ DeployOf[d] = s
    BY <1>1, Daemons DEF CreateDaemon
  <1>3. /\ job' = job /\ ran' = ran
        /\ deploy' = [deploy EXCEPT ![d] = IF @ = "none" THEN "starting" ELSE @]
        /\ run[r].todo = "work" /\ UNCHANGED session /\ Around
        /\ Goto(r, s, "wait")
    BY <1>1 DEF CreateDaemon, Around
  <1>. HIDE DEF d
  <1>4. deploy \in [Components -> {"none", "starting", "ready", "stale"}]
    BY DEF IndInv, Typed
  <1>5. teardown = "none" => Reached(Rank[s])
    BY <1>1, PlacesAre DEF IndInv, Progress
  <1>6. KubeGoes
    BY <1>2, <1>3, <1>4, <1>5, KubeDeploys
  <1>7. Moves(r, s, "wait")
    BY <1>3, Goes DEF IndInv, Typed
  <1>. QED
    BY <1>1, <1>3, <1>6, <1>7, SessionSame, WaitKeeps

LEMMA AwaitDaemonKeeps ==
    ASSUME IndInv, NEW r \in Runs, AwaitDaemon(r)
    PROVE  IndInv'
  <1>1. /\ run[r].at \in Steps /\ run[r].todo = "wait"
        /\ Step[run[r].at].does = "deploy"
        /\ Around /\ KubeGoes /\ UNCHANGED kube
    BY KubeSame DEF AwaitDaemon, Around
  <1>2. CASE Fails(r)
    BY <1>1, <1>2, FailsKeeps
  <1>3. CASE ~Fails(r)
    <2>1. /\ deploy[Component(run[r].at)] \in {"ready", "stale"}
          /\ Goto(r, After(run[r].at), "enter")
          /\ UNCHANGED session
      BY <1>3 DEF AwaitDaemon
    <2>2. deploy'[Component(run[r].at)] # "none"
      BY <1>1, <2>1 DEF kube
    <2>3. run[r].at \notin JobSteps /\ run[r].at # "step_vtc_setup"
      BY <1>1, Daemons, LaterJobTable
    <2>. QED
      BY <1>1, <2>1, <2>2, <2>3, SessionSame, NextKeeps
  <1>. QED
    BY <1>2, <1>3

LEMMA ReconcileKeeps ==
    ASSUME IndInv, NEW r \in Runs, ReconcileImages(r)
    PROVE  IndInv'
  <1>1. PICK s \in Steps : s = run[r].at
    BY DEF ReconcileImages
  <1>2. /\ job' = job /\ ran' = ran /\ run[r].todo = "images"
        /\ deploy' = [c \in Components |->
                        IF Position(DeployOf[c]) <= Position(run[r].at)
                           /\ deploy[c] = "ready"
                        THEN "stale" ELSE deploy[c]]
        /\ Around
    BY DEF ReconcileImages, Around
  <1>3. deploy \in [Components -> {"none", "starting", "ready", "stale"}]
    BY DEF IndInv, Typed
  <1>4. /\ deploy' \in [Components -> {"none", "starting", "ready", "stale"}]
        /\ \A c \in Components : deploy'[c] # "none" <=> deploy[c] # "none"
    BY <1>2, <1>3
  <1>5. KubeGoes
    BY <1>2, <1>4, KubeDeploys
  <1>6. CASE Fails(r)
    BY <1>1, <1>2, <1>5, <1>6, FailsKeeps
  <1>7. CASE Goto(r, run[r].at, "work") /\ UNCHANGED session
    <2>1. Moves(r, s, "work")
      BY <1>1, <1>7, Goes DEF IndInv, Typed
    <2>. QED
      BY <1>1, <1>2, <1>5, <1>7, <2>1, SessionSame, WaitKeeps
  <1>. QED
    BY <1>6, <1>7 DEF ReconcileImages

\* Nothing is done at the gate.
LEMMA GateReached ==
    ASSUME Reached(18)
    PROVE  Reached(19)
  <1>1. \A s \in Steps : Rank[s] < 19 => Rank[s] < 18
    <2>1. SUFFICES ASSUME NEW s \in Steps, Rank[s] = 18 PROVE FALSE
      BY PlacesAre, RankOnce
    <2>2. s \in Places /\ s # "gate" /\ "gate" \in Places
      BY PlacesAre
    <2>. QED
      BY <2>1, <2>2, RankOnce, Ranks
  <1>2. /\ \A s \in JobSteps : s \in Steps
        /\ \A c \in Components : DeployOf[c] \in Steps
    BY Daemons DEF JobSteps
  <1>. QED
    BY <1>1, <1>2 DEF Reached

LEMMA Stutters ==
    ASSUME IndInv, UNCHANGED vars
    PROVE  IndInv'
  BY DEF IndInv, Typed, JobFits, Roles, Early, Late, Active, EarlyRow, LateRow,
         PastRow, Progress, RowReached, Prepared, Reached, vars, kube

LEMMA GateKeeps ==
    ASSUME IndInv, NEW r \in Runs, Gate(r)
    PROVE  IndInv'
  <1>1. /\ run[r].at = "gate" /\ Active(r) /\ Early(r) /\ ~Late(r)
        /\ Around /\ KubeGoes
    <2>1. "gate" \in Places /\ Rank["gate"] = 18
      BY PlacesAre, Ranks
    <2>2. "gate" \in EarlyPlaces /\ "gate" \notin LatePlaces
      BY <2>1 DEF EarlyPlaces, LatePlaces
    <2>. QED
      BY <2>1, <2>2, KubeSame DEF Gate, Active, Early, Late, Around
  <1>2. EarlyRow /\ ~PastRow
    BY <1>1, RowsApart DEF IndInv, Roles
  <1>3. session \in SessionRows
    BY DEF IndInv, Typed
  <1>4. ASSUME teardown = "none" PROVE Reached(19) /\ session.st # "gone"
    <2>1. Reached(18) /\ session.st # "gone"
      BY <1>1, <1>4, PlacesAre, Ranks DEF IndInv, Progress
    <2>. QED
      BY <2>1, GateReached
  <1>5. CASE /\ ~run[r].admin
             /\ Status("awaiting_admin_did") /\ Leave(r)
    <2>1. /\ session' \in SessionRows
          /\ session.st = "gone" => session' = session
          /\ session.st # "gone" =>
               /\ session'.st = "awaiting_admin_did"
               /\ session'.vtc = session.vtc /\ session'.admin = session.admin
      BY <1>3, <1>5 DEF Status, Row, SessionRows, Statuses
    <2>2. session.st # "gone" => ~PastRow'
      BY <2>1, PastIs DEF PastRow
    <2>3. teardown = "none" => Reached(19)'
      BY <1>1, <1>4, <2>1, Rises DEF KubeGoes, Grows
    <2>4. RowOf(r)
      BY <1>1, <2>1, <2>2, <2>3, RowWritten
    <2>. QED
      BY <1>1, <1>5, <2>4, GivesUp
  <1>6. CASE /\ run[r].admin
             /\ Status("step_import_admin_did") /\ Leave(r)
    <2>1. "step_import_admin_did" \in Steps
          /\ Rank["step_import_admin_did"] = 19
      BY StepsAre, Ranks
    <2>2. /\ session' \in SessionRows
          /\ session.st = "gone" => session' = session
          /\ session.st # "gone" =>
               /\ session'.st = "step_import_admin_did"
               /\ session'.vtc = session.vtc /\ session'.admin = session.admin
      BY <1>3, <1>6, <2>1 DEF Status, Row, SessionRows, Statuses
    <2>3. session.admin
      BY <1>6 DEF IndInv, Roles
    <2>4. teardown = "none" => Reached(19)'
      BY <1>1, <1>4, <2>2, Rises DEF KubeGoes, Grows
    <2>5. RowOf(r)
      BY <1>1, <2>1, <2>2, <2>3, <2>4, RowWritten
    <2>. QED
      BY <1>1, <1>6, <2>5, GivesUp
  <1>7. CASE /\ run' = [run EXCEPT ![r].at = "leave", ![r].todo = "enter",
                                   !["worker"] = Kicked]
             /\ UNCHANGED session
    <2>1. Kicked = run["worker"]
      <3>1. session.st \notin Resumable
        BY <1>2, PastIs DEF PastRow, Resumable, ResumePostGate
      <3>. QED
        BY <3>1 DEF Kicked
    <2>2. run \in [Runs -> GoRows] /\ "worker" \in Runs
      BY DEF IndInv, Typed, Runs
    <2>3. CASE r = "worker"
      <3>1. run' = run
        BY <1>7, <2>1, <2>2, <2>3
      <3>. QED
        BY <3>1, <1>7, Stutters DEF Gate, vars
    <2>4. CASE r # "worker"
      <3>1. Moves(r, "leave", "enter")
        BY <1>7, <2>1, <2>2, <2>4 DEF Moves, GoRows, Stays
      <3>. QED
        BY <1>1, <1>7, <3>1, SessionSame, AroundTyped, DriveStep
           DEF Around, RowOf, Moves
    <2>. QED
      BY <2>3, <2>4
  <1>. QED
    BY <1>5, <1>6, <1>7 DEF Gate

LEMMA AtRegistry ==
    /\ "step_trust_registry" \in Steps /\ "step_trust_registry" \in LatePlaces
    /\ "step_trust_registry" \in Past
    /\ "end" \in Places /\ "end" \in LatePlaces
    /\ After("step_trust_registry") = "end"
    /\ "step_trust_registry" \notin JobSteps
    /\ Step["step_trust_registry"].does # "deploy"
  <1>1. /\ "step_trust_registry" \in Steps /\ "step_trust_registry" \in Past
        /\ "step_trust_registry" \in LatePlaces
        /\ "end" \in Places /\ "end" \in LatePlaces
    BY StepsAre, LatePlacesAre, PastIs, PlacesAre
  <1>2. /\ "step_trust_registry" \notin JobSteps
        /\ Step["step_trust_registry"].does # "deploy"
    BY OtherTable DEF JobSteps
  <1>3. After("step_trust_registry") = "end"
    <2>1. /\ After("step_trust_registry") \in Places
          /\ Rank[After("step_trust_registry")] = 26
      BY <1>1, Onward, Ranks
    <2>. QED
      BY <1>1, <2>1, RankOnce, Ranks
  <1>. QED
    BY <1>1, <1>2, <1>3

LEMMA EnterRegistryKeeps ==
    ASSUME IndInv, NEW r \in Runs, EnterRegistry(r)
    PROVE  IndInv'
  <1>1. /\ run[r].at = "step_trust_registry" /\ Active(r) /\ Late(r)
        /\ ~Early(r) /\ Around /\ KubeGoes
    BY KubeSame, AtRegistry, PlacesAre, Sides
       DEF EnterRegistry, Active, Late, Early, Around
  <1>2. CASE Goto(r, "end", "enter") /\ UNCHANGED session
    BY <1>1, <1>2, AtRegistry, SessionSame, NextKeeps
  <1>3. CASE FailedAt("step_trust_registry") /\ Leave(r)
    <2>1. "step_trust_registry" # ""
      OBVIOUS
    <2>2. RowOf(r)
      BY <1>1, <1>3, <2>1, AtRegistry, FailedAtWrites, RowFailed
    <2>. QED
      BY <1>1, <1>3, <2>2, GivesUp
  <1>4. CASE /\ Status("step_trust_registry")
             /\ Goto(r, "step_trust_registry", "work")
    <2>1. session \in SessionRows
      BY DEF IndInv, Typed
    <2>2. /\ session' \in SessionRows
          /\ session.st = "gone" => session' = session
          /\ session.st # "gone" =>
               /\ session'.st = "step_trust_registry"
               /\ session'.vtc = session.vtc /\ session'.admin = session.admin
      BY <1>4, <2>1, AtRegistry DEF Status, Row, SessionRows, Statuses
    <2>3. session.admin
      BY <1>1 DEF IndInv, Roles
    <2>4. ASSUME teardown = "none"
          PROVE  /\ Reached(Rank["step_trust_registry"])'
                 /\ session.st # "gone"
      <3>1. Reached(Rank["step_trust_registry"]) /\ session.st # "gone"
        BY <1>1, <2>4, AtRegistry, PlacesAre DEF IndInv, Progress
      <3>. QED
        BY <1>1, <2>2, <3>1, Rises, Ranks DEF KubeGoes, Grows
    <2>5. RowOf(r)
      BY <1>1, <2>2, <2>3, <2>4, AtRegistry, PastIs, RowWritten
    <2>6. Moves(r, "step_trust_registry", "work")
      BY <1>4, AtRegistry, Goes DEF IndInv, Typed
    <2>. QED
      BY <1>1, <2>4, <2>5, <2>6, AtRegistry, PlacesAre, Sides, GoesOn
  <1>. QED
    BY <1>2, <1>3, <1>4 DEF EnterRegistry

LEMMA EnableRegistryKeeps ==
    ASSUME IndInv, NEW r \in Runs, EnableRegistry(r)
    PROVE  IndInv'
  <1>1. /\ run[r].at = "step_trust_registry" /\ Active(r) /\ Late(r)
        /\ ~Early(r) /\ Around /\ KubeGoes
    BY KubeSame, AtRegistry, PlacesAre, Sides
       DEF EnableRegistry, Active, Late, Early, Around
  <1>2. session \in SessionRows
    BY DEF IndInv, Typed
  <1>3. CASE /\ Row([session EXCEPT !.reg = "active"])
             /\ Goto(r, "end", "enter")
    <2>1. /\ session' \in SessionRows /\ session'.st = session.st
          /\ session'.failed = session.failed
          /\ session'.admin = session.admin /\ session'.vtc = session.vtc
      BY <1>2, <1>3 DEF Row, SessionRows, Registries
    <2>2. RowOf(r)
      BY <1>1, <2>1, RowKept
    <2>. QED
      BY <1>1, <1>3, <2>2, AtRegistry, NextKeeps
  <1>4. CASE /\ Row([session EXCEPT !.reg = "failed", !.st = "failed",
                        !.failed = IF session.st = "failed" THEN @
                                   ELSE "step_trust_registry"])
             /\ Leave(r)
    <2>1. /\ session' \in SessionRows
          /\ session.st = "gone" => session' = session
          /\ session.st # "gone" =>
               /\ session'.st = "failed"
               /\ session'.failed =
                      IF session.st = "failed" THEN session.failed
                      ELSE "step_trust_registry"
               /\ session'.admin = session.admin /\ session'.vtc = session.vtc
      BY <1>2, <1>4, AtRegistry DEF Row, SessionRows, Statuses, Registries
    <2>2. "step_trust_registry" # ""
      OBVIOUS
    <2>3. RowOf(r)
      BY <1>1, <2>1, <2>2, AtRegistry, RowFailed
    <2>. QED
      BY <1>1, <1>4, <2>3, GivesUp
  <1>. QED
    BY <1>3, <1>4 DEF EnableRegistry

LEMMA FinishKeeps ==
    ASSUME IndInv, NEW r \in Runs, Finish(r)
    PROVE  IndInv'
  <1>1. /\ run[r].at = "end" /\ Active(r) /\ Late(r)
        /\ Around /\ KubeGoes /\ Leave(r)
    BY KubeSame, AtRegistry DEF Finish, Active, Late, Around
  <1>2. session \in SessionRows
    BY DEF IndInv, Typed
  <1>3. /\ session' \in SessionRows
        /\ session.st = "gone" => session' = session
        /\ session.st # "gone" =>
             /\ session'.st = "running"
             /\ session'.vtc = session.vtc /\ session'.admin = session.admin
    <2>. DEFINE f == IF run[r].of = "recover" THEN "" ELSE session.failed
    <2>1. f \in Steps \cup {"", "running", "deleting"}
      BY <1>2 DEF SessionRows
    <2>2. session' = IF session.st = "gone" THEN session
                     ELSE [session EXCEPT !.st = "running", !.failed = f]
      BY <1>2 DEF Finish, Row, SessionRows
    <2>. HIDE DEF f
    <2>. QED
      BY <1>2, <2>1, <2>2 DEF SessionRows, Statuses
  <1>4. session.admin
    BY <1>1 DEF IndInv, Roles
  <1>5. ASSUME teardown = "none" PROVE Reached(26)' /\ session.st # "gone"
    <2>1. Reached(26) /\ session.st # "gone"
      BY <1>1, <1>5, AtRegistry, Ranks DEF IndInv, Progress
    <2>. QED
      BY <1>1, <1>3, <2>1, Rises DEF KubeGoes, Grows
  <1>6. RowOf(r)
    BY <1>1, <1>3, <1>4, <1>5, PastIs, RowWritten
  <1>. QED
    BY <1>1, <1>6, GivesUp

-----------------------------------------------------------------------------
(* Goroutines that begin or end                                            *)

\* Goroutines that return, are cancelled or end with their process.
LEMMA Quiet ==
    ASSUME IndInv, run' \in [Runs -> GoRows],
           \A q \in Runs :
               \/ Stays(q)
               \/ run'[q].at = "idle" /\ ~run'[q].admin,
           life' # "up" => \A q \in Runs : run'[q].at = "idle",
           life' = "creating" => life = "creating",
           life' \in {"creating", "up", "down"},
           teardown' \in {"none", "asked", "removed", "gave_up", "done"},
           teardown' = "none" => teardown = "none",
           cancels' \in Launched \cup {None}, spent' \in 0..MaxTroubles,
           UNCHANGED <<kind, session, kube>>
    PROVE  IndInv'
  <1>1. Typed'
    BY DEF IndInv, Typed, kube
  <1>2. \A s \in JobSteps : JobFits(s)'
    BY DEF IndInv, JobFits, kube
  <1>3. \A q \in Runs : /\ Early(q)' => Early(q) /\ Stays(q)
                        /\ Late(q)' => Late(q) /\ Stays(q)
                        /\ Active(q)' => Active(q) /\ Stays(q)
    BY PlacesAre DEF Early, Late, Active, Stays, EarlyPlaces, LatePlaces
  <1>4. /\ EarlyRow' <=> EarlyRow
        /\ LateRow' <=> LateRow
        /\ PastRow' <=> PastRow
    BY DEF EarlyRow, LateRow, PastRow
  <1>5. Roles'
    <2>1. Roles
      BY DEF IndInv
    <2>2. \A q \in Runs : run'[q].admin => session'.admin
      BY <2>1 DEF Roles, Stays
    <2>3. \A q \in Runs : Early(q)' => (run'[q].todo # "enter" =>
                                          session'.st # "dns_provision")
      BY <1>3, <2>1 DEF Roles, Stays
    <2>. QED
      BY <1>3, <1>4, <2>1, <2>2, <2>3 DEF Roles
  <1>6. ASSUME teardown' = "none" PROVE Progress'
    <2>1. Progress /\ Grows
      BY <1>6 DEF IndInv, Grows, kube
    <2>2. ASSUME NEW q \in Runs, NEW p \in Places, run'[q].at = p
          PROVE  Reached(Rank[p])'
      <3>1. run[q].at = p
        BY <2>2, PlacesAre DEF Stays
      <3>. QED
        BY <2>1, <3>1, Rises, RankOnce DEF Progress
    <2>3. RowReached'
      <3>1. \A s \in Steps : Reached(Rank[s]) => Reached(Rank[s])'
        BY <2>1, Rises, RankOnce, PlacesAre
      <3>2. /\ Reached(19) => Reached(19)'
            /\ Reached(26) => Reached(26)'
        BY <2>1, Rises
      <3>. QED
        BY <2>1, <3>1, <3>2 DEF Progress, RowReached
    <2>. QED
      BY <2>1, <2>2, <2>3 DEF Progress, Prepared, kube
  <1>. QED
    BY <1>1, <1>2, <1>5, <1>6 DEF IndInv

\* A goroutine begins at place p.
LEMMA Begins ==
    ASSUME IndInv, NEW r \in Runs, NEW p \in Places,
           run' \in [Runs -> GoRows], \A q \in Runs \ {r} : Stays(q),
           run'[r].at = p, run'[r].admin = session.admin,
           kind' = kind, cancels' \in Launched \cup {None}, life' = "up",
           teardown' = teardown, spent' = spent, UNCHANGED kube, RowGoes,
           p \in EarlyPlaces =>
             /\ \A q \in Runs \ {r} : ~Active(q)
             /\ EarlyRow'
             /\ run'[r].todo # "enter" => session'.st # "dns_provision",
           p \in LatePlaces =>
             /\ \A q \in Runs \ {r} : ~Early(q)
             /\ LateRow' /\ session'.admin,
           teardown = "none" => Reached(Rank[p])' /\ RowReached'
    PROVE  IndInv'
  <1>1. KubeGoes
    BY KubeSame
  <1>2. Typed'
    BY <1>1 DEF IndInv, Typed, KubeGoes, RowGoes
  <1>3. \A q \in Runs \ {r} : /\ Early(q)' <=> Early(q)
                              /\ Late(q)' <=> Late(q)
                              /\ Active(q)' <=> Active(q)
    BY DEF Stays, Early, Late, Active
  <1>4. /\ Early(r)' <=> p \in EarlyPlaces
        /\ Late(r)' <=> p \in LatePlaces
        /\ p \in EarlyPlaces \/ p \in LatePlaces
        /\ ~(p \in EarlyPlaces /\ p \in LatePlaces)
    BY Sides DEF Early, Late
  <1>5. \A q \in Runs \ {r} : ~Early(q)
    BY <1>4, Apart
  <1>6. Roles'
    <2>1. Roles
      BY DEF IndInv
    <2>2. ASSUME NEW q \in Runs, NEW t \in Runs, Early(q)', Active(t)'
          PROVE  t = q
      BY <1>3, <1>4, <1>5, <2>2
    <2>3. ASSUME NEW q \in Runs
          PROVE  /\ Early(q)' => EarlyRow'
                 /\ Early(q)' => (run'[q].todo # "enter" =>
                                    session'.st # "dns_provision")
                 /\ Late(q)' => LateRow' /\ session'.admin
                 /\ run'[q].admin => session'.admin
      <3>1. CASE q = r
        BY <1>4, <3>1 DEF RowGoes
      <3>2. CASE q # r
        <4>1. ~Early(q)'
          BY <1>3, <1>5, <3>2
        <4>2. Late(q)' => Active(q)
          BY <1>3, <3>2, Apart
        <4>3. Late(q)' => p \in LatePlaces
          BY <1>4, <3>2, <4>2
        <4>4. run'[q].admin => session'.admin
          BY <2>1, <3>2 DEF Roles, RowGoes, Stays
        <4>. QED
          BY <4>1, <4>3, <4>4
      <3>. QED
        BY <3>1, <3>2
    <2>4. PastRow' => session'.admin
      BY DEF RowGoes
    <2>. QED
      BY <2>2, <2>3, <2>4 DEF Roles
  <1>7. ASSUME teardown' = "none" PROVE Progress'
    <2>1. Progress /\ Grows
      BY <1>1, <1>7 DEF IndInv, KubeGoes, RowGoes, Grows
    <2>2. ASSUME NEW q \in Runs, NEW s \in Places, run'[q].at = s
          PROVE  Reached(Rank[s])'
      <3>1. CASE q = r
        BY <1>7, <2>2, <3>1
      <3>2. CASE q # r
        <4>1. Reached(Rank[s])
          BY <2>1, <2>2, <3>2 DEF Progress, Stays
        <4>. QED
          BY <2>1, <4>1, Rises, RankOnce
      <3>. QED
        BY <3>1, <3>2
    <2>. QED
      BY <1>1, <1>7, <2>1, <2>2 DEF Progress, RowGoes, KubeGoes
  <1>. QED
    BY <1>1, <1>2, <1>6, <1>7 DEF IndInv, KubeGoes

LEMMA LaunchDoes ==
    ASSUME IndInv, NEW r \in Launched, NEW p \in Steps,
           NEW of \in {"start", "recover"}, NEW todo \in {"enter", "images"},
           Launch(r, of, p, todo)
    PROVE  /\ run' \in [Runs -> GoRows]
           /\ \A q \in Runs \ {r} : Stays(q)
           /\ run'[r].at = p /\ run'[r].todo = todo
           /\ run'[r].admin = session.admin
           /\ cancels' \in Launched \cup {None}
  <1>1. run \in [Runs -> GoRows] /\ session \in SessionRows /\ r \in Runs
    BY DEF IndInv, Typed, Runs
  <1>2. /\ Fresh(of, p, todo) \in GoRows
        /\ Fresh(of, p, todo).at = p /\ Fresh(of, p, todo).todo = todo
        /\ Fresh(of, p, todo).admin = session.admin
    BY <1>1 DEF Fresh, GoRows, SessionRows
  <1>3. \A q \in Runs : /\ [run[q] EXCEPT !.live = FALSE] \in GoRows
                        /\ [run[q] EXCEPT !.live = FALSE].at = run[q].at
                        /\ [run[q] EXCEPT !.live = FALSE].todo = run[q].todo
                        /\ [run[q] EXCEPT !.live = FALSE].admin = run[q].admin
    BY <1>1, Cancelled
  <1>. QED
    BY <1>1, <1>2, <1>3 DEF Launch, Stays

\* The worker begins behind the gate, whoever calls for it.
LEMMA WorkerDoes ==
    ASSUME IndInv,
           run' = [run EXCEPT !["worker"] =
                       Fresh("finish", "step_import_admin_did", "enter")]
    PROVE  /\ run' \in [Runs -> GoRows]
           /\ \A q \in Runs \ {"worker"} : Stays(q)
           /\ run'["worker"].at = "step_import_admin_did"
           /\ run'["worker"].admin = session.admin
  <1>1. /\ run \in [Runs -> GoRows] /\ session \in SessionRows
        /\ "worker" \in Runs /\ "step_import_admin_did" \in Steps
    BY StepsAre DEF IndInv, Typed, Runs
  <1>2. /\ Fresh("finish", "step_import_admin_did", "enter") \in GoRows
        /\ Fresh("finish", "step_import_admin_did", "enter").at =
               "step_import_admin_did"
        /\ Fresh("finish", "step_import_admin_did", "enter").admin =
               session.admin
    BY <1>1 DEF Fresh, GoRows, SessionRows
  <1>. QED
    BY <1>1, <1>2 DEF Stays

\* The row as it was, when a goroutine begins.
LEMMA RowsSame ==
    ASSUME IndInv, UNCHANGED <<session, kube>>
    PROVE  /\ RowGoes
           /\ teardown = "none" => RowReached'
           /\ EarlyRow' <=> EarlyRow
           /\ LateRow' <=> LateRow
           /\ \A n \in Nat : Reached(n) => Reached(n)'
  <1>1. KubeGoes
    BY KubeSame
  <1>2. "worker" \in Runs
    BY DEF Runs
  <1>3. RowOf("worker")
    BY <1>1, <1>2, RowKept DEF IndInv, Typed
  <1>4. Grows
    BY DEF Grows, kube
  <1>. QED
    BY <1>3, <1>4, Rises DEF RowOf, EarlyRow, LateRow

\* Less was done before an earlier place.
LEMMA Lowers ==
    ASSUME NEW n \in 1..26, NEW m \in 1..26, n <= m, Reached(m)
    PROVE  Reached(n)
  <1>1. ASSUME NEW s \in Steps, Rank[s] < n PROVE Rank[s] < m
    BY <1>1, PlacesAre, RankOnce
  <1>2. /\ \A s \in JobSteps : s \in Steps
        /\ \A c \in Components : DeployOf[c] \in Steps
    BY Daemons DEF JobSteps
  <1>. QED
    BY <1>1, <1>2 DEF Reached

LEMMA NothingFirst == Reached(1)
  <1>1. /\ \A s \in JobSteps : ~(Rank[s] < 1)
        /\ \A c \in Components : ~(Rank[DeployOf[c]] < 1)
    BY RankOnce, PlacesAre, Daemons DEF JobSteps
  <1>. QED
    BY <1>1 DEF Reached

\* The first half begins when nothing else does.
LEMMA StartKeeps ==
    ASSUME IndInv, NEW r \in Launched, life # "up",
           session.st \in ResumePreGate \cup {"dns_provision", "deleting"},
           Launch(r, "start", "dns_wait", "enter"),
           kind' = kind, life' = "up", teardown' = teardown, spent' = spent,
           UNCHANGED <<session, kube>>
    PROVE  IndInv'
  <1>1. /\ "dns_wait" \in Steps /\ "dns_wait" \in Places
        /\ Rank["dns_wait"] = 1 /\ r \in Runs
        /\ "dns_wait" \in EarlyPlaces /\ "dns_wait" \notin LatePlaces
    BY StepsAre, PlacesAre, Ranks, Sides DEF EarlyPlaces, Runs
  <1>2. /\ run' \in [Runs -> GoRows]
        /\ \A q \in Runs \ {r} : Stays(q)
        /\ run'[r].at = "dns_wait" /\ run'[r].todo = "enter"
        /\ run'[r].admin = session.admin
        /\ cancels' \in Launched \cup {None}
    BY <1>1, LaunchDoes
  <1>3. \A q \in Runs : ~Active(q)
    BY PlacesAre DEF IndInv, Roles, Active
  <1>4. EarlyRow
    <2>1. \A s \in ResumePreGate : s \in Steps /\ Rank[s] < 18
      BY StepsAre DEF ResumePreGate, Rank
    <2>. QED
      BY <2>1 DEF EarlyRow
  <1>5. Reached(1)' /\ RowGoes /\ EarlyRow' /\ (teardown = "none" => RowReached')
    BY <1>4, RowsSame, NothingFirst
  <1>. QED
    BY <1>1, <1>2, <1>3, <1>5, Begins

LEMMA CreateKeeps ==
    ASSUME IndInv, NEW r \in Launched, Create(r)
    PROVE  IndInv'
  <1>1. life = "creating" /\ life' = "up"
        /\ session.st \in {"dns_provision", "deleting", "gone"}
    BY DEF Create, IndInv, Roles
  <1>2. CASE session.st = "gone"
    <2>1. UNCHANGED <<run, cancels, kind, session, kube, teardown, spent>>
      BY <1>2 DEF Create
    <2>2. \A q \in Runs : Stays(q)
      BY <2>1 DEF Stays
    <2>. QED
      BY <1>1, <2>1, <2>2, Quiet DEF IndInv, Typed
  <1>3. CASE session.st # "gone"
    BY <1>1, <1>3, StartKeeps DEF Create
  <1>. QED
    BY <1>2, <1>3

\* A recovery before the gate finds no goroutine, one behind it none before.
LEMMA RecoverableSides ==
    \A p \in Recoverable : /\ p \in Steps
                           /\ p \in EarlyPlaces <=> p \notin Past
                           /\ p \in LatePlaces <=> p \in Past
                           /\ p \notin LatePlaces => Rank[p] < 18
  <1>1. Recoverable = {"deploy_dids", "deploy_mediator", "deploy_vta",
                       "deploy_vtc", "step_trust_registry"}
    BY DEF Recoverable, ResumeDeployment
  <1>2. \A p \in Recoverable : p \in Steps /\ p \in Places
    BY <1>1, StepsAre, PlacesAre
  <1>3. ASSUME NEW p \in Recoverable, p \notin LatePlaces PROVE Rank[p] < 18
    BY <1>1, <1>3, LatePlacesAre, Ranks
  <1>. QED
    BY <1>2, <1>3, PastIs, Sides

LEMMA RecoverKeeps ==
    ASSUME IndInv, NEW r \in Launched, Recover(r)
    PROVE  IndInv'
  <1>1. PICK p \in Recoverable : p = session.failed
    BY DEF Recover
  <1>2. /\ p \in Steps /\ p \in Places /\ r \in Runs
        /\ session.st = "failed" /\ session \in SessionRows
    BY <1>1, RecoverableSides, PlacesAre DEF Recover, IndInv, Typed, Runs
  <1>. DEFINE todo == IF p = "step_trust_registry" THEN "enter" ELSE "images"
              reg == IF p = "step_trust_registry" THEN "enabling"
                     ELSE session.reg
  <1>3. /\ session' = [session EXCEPT !.st = p, !.failed = "", !.reg = reg]
        /\ Launch(r, "recover", p, todo)
        /\ kind' = kind /\ life' = "up" /\ teardown' = teardown
        /\ spent' = spent /\ UNCHANGED kube
    BY <1>1 DEF Recover
  <1>4. todo \in {"enter", "images"} /\ reg \in Registries
    BY <1>2 DEF SessionRows, Registries
  <1>. HIDE DEF todo, reg
  <1>5. /\ run' \in [Runs -> GoRows]
        /\ \A q \in Runs \ {r} : Stays(q)
        /\ run'[r].at = p
        /\ run'[r].admin = session.admin
        /\ cancels' \in Launched \cup {None}
    BY <1>2, <1>3, <1>4, LaunchDoes
  <1>6. /\ session' \in SessionRows
        /\ session'.st = p
        /\ session'.admin = session.admin /\ session'.vtc = session.vtc
    BY <1>2, <1>3, <1>4 DEF SessionRows, Statuses
  <1>7. \A q \in Runs : ~Early(q)
    BY <1>2, RowsApart DEF IndInv, Roles
  <1>8. p \in Past => session.admin
    BY <1>1, <1>2 DEF IndInv, Roles, PastRow
  <1>9. RowGoes
    BY <1>2, <1>6, <1>8, PastIs DEF RowGoes, PastRow
  <1>10. ASSUME p \in EarlyPlaces
         PROVE  /\ \A q \in Runs : ~Active(q)
                /\ EarlyRow'
                /\ session'.st # "dns_provision"
    <2>1. p \notin Past /\ Rank[p] < 18
      BY <1>10, RecoverableSides, Sides
    <2>2. \A q \in Runs : ~Late(q)
      <3>1. ~LateRow
        BY <1>1, <1>2, <2>1, PastIs DEF LateRow
      <3>. QED
        BY <3>1 DEF IndInv, Roles
    <2>. QED
      BY <1>2, <1>6, <1>7, <2>1, <2>2, Apart, PastIs DEF EarlyRow
  <1>11. p \in LatePlaces => LateRow' /\ session'.admin
    BY <1>6, <1>8, RecoverableSides DEF LateRow
  <1>12. ASSUME teardown = "none"
         PROVE  Reached(Rank[p])' /\ RowReached'
    <2>1. Reached(Rank[p])
      BY <1>1, <1>2, <1>12 DEF IndInv, Progress, RowReached
    <2>2. Reached(Rank[p])'
      BY <1>2, <1>3, <1>6, <2>1, RankOnce, Rises DEF Grows, kube
    <2>. QED
      BY <1>2, <1>6, <2>2, PastIs DEF RowReached
  <1>. QED
    BY <1>2, <1>3, <1>5, <1>7, <1>9, <1>10, <1>11, <1>12, Begins

\* The worker begins on a session behind the gate.
LEMMA WorkerBegins ==
    ASSUME IndInv, session.admin, session.st \in Resumable,
           run["worker"].at = "idle",
           run' = [run EXCEPT !["worker"] =
                       Fresh("finish", "step_import_admin_did", "enter")],
           kind' = kind, cancels' = cancels, life' = "up",
           teardown' = teardown, spent' = spent, UNCHANGED <<session, kube>>
    PROVE  IndInv'
  <1>. DEFINE p == "step_import_admin_did"
  <1>1. /\ "worker" \in Runs /\ p \in Places /\ Rank[p] = 19
        /\ p \in LatePlaces /\ p \notin EarlyPlaces
    BY LatePlacesAre, Sides, Ranks DEF Runs
  <1>2. session.st \in Past /\ session.st \in Steps
    BY PastIs, StepsAre DEF Resumable, ResumePostGate
  <1>3. \A q \in Runs : ~Early(q)
    BY <1>2, RowsApart DEF IndInv, Roles, PastRow
  <1>4. LateRow' /\ RowGoes /\ (teardown = "none" => RowReached')
    BY <1>2, RowsSame DEF LateRow
  <1>5. ASSUME teardown = "none" PROVE Reached(19)'
    <2>1. PICK s \in Steps : s = session.st
      BY <1>2
    <2>2. Reached(Rank[s])
      BY <1>5, <2>1 DEF IndInv, Progress, RowReached
    <2>3. Rank[s] \in 1..26 /\ Rank[s] >= 19
      BY <1>2, <2>1, PastIs, PlacesAre, RankOnce, Sides
    <2>. QED
      BY <2>2, <2>3, Lowers, RowsSame
  <1>6. /\ run' \in [Runs -> GoRows]
        /\ \A q \in Runs \ {"worker"} : Stays(q)
        /\ run'["worker"].at = p
        /\ run'["worker"].admin = session.admin
    BY WorkerDoes
  <1>7. cancels' \in Launched \cup {None} /\ session'.admin
    BY DEF IndInv, Typed
  <1>. QED
    BY <1>1, <1>3, <1>4, <1>5, <1>6, <1>7, Begins

LEMMA ProvisionTickKeeps ==
    ASSUME IndInv, ProvisionTick
    PROVE  IndInv'
  BY WorkerBegins DEF ProvisionTick, Resumable

LEMMA BootKeeps ==
    ASSUME IndInv, NEW r \in Launched, Boot(r)
    PROVE  IndInv'
  <1>1. /\ life = "down" /\ life' = "up" /\ kind' = kind
        /\ teardown' = teardown /\ spent' = spent
        /\ UNCHANGED <<session, kube>>
    BY DEF Boot
  <1>2. \A q \in Runs : run[q].at = "idle" /\ ~Active(q)
    BY <1>1, PlacesAre DEF IndInv, Roles, Active
  <1>3. CASE UNCHANGED <<run, cancels>>
    <2>1. \A q \in Runs : Stays(q)
      BY <1>3 DEF Stays
    <2>. QED
      BY <1>1, <1>3, <2>1, Quiet DEF IndInv, Typed
  <1>4. CASE /\ session.st \in ResumePreGate
             /\ Launch(r, "start", "dns_wait", "enter")
    BY <1>1, <1>4, StartKeeps
  <1>5. CASE run' = [run EXCEPT !["worker"] = Kicked] /\ UNCHANGED cancels
    <2>1. CASE session.admin /\ session.st \in Resumable
      <3>1. Kicked = Fresh("finish", "step_import_admin_did", "enter")
            /\ run["worker"].at = "idle"
        BY <1>2, <2>1 DEF Kicked, Runs
      <3>. QED
        BY <1>1, <1>5, <2>1, <3>1, WorkerBegins
    <2>2. CASE ~(session.admin /\ session.st \in Resumable)
      <3>1. run' = run
        BY <1>5, <2>2 DEF Kicked, IndInv, Typed
      <3>. QED
        BY <1>3, <1>5, <3>1
    <2>. QED
      BY <2>1, <2>2
  <1>6. CASE /\ session.st \in ResumeDeployment
             /\ Launch(r, "recover", session.st,
                       IF session.st = "step_trust_registry" THEN "enter"
                       ELSE "images")
    <2>1. PICK p \in Recoverable : p = session.st
      BY <1>6 DEF Recoverable
    <2>2. p \in Steps /\ p \in Places /\ r \in Runs
      BY RecoverableSides, PlacesAre DEF Runs
    <2>3. /\ run' \in [Runs -> GoRows]
          /\ \A q \in Runs \ {r} : Stays(q)
          /\ run'[r].at = p
          /\ run'[r].admin = session.admin
          /\ cancels' \in Launched \cup {None}
      <3>1. PICK todo \in {"enter", "images"} : Launch(r, "recover", p, todo)
        BY <1>6, <2>1
      <3>. QED
        BY <2>2, <3>1, LaunchDoes
    <2>4. p \in EarlyPlaces => EarlyRow /\ session.st # "dns_provision"
      BY <2>1, <2>2, RecoverableSides, PastIs, Sides DEF EarlyRow
    <2>5. p \in LatePlaces => LateRow /\ session.admin
      BY <2>1, RecoverableSides DEF LateRow, IndInv, Roles, PastRow
    <2>6. teardown = "none" => Reached(Rank[p])' /\ RowReached'
      <3>1. teardown = "none" => Reached(Rank[p])
        BY <2>1, <2>2 DEF IndInv, Progress, RowReached
      <3>. QED
        BY <1>1, <2>2, <3>1, RowsSame, RankOnce
    <2>7. \A q \in Runs : ~Early(q)
      BY <1>2, Apart
    <2>8. RowGoes /\ (EarlyRow => EarlyRow') /\ (LateRow => LateRow')
      BY <1>1, RowsSame
    <2>. QED
      BY <1>1, <1>2, <2>2, <2>3, <2>4, <2>5, <2>6, <2>7, <2>8, Begins
  <1>. QED
    BY <1>3, <1>4, <1>5, <1>6 DEF Boot

LEMMA ExitKeeps ==
    ASSUME IndInv, NEW r \in Runs, Exit(r)
    PROVE  IndInv'
  <1>1. Idle \in GoRows /\ Idle.at = "idle" /\ ~Idle.admin
    BY DEF Idle, GoRows, Registries
  <1>2. /\ run' \in [Runs -> GoRows]
        /\ \A q \in Runs : \/ Stays(q)
                           \/ run'[q].at = "idle" /\ ~run'[q].admin
    BY <1>1 DEF Exit, IndInv, Typed, Stays
  <1>3. life' # "up" => \A q \in Runs : run'[q].at = "idle"
    BY <1>1 DEF Exit, IndInv, Roles, Typed
  <1>4. cancels' \in Launched \cup {None}
    BY DEF Exit, IndInv, Typed
  <1>. QED
    BY <1>2, <1>3, <1>4, Quiet DEF Exit, IndInv, Typed

LEMMA HeartbeatKeeps ==
    ASSUME IndInv, Heartbeat \/ HeartbeatLost
    PROVE  IndInv'
  <1>1. /\ run' \in [Runs -> GoRows]
        /\ \A q \in Runs : Stays(q)
    <2>1. run \in [Runs -> GoRows] /\ "worker" \in Runs
      BY DEF IndInv, Typed, Runs
    <2>2. PICK new : /\ run' = [run EXCEPT !["worker"] = new]
                     /\ new = [run["worker"] EXCEPT !.live = FALSE]
      BY DEF Heartbeat, HeartbeatLost
    <2>3. /\ new \in GoRows /\ new.at = run["worker"].at
          /\ new.todo = run["worker"].todo /\ new.admin = run["worker"].admin
      BY <2>1, <2>2, Cancelled
    <2>. QED
      BY <2>1, <2>2, <2>3 DEF Stays
  <1>2. life' # "up" => \A q \in Runs : run'[q].at = "idle"
    BY <1>1 DEF Heartbeat, HeartbeatLost, IndInv, Roles, Stays
  <1>3. spent' \in 0..MaxTroubles
    BY SetupAssumption DEF Heartbeat, HeartbeatLost, Trouble, IndInv, Typed
  <1>4. UNCHANGED <<kind, session, kube, cancels, life, teardown>>
    BY DEF Heartbeat, HeartbeatLost
  <1>. QED
    BY <1>1, <1>2, <1>3, <1>4, Quiet DEF IndInv, Typed

LEMMA CrashKeeps ==
    ASSUME IndInv, Crash
    PROVE  IndInv'
  <1>1. Idle \in GoRows /\ Idle.at = "idle" /\ ~Idle.admin
    BY DEF Idle, GoRows, Registries
  <1>2. /\ run' \in [Runs -> GoRows]
        /\ \A q \in Runs : run'[q].at = "idle" /\ ~run'[q].admin
    BY <1>1 DEF Crash
  <1>3. spent' \in 0..MaxTroubles
    BY SetupAssumption DEF Crash, Trouble, IndInv, Typed
  <1>4. /\ teardown' \in {"none", "asked", "removed", "gave_up", "done"}
        /\ teardown' = "none" => teardown = "none"
        /\ cancels' \in Launched \cup {None} /\ life' = "down"
        /\ UNCHANGED <<kind, session, kube>>
    BY DEF Crash, IndInv, Typed
  <1>. QED
    BY <1>2, <1>3, <1>4, Quiet

\* What only Kubernetes does.
LEMMA KubeKeeps ==
    ASSUME IndInv, KubeGoes,
           UNCHANGED <<kind, session, run, cancels, life, teardown>>,
           spent' \in 0..MaxTroubles
    PROVE  IndInv'
  <1>1. Typed'
    BY DEF IndInv, Typed, KubeGoes
  <1>2. Roles'
    BY DEF IndInv, Roles, Early, Late, Active, EarlyRow, LateRow, PastRow
  <1>3. ASSUME teardown' = "none" PROVE Progress'
    <2>1. Progress /\ Grows
      BY <1>3 DEF IndInv, KubeGoes, Grows
    <2>2. \A p \in Places : Reached(Rank[p]) => Reached(Rank[p])'
      BY <2>1, Rises, RankOnce
    <2>3. /\ Reached(19) => Reached(19)'
          /\ Reached(26) => Reached(26)'
      BY <2>1, Rises
    <2>4. RowReached'
      BY <2>1, <2>2, <2>3, PlacesAre DEF Progress, RowReached
    <2>. QED
      BY <1>3, <2>1, <2>2, <2>4 DEF Progress, KubeGoes
  <1>. QED
    BY <1>1, <1>2, <1>3 DEF IndInv, KubeGoes

LEMMA JobEndsKeeps ==
    ASSUME IndInv, NEW s \in JobSteps, JobEnds(s)
    PROVE  IndInv'
  <1>1. /\ job \in [JobSteps -> {"none", "active", "done", "failed"}]
        /\ ran \in [JobSteps -> 0..2] /\ job[s] = "active"
        /\ deploy' = deploy
    BY DEF IndInv, Typed, JobEnds
  <1>2. \/ /\ job' = [job EXCEPT ![s] = "done"]
           /\ ran' = [ran EXCEPT ![s] = IF @ = 2 THEN 2 ELSE @ + 1]
        \/ /\ job' = [job EXCEPT ![s] = "failed"]
           /\ ran' = ran
    BY DEF JobEnds
  <1>3. /\ job' \in [JobSteps -> {"none", "active", "done", "failed"}]
        /\ ran' \in [JobSteps -> 0..2]
        /\ \A j \in JobSteps : ran[j] > 0 => ran'[j] > 0
    BY <1>1, <1>2
  <1>4. ASSUME NEW j \in JobSteps PROVE JobFits(j)'
    <2>1. JobFits(j)
      BY DEF IndInv
    <2>. QED
      BY <1>1, <1>2, <2>1 DEF JobFits
  <1>5. teardown = "none" => Prepared'
    BY <1>1, <1>3 DEF IndInv, Progress, Prepared, Prepares
  <1>6. KubeGoes
    BY <1>1, <1>3, <1>4, <1>5 DEF KubeGoes, IndInv, Typed
  <1>7. spent' \in 0..MaxTroubles
    BY SetupAssumption DEF JobEnds, Trouble, IndInv, Typed
  <1>. QED
    BY <1>6, <1>7, KubeKeeps DEF JobEnds

LEMMA DaemonReadyKeeps ==
    ASSUME IndInv, NEW c \in Components, DaemonReady(c)
    PROVE  IndInv'
  <1>1. deploy \in [Components -> {"none", "starting", "ready", "stale"}]
    BY DEF IndInv, Typed
  <1>2. /\ deploy' \in [Components -> {"none", "starting", "ready", "stale"}]
        /\ \A d \in Components : deploy'[d] # "none" <=> deploy[d] # "none"
    BY <1>1 DEF DaemonReady
  <1>3. KubeGoes
    BY <1>2, KubeDeploys DEF DaemonReady
  <1>. QED
    BY <1>3, KubeKeeps DEF DaemonReady, IndInv, Typed

LEMMA HourKeeps ==
    ASSUME IndInv, Hour
    PROVE  IndInv'
  <1>1. /\ ran' = ran /\ deploy' = deploy
        /\ job' = [s \in JobSteps |->
                     IF job[s] = "failed" \/ (job[s] = "done" /\ ~Step[s].keep)
                     THEN "none" ELSE job[s]]
    BY DEF Hour
  <1>2. job' \in [JobSteps -> {"none", "active", "done", "failed"}]
    BY <1>1 DEF IndInv, Typed
  <1>3. ASSUME NEW s \in JobSteps PROVE JobFits(s)'
    <2>1. JobFits(s)
      BY DEF IndInv
    <2>. QED
      BY <1>1, <2>1, ReceiptsKept DEF JobFits
  <1>4. KubeGoes
    BY <1>1, <1>2, <1>3 DEF KubeGoes, IndInv, Typed, Progress, Prepared
  <1>5. spent' \in 0..MaxTroubles
    BY SetupAssumption DEF Hour, Trouble, IndInv, Typed
  <1>. QED
    BY <1>4, <1>5, KubeKeeps DEF Hour

-----------------------------------------------------------------------------
(* Requests                                                                *)

LEMMA ProvisionAdminKeeps ==
    ASSUME IndInv, ProvisionAdmin
    PROVE  IndInv'
  <1>. DEFINE p == "step_import_admin_did"
  <1>1. /\ life = "up" /\ session.st = "awaiting_admin_did"
        /\ session \in SessionRows
        /\ UNCHANGED <<kind, kube, run, cancels, life, teardown, spent>>
        /\ p \in Steps /\ p \in Past /\ Rank[p] = 19
    BY StepsAre, PastIs, Ranks DEF ProvisionAdmin, IndInv, Typed
  <1>2. /\ session' \in SessionRows /\ session'.st = p
        /\ session'.admin /\ session'.vtc = session.vtc
    BY <1>1 DEF ProvisionAdmin, SessionRows, Statuses
  <1>3. \A q \in Runs : ~Active(q)
    BY <1>1, RowsApart, Apart DEF IndInv, Roles
  <1>4. \A q \in Runs : ~Active(q)' /\ ~Early(q)' /\ ~Late(q)'
    BY <1>1, <1>3, ApartThen DEF Active
  <1>5. Typed' /\ \A s \in JobSteps : JobFits(s)'
    BY <1>1, <1>2 DEF IndInv, Typed, JobFits, kube
  <1>6. Roles'
    BY <1>1, <1>2, <1>4 DEF Roles
  <1>7. ASSUME teardown' = "none" PROVE Progress'
    <2>1. Progress /\ Grows
      BY <1>1, <1>2, <1>7 DEF IndInv, Grows, kube
    <2>2. Reached(19)'
      BY <1>1, <2>1, Rises DEF Progress, RowReached
    <2>3. RowReached'
      BY <1>1, <1>2, <2>2, PastIs DEF RowReached
    <2>4. \A q \in Runs : \A s \in Places : run'[q].at # s
      BY <1>4 DEF Active
    <2>. QED
      BY <1>1, <1>2, <2>1, <2>3, <2>4, PastIs DEF Progress, Prepared, kube
  <1>. QED
    BY <1>5, <1>6, <1>7 DEF IndInv

\* A deletion in progress, which ends what is said of the chain.
LEMMA Torn ==
    ASSUME IndInv, run' \in [Runs -> GoRows], \A q \in Runs : Stays(q),
           session' \in SessionRows, session'.admin = session.admin,
           \/ session' = session
           \/ session'.st \in {"deleting", "gone"},
           job' \in [JobSteps -> {"none", "active", "done", "failed"}],
           ran' \in [JobSteps -> 0..2],
           deploy' \in [Components -> {"none", "starting", "ready", "stale"}],
           \A s \in JobSteps : JobFits(s)',
           kind' = kind, life' = life, cancels' \in Launched \cup {None},
           spent' \in 0..MaxTroubles,
           teardown' \in {"asked", "removed", "gave_up", "done"}
    PROVE  IndInv'
  <1>1. Typed'
    BY DEF IndInv, Typed
  <1>2. \A q \in Runs : /\ Early(q)' <=> Early(q)
                        /\ Late(q)' <=> Late(q)
                        /\ Active(q)' <=> Active(q)
    BY DEF Stays, Early, Late, Active
  <1>3. /\ EarlyRow => EarlyRow'
        /\ LateRow => LateRow'
        /\ PastRow' => PastRow
        /\ session'.st = "dns_provision" => session.st = "dns_provision"
    BY PastIs DEF EarlyRow, LateRow, PastRow
  <1>4. Roles'
    <2>1. Roles
      BY DEF IndInv
    <2>2. ASSUME NEW q \in Runs
          PROVE  /\ Early(q)' => EarlyRow'
                 /\ Early(q)' => (run'[q].todo # "enter" =>
                                    session'.st # "dns_provision")
                 /\ Late(q)' => LateRow' /\ session'.admin
                 /\ run'[q].admin => session'.admin
                 /\ life' # "up" => run'[q].at = "idle"
      BY <1>2, <1>3, <2>1 DEF Roles, Stays
    <2>3. life' = "creating" =>
              session'.st \in {"dns_provision", "deleting", "gone"}
      BY <2>1 DEF Roles
    <2>. QED
      BY <1>2, <1>3, <2>1, <2>2, <2>3 DEF Roles
  <1>. QED
    BY <1>1, <1>4 DEF IndInv

LEMMA DeletionKeeps ==
    ASSUME IndInv, Deletion
    PROVE  IndInv'
  <1>1. /\ session \in SessionRows /\ run \in [Runs -> GoRows]
        /\ cancels \in Launched \cup {None} /\ spent \in 0..MaxTroubles
        /\ job \in [JobSteps -> {"none", "active", "done", "failed"}]
        /\ ran \in [JobSteps -> 0..2]
        /\ deploy \in [Components -> {"none", "starting", "ready", "stale"}]
    BY DEF IndInv, Typed
  <1>2. UNCHANGED kube => \A s \in JobSteps : JobFits(s)'
    BY DEF IndInv, JobFits, kube
  <1>3. UNCHANGED run => \A q \in Runs : Stays(q)
    BY DEF Stays
  <1>4. Trouble => spent' \in 0..MaxTroubles
    BY <1>1, SetupAssumption DEF Trouble
  <1>5. CASE DeleteAsk
    <2>1. /\ session' \in SessionRows /\ session'.admin = session.admin
          /\ session'.st = "deleting"
      BY <1>1, <1>5 DEF DeleteAsk, Status, Row, SessionRows, Statuses
    <2>2. run' \in [Runs -> GoRows] /\ \A q \in Runs : Stays(q)
      <3>1. \A q \in Runs :
              /\ [run[q] EXCEPT !.live = FALSE] \in GoRows
              /\ [run[q] EXCEPT !.live = FALSE].at = run[q].at
              /\ [run[q] EXCEPT !.live = FALSE].todo = run[q].todo
              /\ [run[q] EXCEPT !.live = FALSE].admin = run[q].admin
        BY <1>1, Cancelled
      <3>. QED
        BY <1>1, <1>5, <3>1 DEF DeleteAsk, Stays
    <2>. QED
      BY <1>1, <1>2, <1>4, <1>5, <2>1, <2>2, Torn DEF DeleteAsk, kube
  <1>6. CASE DeleteGivesUp
    BY <1>1, <1>2, <1>3, <1>4, <1>6, Torn DEF DeleteGivesUp, kube
  <1>7. CASE DeleteResources
    <2>1. /\ job' \in [JobSteps -> {"none", "active", "done", "failed"}]
          /\ ran' \in [JobSteps -> 0..2]
          /\ deploy' \in [Components -> {"none", "starting", "ready", "stale"}]
          /\ \A s \in JobSteps : JobFits(s)'
      BY <1>7 DEF DeleteResources, JobFits
    <2>. QED
      BY <1>1, <1>3, <1>7, <2>1, Torn DEF DeleteResources
  <1>8. CASE DeleteRow
    <2>1. /\ session' \in SessionRows /\ session'.admin = session.admin
          /\ session'.st = "gone"
      BY <1>1, <1>8 DEF DeleteRow, SessionRows, Statuses
    <2>. QED
      BY <1>1, <1>2, <1>3, <1>8, <2>1, Torn DEF DeleteRow, kube
  <1>. QED
    BY <1>5, <1>6, <1>7, <1>8 DEF Deletion

-----------------------------------------------------------------------------
(* The invariant                                                           *)

LEMMA InitIndInv == Init => IndInv
  <1>. SUFFICES ASSUME Init PROVE IndInv
    OBVIOUS
  <1>0. /\ kind \in Kinds
        /\ job = [s \in JobSteps |-> "none"]
        /\ ran = [s \in JobSteps |-> 0]
        /\ deploy = [c \in Components |-> "none"]
        /\ cancels = None /\ life = "creating" /\ teardown = "none"
        /\ spent = 0
    BY DEF Init
  <1>1. /\ kind \in [custom : BOOLEAN, registry : BOOLEAN, upfront : BOOLEAN]
        /\ MaxTroubles \in Nat
    BY SetupAssumption DEF Init
  <1>2. session \in SessionRows /\ session.st = "dns_provision"
    <2>1. /\ kind.upfront \in BOOLEAN
          /\ (IF kind.registry THEN "enabling" ELSE "disabled") \in Registries
      BY <1>1 DEF Registries
    <2>. QED
      BY <2>1 DEF Init, SessionRows, Statuses
  <1>3. Idle \in GoRows /\ Idle.at = "idle" /\ ~Idle.admin
    BY DEF Idle, GoRows, Registries
  <1>4. Typed
    <2>1. run \in [Runs -> GoRows]
      BY <1>3 DEF Init
    <2>2. /\ job \in [JobSteps -> {"none", "active", "done", "failed"}]
          /\ ran \in [JobSteps -> 0..2]
          /\ deploy \in [Components -> {"none", "starting", "ready", "stale"}]
      BY <1>0
    <2>. QED
      BY <1>0, <1>1, <1>2, <2>1, <2>2 DEF Typed
  <1>5. \A s \in JobSteps : JobFits(s)
    BY <1>0 DEF JobFits
  <1>6. \A r \in Runs : run[r].at = "idle" /\ ~run[r].admin
    BY <1>3 DEF Init
  <1>7. \A r \in Runs : ~Active(r) /\ ~Early(r) /\ ~Late(r)
    BY <1>6, PlacesAre, Apart DEF Active
  <1>8. ~PastRow
    BY <1>2, PastIs DEF PastRow
  <1>9. Roles
    BY <1>2, <1>6, <1>7, <1>8 DEF Roles
  <1>10. Progress
    <2>1. RowReached
      BY <1>2, PastIs DEF RowReached
    <2>2. Prepared
      BY DEF Init, Prepared
    <2>. QED
      BY <1>2, <1>6, <2>1, <2>2, PlacesAre DEF Progress
  <1>. QED
    BY <1>4, <1>5, <1>9, <1>10 DEF IndInv

LEMMA DriveKeeps ==
    ASSUME IndInv, NEW r \in Runs, Drive(r)
    PROVE  IndInv'
  BY EnterKeeps, StoppedKeeps, CallKeeps, CreateJobKeeps, AwaitJobKeeps,
     CreateDaemonKeeps, AwaitDaemonKeeps, ReconcileKeeps, GateKeeps,
     EnterRegistryKeeps, EnableRegistryKeeps, FinishKeeps, ExitKeeps
     DEF Drive

LEMMA IndInvInductive == IndInv /\ [Next]_vars => IndInv'
  <1>. SUFFICES ASSUME IndInv, [Next]_vars PROVE IndInv'
    OBVIOUS
  <1>1. ASSUME NEW r \in Runs, Drive(r) PROVE IndInv'
    BY <1>1, DriveKeeps
  <1>2. CASE Kubernetes \/ Hour
    BY <1>2, JobEndsKeeps, DaemonReadyKeeps, HourKeeps DEF Kubernetes
  <1>3. ASSUME NEW r \in Launched, Create(r) \/ Recover(r) \/ Boot(r)
        PROVE  IndInv'
    BY <1>3, CreateKeeps, RecoverKeeps, BootKeeps
  <1>4. CASE \/ ProvisionAdmin \/ ProvisionTick \/ Heartbeat \/ HeartbeatLost
             \/ Crash \/ Deletion
    BY <1>4, ProvisionAdminKeeps, ProvisionTickKeeps, HeartbeatKeeps,
       CrashKeeps, DeletionKeeps
  <1>5. CASE UNCHANGED vars
    BY <1>5, Stutters
  <1>. QED
    BY <1>1, <1>2, <1>3, <1>4, <1>5 DEF Next

LEMMA Invariance == Spec => []IndInv
  <1>1. Init => IndInv
    BY InitIndInv
  <1>2. IndInv /\ [Next]_vars => IndInv'
    BY IndInvInductive
  <1>. QED
    BY <1>1, <1>2, PTL DEF Spec

\* Row, Jobs, Deployments and goroutines keep their values whatever overlaps
\* (TypeOK of Setup); above all markFailedAt, which takes the stage from the
\* row, always finds a stage there.
THEOREM SetupTypes == Spec => []TypeOK
  <1>1. IndInv => TypeOK
    BY DEF IndInv, Typed, TypeOK, SessionRows, GoRows, Registries
  <1>. QED
    BY <1>1, Invariance, PTL

\* No daemon is started on a volume before every Job that writes it offline
\* took effect, and a running session lacks nothing (ServedIsPrepared),
\* through every resume, recovery and worker of runFullStack and
\* runFullStackFinish.
THEOREM ServedPrepared == Spec => []ServedIsPrepared
  <1>1. ASSUME IndInv PROVE StartsPrepared
    BY <1>1 DEF IndInv, Progress, Prepared, StartsPrepared
  <1>2. ASSUME IndInv, session.st = "running", teardown = "none"
        PROVE  /\ session.admin /\ session.vtc
               /\ \A c \in Components : deploy[c] # "none"
               /\ \A s \in Receipts : ran[s] = 1
    <2>1. Reached(26)
      BY <1>2 DEF IndInv, Progress, RowReached
    <2>2. session.admin
      BY <1>2, PastIs DEF IndInv, Roles, PastRow
    <2>3. \A s \in Steps : Rank[s] < 26
      <3>1. SUFFICES ASSUME NEW s \in Steps PROVE Rank[s] # 26
        BY PlacesAre, RankOnce
      <3>2. s \in Places /\ s # "end" /\ "end" \in Places
        BY PlacesAre
      <3>. QED
        BY <3>2, RankOnce, Ranks
    <2>4. \A c \in Components : deploy[c] # "none"
      BY <2>1, <2>3, Daemons DEF Reached
    <2>5. ASSUME NEW s \in Receipts PROVE ran[s] = 1
      <3>1. s \in JobSteps /\ s \in Steps
        BY ReceiptsKept DEF JobSteps
      <3>2. ran[s] > 0 /\ ran[s] <= 1
        BY <1>2, <2>1, <2>3, <3>1 DEF Reached, IndInv, JobFits
      <3>3. ran[s] \in 0..2
        BY <1>2, <3>1 DEF IndInv, Typed
      <3>. QED
        BY <3>2, <3>3
    <2>. QED
      BY <2>1, <2>2, <2>4, <2>5 DEF Reached
  <1>3. IndInv => ServedIsPrepared
    BY <1>1, <1>2 DEF ServedIsPrepared, RunningIsComplete
  <1>. QED
    BY <1>3, Invariance, PTL

\* A step whose Job is its receipt (k8s.ComponentJobOpts, the Jobs behind the
\* gate) takes effect once, whatever goroutines run the chain side by side
\* and however often they are recovered (ReceiptsHold).
THEOREM ReceiptsOnce == Spec => []ReceiptsHold
  <1>1. IndInv => ReceiptsHold
    BY ReceiptsKept DEF IndInv, JobFits, ReceiptsHold
  <1>. QED
    BY <1>1, Invariance, PTL

BeforeGate == ResumePreGate \cup {"deploy_dids", "deploy_mediator",
                                  "awaiting_admin_did"}

LEMMA BeforeGateIs ==
    /\ \A s \in Past \cup {"failed", "deleting", "gone"} : s \notin BeforeGate
    /\ PastRow => session.st \notin BeforeGate
  <1>1. \A s \in Past \cup {"failed", "deleting", "gone"} : s \notin BeforeGate
    BY PastIs DEF BeforeGate, ResumePreGate
  <1>. QED
    BY <1>1 DEF PastRow

\* A goroutine behind the gate writes no status before it.
LEMMA DriveStaysPast ==
    ASSUME IndInv, PastRow, NEW r \in Runs, Drive(r)
    PROVE  session'.st \notin BeforeGate
  <1>1. session \in SessionRows
    BY DEF IndInv, Typed
  <1>2. ~Early(r)
    BY RowsApart DEF IndInv, Roles
  <1>3. CASE EnterStep(r)
    <2>1. run[r].at \in Past
      <3>1. run[r].at \in Steps
        BY <1>3 DEF EnterStep
      <3>. QED
        BY <1>2, <3>1, PastIs, PlacesAre, Sides DEF Early
    <2>2. session'.st \in {session.st, run[r].at}
      BY <1>1, <1>3 DEF EnterStep, Row, SessionRows
    <2>. QED
      BY <2>1, <2>2, BeforeGateIs
  <1>4. CASE \/ Stopped(r) \/ CreateDaemon(r) \/ Exit(r)
    BY <1>4, BeforeGateIs DEF Stopped, CreateDaemon, Exit
  <1>5. Fails(r) => session'.st \in {session.st, "failed"}
    BY <1>1 DEF Fails, FailedAt, Row, SessionRows
  <1>6. CASE CallStep(r) \/ AwaitDaemon(r) \/ ReconcileImages(r)
    <2>1. session'.st \in {session.st, "failed"}
      BY <1>5, <1>6 DEF CallStep, AwaitDaemon, ReconcileImages
    <2>. QED
      BY <2>1, BeforeGateIs
  <1>7. CASE CreateJob(r) \/ AwaitJob(r)
    <2>1. session'.st \in {session.st, "failed"}
      BY <1>1, <1>5, <1>7
         DEF CreateJob, PrepareRegistry, AwaitJob, Row, SessionRows
    <2>. QED
      BY <2>1, BeforeGateIs
  <1>8. CASE Gate(r)
    <2>1. "gate" \in EarlyPlaces
      BY PlacesAre, Ranks DEF EarlyPlaces
    <2>. QED
      BY <1>2, <1>8, <2>1 DEF Gate, Early
  <1>9. CASE EnterRegistry(r)
    <2>1. session'.st \in {session.st, "failed", "step_trust_registry"}
      BY <1>1, <1>9 DEF EnterRegistry, FailedAt, Status, Row, SessionRows
    <2>. QED
      BY <2>1, BeforeGateIs, AtRegistry
  <1>10. CASE EnableRegistry(r)
    <2>1. session'.st \in {session.st, "failed"}
      BY <1>1, <1>10 DEF EnableRegistry, Row, SessionRows
    <2>. QED
      BY <2>1, BeforeGateIs
  <1>11. CASE Finish(r)
    <2>1. session'.st \in {session.st, "running"}
      BY <1>1, <1>11 DEF Finish, Row, SessionRows
    <2>. QED
      BY <2>1, BeforeGateIs, PastIs
  <1>. QED
    BY <1>3, <1>4, <1>6, <1>7, <1>8, <1>9, <1>10, <1>11 DEF Drive

\* A session that was handed to its administrator enters no step before the
\* gate again, whoever resumes or recovers it with whatever row it read
\* (NeverBackBeforeTheGate; resumeFullStack and recoverSession).
THEOREM GateIsPassedOnce == Spec => NeverBackBeforeTheGate
  <1>1. ASSUME IndInv, PastRow, [Next]_vars
        PROVE  session'.st \notin BeforeGate
    <2>1. session \in SessionRows
      BY <1>1 DEF IndInv, Typed
    <2>2. ASSUME NEW r \in Runs, Drive(r) PROVE session'.st \notin BeforeGate
      BY <1>1, <2>2, DriveStaysPast
    <2>3. CASE UNCHANGED session
      BY <1>1, <2>3, BeforeGateIs
    <2>4. ASSUME NEW r \in Launched, Recover(r)
          PROVE  session'.st \notin BeforeGate
      <3>1. session.failed \in Past
        BY <1>1, <2>4, PastIs DEF PastRow, Recover
      <3>2. session'.st = session.failed
        BY <2>1, <2>4 DEF Recover, SessionRows
      <3>. QED
        BY <3>1, <3>2, BeforeGateIs
    <2>5. CASE ProvisionAdmin
      BY <1>1, <2>5, PastIs DEF ProvisionAdmin, PastRow
    <2>6. CASE Deletion
      <3>1. session' = session \/ session'.st \in {"deleting", "gone"}
        BY <2>1, <2>6 DEF Deletion, DeleteAsk, DeleteGivesUp, DeleteResources,
                          DeleteRow, Status, Row, SessionRows
      <3>. QED
        BY <1>1, <3>1, BeforeGateIs
    <2>7. \/ \E r \in Runs : Drive(r)
          \/ UNCHANGED session
          \/ \E r \in Launched : Recover(r)
          \/ ProvisionAdmin
          \/ Deletion
      BY <1>1 DEF Next, Kubernetes, JobEnds, DaemonReady, Hour, Create, Boot,
                  ProvisionTick, Heartbeat, HeartbeatLost, Crash, vars
    <2>. QED
      BY <2>2, <2>3, <2>4, <2>5, <2>6, <2>7
  <1>2. IndInv /\ [Next]_vars =>
          [session.st \in Past \/ (session.st = "failed"
                                   /\ session.failed \in Past)
             => session'.st \notin
                    ResumePreGate \cup {"deploy_dids", "deploy_mediator",
                                        "awaiting_admin_did"}]_vars
    BY <1>1 DEF PastRow, BeforeGate
  <1>. QED
    BY <1>2, Invariance, PTL DEF Spec, NeverBackBeforeTheGate

=============================================================================
