-------------------------- MODULE ConnectionProofs --------------------------
(***************************************************************************)
(* The safety of the administrator gate for any number of sessions, keys,  *)
(* replicas, reservations and faults.                                     *)
(***************************************************************************)
EXTENDS Connection, TLAPS

----------------------------------------------------------------------------
(* The inductive invariant *)

\* Reservations are numbered in the order of their creation.
UsedRows == \A c \in Ids : conn[c].status = "free" <=> c > last

\* Only the newest reservation of a session can be active.
ActiveIsCurrent ==
    \A c, d \in Ids : /\ conn[c].status \in Active
                      /\ d <= last
                      /\ conn[d].session = conn[c].session
                      => d <= c

\* From the claim to the hand-over the row carries the claimant's key.
ClaimantKept ==
    \A c \in Ids : conn[c].status \in {"claimed", "confirmed", "provisioning"}
                      => conn[c].admin \in Keys

\* What the workers will install comes from an approved row.
ApprovedRows ==
    \A c \in Ids : conn[c].status \in {"confirmed", "provisioning"}
                      => conn[c].admin \in approved[conn[c].session]

\* A gate that is still waiting has no administrator.
GateIsFree == \A s \in Sessions : Ready(s) => sess[s].admin = NoKey

\* The provisioning worker carries the session's own administrator.
WorkerKey ==
    \A s \in Sessions :
       /\ worker[s].pc \notin {"idle", "kicked"}
             => worker[s].key \in Keys /\ worker[s].key = sess[s].admin
       /\ worker[s].pc \in {"imported"} \cup Deployed
             => sess[s].admin \in acl[s]

\* None of a session's recovery goroutines is at a step behind the import.
NoneDeploys(v) == \A g \in Recoveries : v[g].pc \notin Deployed

\* A session past its import, one that failed there, and the recovery that
\* takes it up again have their first administrator installed.
PipelineInstalled ==
    \A s \in Sessions :
       \/ sess[s].admin \in acl[s]
       \/ /\ sess[s].status \notin Deployed \cup {"running"}
          /\ sess[s].stage \notin Deployed
          /\ NoneDeploys(rec[s])

\* A grant job carries an approved key, and works for a VTA whose first
\* administrator is installed.
JobKey ==
    \A r \in Replicas :
       /\ job[r].pc \in {"started", "granting", "granted"}
             => job[r].key \in approved[job[r].session]
       /\ job[r].pc = "granting"
             => sess[job[r].session].admin \in acl[job[r].session]
       /\ job[r].pc = "granted" => job[r].key \in acl[job[r].session]

\* The request a grant job works for has been started and keeps its key.
JobRow ==
    \A r \in Replicas : job[r].pc # "idle" /\ job[r].id # 0 =>
       LET c == job[r].id IN
       /\ conn[c].session = job[r].session
       /\ conn[c].status \in {"provisioning", "released", "failed", "cancelled"}
       /\ conn[c].status = "provisioning" => conn[c].admin = job[r].key

\* What a reader loaded stays good enough for Reconcile to act on.
ViewIsSafe ==
    /\ view.id # 0 => view.id <= last
    /\ (view.id # 0 /\ view.status = "provisioning") =>
          LET c == view.id IN
          /\ conn[c].status \in {"provisioning", "released", "failed", "cancelled"}
          /\ conn[c].status = "provisioning" => conn[c].admin = view.admin
    /\ (view.id # 0 /\ view.sstatus = "running") =>
          view.sadmin \in acl[conn[view.id].session]

IndInv == /\ TypeOK
          /\ UsedRows
          /\ ActiveIsCurrent
          /\ DiscardedKeys
          /\ ClaimantKept
          /\ ConfirmedHoldsTheGate
          /\ AdminOnlyAfterApproval
          /\ ApprovedRows
          /\ GateIsFree
          /\ WorkerKey
          /\ PipelineInstalled
          /\ JobKey
          /\ JobRow
          /\ ViewIsSafe
          /\ ReleasedMeansInstalled

----------------------------------------------------------------------------
(* What every step does to the reservations and the keys *)

\* The moves of one reservation, with what makes each of them legitimate.
RowStep(c) ==
    LET r == conn[c]  q == conn'[c]  s == conn[c].session IN
    /\ r.status # "free" => q.session = s
    /\ \/ q.status = r.status /\ q.admin = r.admin /\ q.op = r.op
       \/ /\ r.status = "free" /\ c = last + 1 /\ last' = last + 1
          /\ q.status = "open" /\ q.admin = NoKey
       \/ /\ r.status = "open" /\ q.status = "claimed" /\ q.admin \in Keys
          /\ q.op = "provision_vta" => sess[s].admin = NoKey
       \/ r.status \in {"open", "claimed"} /\ q.status = "lapsed" /\ q.admin = NoKey
       \/ r.status = "claimed" /\ q.status = "rejected" /\ q.admin = NoKey
       \/ /\ r.status = "claimed" /\ q.status = "confirmed"
          /\ q.admin = r.admin /\ q.op = r.op /\ r.admin \in approved'[s]
       \/ /\ r.status = "confirmed" /\ q.status = "provisioning"
          /\ q.admin = r.admin /\ q.op = r.op
       \/ /\ r.status = "provisioning" /\ q.status = "released"
          /\ q.admin = r.admin /\ r.admin \in acl[s]
       \/ /\ r.status \in {"confirmed", "provisioning"}
          /\ q.status = "cancelled" /\ q.admin = NoKey
       \/ r.status = "provisioning" /\ q.status = "failed"

\* Keys that were approved or installed stay so, and an administrator stays.
KeysStay ==
    \A s \in Sessions : /\ acl[s] \subseteq acl'[s]
                        /\ approved[s] \subseteq approved'[s]
                        /\ sess[s].admin # NoKey => sess'[s].admin = sess[s].admin

Progress == KeysStay /\ \A c \in Ids : RowStep(c)

LEMMA RowTypes ==
    ASSUME TypeOK, NEW c \in Ids
    PROVE  /\ conn[c] \in ConnRow
           /\ conn[c].session \in Sessions
           /\ conn[c].status \in ConnStatus
           /\ conn[c].admin \in Keys \cup {NoKey}
  BY DEF TypeOK, ConnRow

\* The typing facts the proofs below lean on, without the record types.
LEMMA Types ==
    ASSUME TypeOK
    PROVE  /\ last \in Nat
           /\ Ids \subseteq Nat \ {0}
           /\ \A s \in Sessions : acl[s] \subseteq Keys /\ NoKey \notin acl[s]
           /\ \A s \in Sessions : sess[s].status \in SessStatus
                                  /\ sess[s].admin \in Keys \cup {NoKey}
           /\ \A r \in Replicas : /\ job[r].session \in Sessions
                                  /\ job[r].id \in Ids \cup {0}
                                  /\ job[r].key \in Keys \cup {NoKey}
           /\ view.id \in Ids \cup {0}
<1>1. last \in 0 .. MaxRequests
  BY DEF TypeOK
<1>2. last \in Nat /\ Ids \subseteq Nat \ {0}
  BY <1>1, ConnectionAssumption DEF Ids
<1>3. \A s \in Sessions : acl[s] \subseteq Keys /\ NoKey \notin acl[s]
  BY ConnectionAssumption DEF TypeOK
<1>4. \A s \in Sessions : sess[s].status \in SessStatus /\ sess[s].admin \in Keys \cup {NoKey}
  BY DEF TypeOK, SessRow
<1>5. \A r \in Replicas : /\ job[r].session \in Sessions
                          /\ job[r].id \in Ids \cup {0}
                          /\ job[r].key \in Keys \cup {NoKey}
  BY DEF TypeOK, JobState
<1>6. view.id \in Ids \cup {0}
  BY DEF TypeOK, ViewState
<1> QED BY <1>2, <1>3, <1>4, <1>5, <1>6

LEMMA FrameRows ==
    ASSUME IndInv, TypeOK', Progress
    PROVE  DiscardedKeys' /\ ClaimantKept' /\ ApprovedRows'
<1>1. DiscardedKeys'
  BY RowTypes DEF IndInv, DiscardedKeys, Progress, RowStep
<1>2. ClaimantKept'
  BY RowTypes DEF IndInv, ClaimantKept, Progress, RowStep
<1>3. ApprovedRows'
  <2> SUFFICES ASSUME NEW c \in Ids, conn'[c].status \in {"confirmed", "provisioning"}
               PROVE  conn'[c].admin \in approved'[conn'[c].session]
    BY DEF ApprovedRows
  <2> QED BY RowTypes DEF IndInv, ApprovedRows, Progress, RowStep, KeysStay
<1> QED BY <1>1, <1>2, <1>3

LEMMA FrameOrder ==
    ASSUME IndInv, TypeOK', Progress, last' = last
    PROVE  UsedRows' /\ ActiveIsCurrent'
<1> USE RowTypes, Types
<1>1. UsedRows'
  BY DEF IndInv, UsedRows, Progress, RowStep
<1>2. ActiveIsCurrent'
  BY DEF IndInv, UsedRows, ActiveIsCurrent, Progress, RowStep, Active
<1> QED BY <1>1, <1>2

LEMMA FrameGate ==
    ASSUME IndInv, TypeOK', Progress,
           \A s \in Sessions : sess'[s].admin = sess[s].admin
    PROVE  ConfirmedHoldsTheGate'
  BY RowTypes DEF IndInv, ConfirmedHoldsTheGate, Progress, RowStep

LEMMA FrameWorker ==
    ASSUME IndInv, TypeOK', Progress, worker' = worker
    PROVE  WorkerKey'
  BY Types, ConnectionAssumption DEF IndInv, WorkerKey, Progress, KeysStay

LEMMA FramePipeline ==
    ASSUME IndInv, TypeOK', Progress, rec' = rec,
           \A s \in Sessions : /\ sess'[s].status \in Deployed \cup {"running"}
                                     => sess'[s].status = sess[s].status
                               /\ sess'[s].stage = sess[s].stage
    PROVE  PipelineInstalled'
  BY Types DEF IndInv, PipelineInstalled, Progress, KeysStay

LEMMA FrameJob ==
    ASSUME IndInv, TypeOK', Progress, job' = job
    PROVE  JobKey' /\ JobRow'
<1> USE RowTypes, Types
<1>1. JobKey'
  BY DEF IndInv, JobKey, Progress, KeysStay
<1>2. JobRow'
  BY DEF IndInv, JobRow, Progress, RowStep
<1> QED BY <1>1, <1>2

LEMMA FrameView ==
    ASSUME IndInv, TypeOK', Progress, view' = view, last' \in {last, last + 1}
    PROVE  ViewIsSafe'
  BY RowTypes, Types DEF IndInv, ViewIsSafe, UsedRows, Progress, RowStep, KeysStay

LEMMA FrameReleased ==
    ASSUME IndInv, TypeOK', Progress, bound' = bound
    PROVE  ReleasedMeansInstalled'
  BY RowTypes DEF IndInv, ReleasedMeansInstalled, Progress, RowStep, KeysStay

LEMMA FrameApproval ==
    ASSUME IndInv, Progress, acl' = acl,
           \A s \in Sessions : sess'[s].admin = sess[s].admin
    PROVE  AdminOnlyAfterApproval'
  BY DEF IndInv, AdminOnlyAfterApproval, Progress, KeysStay

----------------------------------------------------------------------------
(* How one row of the table is written *)

LEMMA RowWrites ==
    ASSUME NEW r \in ConnRow, NEW st \in ConnStatus
    PROVE  /\ LET q == [r EXCEPT !.status = st] IN
                /\ q \in ConnRow /\ q.status = st /\ q.session = r.session
                /\ q.admin = r.admin /\ q.op = r.op
           /\ LET q == [r EXCEPT !.status = st, !.admin = NoKey] IN
                /\ q \in ConnRow /\ q.status = st /\ q.session = r.session
                /\ q.admin = NoKey /\ q.op = r.op
  BY DEF ConnRow

LEMMA RowLapse ==
    ASSUME NEW r \in ConnRow
    PROVE  /\ Lapse(r) \in ConnRow /\ Lapse(r).status = "lapsed"
           /\ Lapse(r).session = r.session /\ Lapse(r).admin = NoKey
  BY DEF Lapse, ConnRow, ConnStatus, Final

LEMMA RowFlags ==
    ASSUME NEW r \in ConnRow
    PROVE  /\ LET q == [r EXCEPT !.cooled = TRUE] IN
                /\ q \in ConnRow /\ q.status = r.status /\ q.session = r.session
                /\ q.admin = r.admin /\ q.op = r.op
           /\ LET q == [r EXCEPT !.late = TRUE] IN
                /\ q \in ConnRow /\ q.status = r.status /\ q.session = r.session
                /\ q.admin = r.admin /\ q.op = r.op
  BY DEF ConnRow

LEMMA RowConfirm ==
    ASSUME NEW r \in ConnRow
    PROVE  LET q == [r EXCEPT !.status = "confirmed", !.confirmed = TRUE] IN
           /\ q \in ConnRow /\ q.status = "confirmed" /\ q.session = r.session
           /\ q.admin = r.admin /\ q.op = r.op
  BY DEF ConnRow, ConnStatus, Active

LEMMA OpTypes == \A s \in Sessions : OperationFor(s) \in {"", "provision_vta", "grant_acl"}
  BY DEF OperationFor

\* A write to one row moves no other row.
LEMMA OneRow ==
    ASSUME TypeOK, NEW c \in Ids, NEW q \in ConnRow, conn' = [conn EXCEPT ![c] = q],
           RowStep(c)
    PROVE  conn' \in [Ids -> ConnRow] /\ \A d \in Ids : RowStep(d)
<1>1. conn \in [Ids -> ConnRow]
  BY DEF TypeOK
<1>2. \A d \in Ids : d # c => RowStep(d)
  BY <1>1 DEF RowStep
<1> QED BY <1>1, <1>2

LEMMA SameRows ==
    ASSUME TypeOK, conn' = conn
    PROVE  \A d \in Ids : RowStep(d)
  BY DEF RowStep

\* What holds of the next state when an action leaves the variables alone.
LEMMA Frame ==
    ASSUME IndInv, TypeOK', Progress
    PROVE  /\ DiscardedKeys' /\ ClaimantKept' /\ ApprovedRows'
           /\ last' = last => UsedRows' /\ ActiveIsCurrent'
           /\ sess' = sess => ConfirmedHoldsTheGate' /\ GateIsFree'
           /\ sess' = sess /\ acl' = acl => AdminOnlyAfterApproval'
           /\ worker' = worker => WorkerKey'
           /\ sess' = sess /\ rec' = rec => PipelineInstalled'
           /\ job' = job => JobKey' /\ JobRow'
           /\ view' = view /\ last' = last => ViewIsSafe'
           /\ bound' = bound => ReleasedMeansInstalled'
<1>1. sess' = sess => GateIsFree'
  BY DEF IndInv, GateIsFree, Ready
<1> QED BY <1>1, FrameRows, FrameOrder, FrameGate, FrameWorker, FramePipeline,
           FrameJob, FrameView, FrameReleased, FrameApproval

\* The actions that write one row of the table and nothing else.
LEMMA RowOnly ==
    ASSUME IndInv, NEW c \in Ids, NEW q \in ConnRow, conn' = [conn EXCEPT ![c] = q],
           RowStep(c),
           UNCHANGED <<sess, last, starting, worker, rec, boot, job, view, acl,
                       approved, bound, faults>>
    PROVE  IndInv' /\ Progress
<1>1. TypeOK' /\ Progress
  BY OneRow DEF IndInv, TypeOK, Progress, KeysStay
<1> QED BY <1>1, Frame DEF IndInv

LEMMA ChangeCancelStep ==
    ASSUME IndInv, NEW c \in Ids, ChangeCancel(c) PROVE IndInv' /\ Progress
<1>1. conn[c] \in ConnRow
  BY RowTypes DEF IndInv
<1>2. conn' = [conn EXCEPT ![c] = Lapse(conn[c])]
  BY <1>1 DEF ChangeCancel, IndInv, TypeOK
<1>3. RowStep(c)
  BY <1>1, <1>2, RowLapse DEF RowStep, ChangeCancel, IndInv, TypeOK
<1> QED BY <1>1, <1>2, <1>3, RowLapse, RowOnly DEF ChangeCancel

LEMMA RejectStep ==
    ASSUME IndInv, NEW c \in Ids, Reject(c) PROVE IndInv' /\ Progress
<1> DEFINE q == [conn[c] EXCEPT !.status = "rejected", !.admin = NoKey]
<1>1. conn[c] \in ConnRow /\ "rejected" \in ConnStatus
  BY RowTypes DEF IndInv, ConnStatus, Final
<1>2. q \in ConnRow /\ q.status = "rejected" /\ q.session = conn[c].session /\ q.admin = NoKey
  BY <1>1, RowWrites
<1>3. conn' = [conn EXCEPT ![c] = q] /\ conn'[c] = q
  BY DEF Reject, IndInv, TypeOK
<1>4. RowStep(c)
  BY <1>2, <1>3 DEF RowStep, Reject
<1> QED BY <1>2, <1>3, <1>4, RowOnly DEF Reject

LEMMA ClaimStep ==
    ASSUME IndInv, NEW c \in Ids, NEW k \in Keys, Claim(c, k) PROVE IndInv' /\ Progress
<1> DEFINE op == OperationFor(conn[c].session)
           q  == [conn[c] EXCEPT !.status = "claimed", !.op = op, !.admin = k,
                                 !.confirmed = FALSE]
<1>1. conn[c] \in ConnRow /\ conn[c].session \in Sessions
  BY RowTypes DEF IndInv
<1>2. conn' = [conn EXCEPT ![c] = q] /\ conn'[c] = q
  BY DEF Claim, IndInv, TypeOK
<1>3. /\ op \in {"", "provision_vta", "grant_acl"}
      /\ op = "provision_vta" => sess[conn[c].session].admin = NoKey
  BY <1>1, OpTypes DEF OperationFor
<1> HIDE DEF op
<1>4. /\ q \in ConnRow /\ q.status = "claimed" /\ q.session = conn[c].session
      /\ q.admin = k /\ q.op = op
  BY <1>1, <1>3 DEF ConnRow, ConnStatus, Active
<1>5. RowStep(c)
  BY <1>2, <1>3, <1>4 DEF RowStep, Claim
<1> QED BY <1>2, <1>4, <1>5, RowOnly DEF Claim

LEMMA ClockStep ==
    ASSUME IndInv, NEW c \in Ids, Cool(c) \/ Deadline(c) PROVE IndInv' /\ Progress
<1>0. conn[c] \in ConnRow
  BY RowTypes DEF IndInv
<1>1. CASE Cool(c)
  <2> DEFINE q == [conn[c] EXCEPT !.cooled = TRUE]
  <2>1. conn' = [conn EXCEPT ![c] = q] /\ conn'[c] = q
    BY <1>1 DEF Cool, IndInv, TypeOK
  <2>2. RowStep(c) /\ q \in ConnRow
    BY <1>0, <2>1, RowFlags DEF RowStep
  <2> QED BY <1>1, <2>1, <2>2, RowOnly DEF Cool
<1>2. CASE Deadline(c)
  <2> DEFINE q == [conn[c] EXCEPT !.late = TRUE]
  <2>1. conn' = [conn EXCEPT ![c] = q] /\ conn'[c] = q
    BY <1>2 DEF Deadline, IndInv, TypeOK
  <2>2. RowStep(c) /\ q \in ConnRow
    BY <1>0, <2>1, RowFlags DEF RowStep
  <2> QED BY <1>2, <2>1, <2>2, RowOnly DEF Deadline
<1> QED BY <1>1, <1>2

\* The person's confirmation is what makes the key an approved one.
LEMMA ConfirmStep ==
    ASSUME IndInv, NEW c \in Ids, Confirm(c) PROVE IndInv' /\ Progress
<1> DEFINE q == [conn[c] EXCEPT !.status = "confirmed", !.confirmed = TRUE]
           s == conn[c].session
<1>1. conn[c] \in ConnRow /\ s \in Sessions /\ conn[c].admin \in Keys
  BY RowTypes DEF IndInv, Confirm, ClaimantKept
<1>2. /\ q \in ConnRow /\ q.status = "confirmed" /\ q.session = s
      /\ q.admin = conn[c].admin /\ q.op = conn[c].op
  BY <1>1, RowConfirm
<1>3. conn' = [conn EXCEPT ![c] = q] /\ conn'[c] = q
  BY DEF Confirm, IndInv, TypeOK
<1>4. /\ approved' \in [Sessions -> SUBSET Keys]
      /\ conn[c].admin \in approved'[s]
      /\ \A z \in Sessions : approved[z] \subseteq approved'[z]
  BY <1>1 DEF Confirm, IndInv, TypeOK
<1>5. RowStep(c)
  BY <1>2, <1>3, <1>4 DEF RowStep, Confirm
<1>6. TypeOK' /\ Progress
  BY <1>2, <1>3, <1>4, <1>5, OneRow DEF IndInv, TypeOK, Progress, KeysStay, Confirm
<1> QED BY <1>6, Frame DEF IndInv, Confirm

\* The actions that leave the tables and the VTA alone.
LEMMA TablesKept ==
    ASSUME IndInv, UNCHANGED <<sess, conn, last, acl, approved>>
    PROVE  Progress
  BY SameRows DEF IndInv, Progress, KeysStay

LEMMA LoadViewStep ==
    ASSUME IndInv, NEW c \in Ids, LoadView(c) PROVE IndInv' /\ Progress
<1>1. Progress
  BY TablesKept DEF LoadView
<1>2. TypeOK'
  <2>1. conn[c].op \in {"", "provision_vta", "grant_acl"}
    BY RowTypes DEF IndInv, ConnRow
  <2>2. view' \in ViewState
    BY <2>1, RowTypes, Types DEF IndInv, LoadView, ViewState
  <2> QED BY <2>2 DEF IndInv, TypeOK, LoadView
<1>3. ViewIsSafe'
  BY RowTypes, Types DEF IndInv, LoadView, ViewIsSafe, PipelineInstalled
<1> QED BY <1>1, <1>2, <1>3, Frame DEF IndInv, LoadView

\* A worker, a recovery or a job that is written at one place.
LEMMA WorkerMoves ==
    ASSUME IndInv, NEW s \in Sessions, NEW w \in WorkerState,
           worker' = [worker EXCEPT ![s] = w]
    PROVE  /\ worker' \in [Sessions -> WorkerState]
           /\ worker'[s] = w
           /\ \A z \in Sessions : z # s => worker'[z] = worker[z]
  BY DEF IndInv, TypeOK

LEMMA WorkerValues ==
    ASSUME IndInv, NEW s \in Sessions
    PROVE  /\ worker[s] \in WorkerState
           /\ Idle \in WorkerState /\ Idle.pc = "idle"
  BY DEF IndInv, TypeOK, Idle, WorkerState

\* Worker steps that only move the worker.
LEMMA WorkerWaitStep ==
    ASSUME IndInv, NEW s \in Sessions,
           KickProvision(s) \/ WorkerLoad(s) \/ WorkerPing(s) \/ WorkerAbort(s)
    PROVE  IndInv' /\ Progress
<1>1. Progress
  BY TablesKept DEF KickProvision, WorkerLoad, WorkerPing, WorkerAbort
<1>2. PICK w \in WorkerState :
         /\ worker' = [worker EXCEPT ![s] = w]
         /\ \/ w.pc \in {"idle", "kicked"}
            \/ w.pc = "loaded" /\ w.key = sess[s].admin /\ sess[s].admin # NoKey
            \/ w.pc = worker[s].pc /\ w.key = worker[s].key
  <2>1. CASE KickProvision(s)
    <3> DEFINE w == [pc |-> "kicked", key |-> NoKey, cancelled |-> FALSE]
    <3>1. w \in WorkerState /\ w.pc = "kicked"
      BY DEF WorkerState
    <3> QED BY <2>1, <3>1 DEF KickProvision
  <2>2. CASE WorkerLoad(s)
    <3> DEFINE w == [worker[s] EXCEPT !.pc = "loaded", !.key = sess[s].admin]
    <3>1. w \in WorkerState /\ w.pc = "loaded" /\ w.key = sess[s].admin
      BY WorkerValues, Types DEF IndInv, WorkerState
    <3>2. worker' = [worker EXCEPT ![s] =
             IF sess[s].status \in Resumable /\ sess[s].admin # NoKey THEN w ELSE Idle]
      BY <2>2 DEF WorkerLoad
    <3> HIDE DEF w
    <3> QED BY <3>1, <3>2, WorkerValues
  <2>3. CASE WorkerAbort(s)
    BY <2>3, WorkerValues DEF WorkerAbort
  <2>4. CASE WorkerPing(s)
    <3> DEFINE w == [worker[s] EXCEPT !.cancelled = TRUE]
    <3>1. w \in WorkerState /\ w.pc = worker[s].pc /\ w.key = worker[s].key
      BY WorkerValues DEF WorkerState
    <3>2. worker' = [worker EXCEPT ![s] = w]
      BY <2>4 DEF WorkerPing
    <3> QED BY <3>1, <3>2
  <2> QED BY <2>1, <2>2, <2>3, <2>4
<1>3. TypeOK'
  <2>1. faults' \in 0 .. MaxFaults
    BY ConnectionAssumption
    DEF IndInv, TypeOK, KickProvision, WorkerLoad, WorkerPing, WorkerAbort
  <2> QED BY <1>2, <2>1, WorkerMoves
          DEF IndInv, TypeOK, KickProvision, WorkerLoad, WorkerPing, WorkerAbort
<1>4. WorkerKey'
  <2>1. UNCHANGED <<sess, acl>>
    BY DEF KickProvision, WorkerLoad, WorkerPing, WorkerAbort
  <2> QED BY <1>2, <2>1, WorkerMoves, Types DEF IndInv, WorkerKey, Deployed
<1> QED BY <1>1, <1>3, <1>4, Frame
        DEF IndInv, KickProvision, WorkerLoad, WorkerPing, WorkerAbort

\* Writing one of a session's recovery goroutines, and cancelling some of them.
LEMMA RecoveryMoves ==
    ASSUME NEW v \in RecTable, NEW g \in Recoveries, NEW q \in RecState
    PROVE  LET w == [v EXCEPT ![g] = q] IN
           /\ w \in RecTable
           /\ NoneDeploys(v) /\ q.pc \notin Deployed => NoneDeploys(w)
  BY DEF RecTable, NoneDeploys

LEMMA CancelRecoveriesValue ==
    ASSUME NEW s \in Sessions, rec[s] \in RecTable, NEW cut
    PROVE  /\ CancelRecoveries(s, cut) \in RecTable
           /\ NoneDeploys(rec[s]) <=> NoneDeploys(CancelRecoveries(s, cut))
<1> DEFINE b(g) == rec[s][g].cancelled \/ (g \in cut /\ rec[s][g].pc # "idle")
           v(g) == [rec[s][g] EXCEPT !.cancelled = b(g)]
<1>1. \A g \in Recoveries : v(g) \in RecState /\ v(g).pc = rec[s][g].pc
  <2> SUFFICES ASSUME NEW g \in Recoveries
               PROVE  v(g) \in RecState /\ v(g).pc = rec[s][g].pc
    OBVIOUS
  <2>1. rec[s][g] \in RecState
    BY DEF RecTable
  <2>2. b(g) \in BOOLEAN
    BY <2>1 DEF RecState
  <2> HIDE DEF b
  <2> QED BY <2>1, <2>2 DEF RecState
<1>2. CancelRecoveries(s, cut) = [g \in Recoveries |-> v(g)]
  BY DEF CancelRecoveries
<1> HIDE DEF v
<1> QED BY <1>1, <1>2 DEF RecTable, NoneDeploys

LEMMA LaunchValue ==
    ASSUME IndInv, NEW s \in Sessions, NEW g \in Recoveries, Launch(s, g)
    PROVE  \E v \in RecTable : /\ rec' = [rec EXCEPT ![s] = v]
                               /\ NoneDeploys(rec[s]) => NoneDeploys(v)
<1> DEFINE q == [pc |-> "launched", cancelled |-> FALSE]
<1>1. q \in RecState /\ q.pc \notin Deployed
  BY DEF RecState, Deployed
<1>2. PICK cut \in SUBSET (Recoveries \ {g}) :
         rec' = [rec EXCEPT ![s] = [CancelRecoveries(s, cut) EXCEPT ![g] = q]]
  BY DEF Launch
<1>3. /\ CancelRecoveries(s, cut) \in RecTable
      /\ NoneDeploys(rec[s]) => NoneDeploys(CancelRecoveries(s, cut))
  BY CancelRecoveriesValue DEF IndInv, TypeOK
<1> HIDE DEF q
<1> QED BY <1>1, <1>2, <1>3, RecoveryMoves

\* Recovery steps that only move the recovery goroutines.
LEMMA RecoveryWaitStep ==
    ASSUME IndInv, NEW s \in Sessions, NEW g \in Recoveries,
           ResumeDeployment(s, g) \/ RecoveryLoad(s, g)
    PROVE  IndInv' /\ Progress
<1>1. Progress
  BY TablesKept DEF ResumeDeployment, RecoveryLoad
<1>2. rec \in [Sessions -> RecTable] /\ rec[s] \in RecTable
  BY DEF IndInv, TypeOK
<1>3. PICK v \in RecTable :
         /\ rec' = [rec EXCEPT ![s] = v]
         /\ sess[s].status \notin Deployed /\ NoneDeploys(rec[s]) => NoneDeploys(v)
  <2>1. CASE ResumeDeployment(s, g)
    <3>1. CASE Launch(s, g)
      BY <3>1, LaunchValue
    <3>2. CASE UNCHANGED rec
      <4>1. rec' = [rec EXCEPT ![s] = rec[s]]
        BY <1>2, <3>2
      <4> QED BY <1>2, <4>1
    <3> QED BY <2>1, <3>1, <3>2 DEF ResumeDeployment
  <2>2. CASE RecoveryLoad(s, g)
    <3> DEFINE q == [rec[s][g] EXCEPT !.pc = sess[s].status]
    <3>1. rec[s][g] \in RecState
      BY <1>2 DEF RecTable
    <3>2. /\ q \in RecState /\ q.pc = sess[s].status
          /\ Asleep \in RecState /\ Asleep.pc = "idle" /\ "idle" \notin Deployed
      BY <3>1, Types DEF IndInv, RecState, Asleep, Deployed
    <3>3. \/ rec' = [rec EXCEPT ![s] = [rec[s] EXCEPT ![g] = q]]
          \/ rec' = [rec EXCEPT ![s] = [rec[s] EXCEPT ![g] = Asleep]]
      BY <2>2 DEF RecoveryLoad
    <3> HIDE DEF q
    <3> QED BY <1>2, <3>2, <3>3, RecoveryMoves
  <2> QED BY <2>1, <2>2
<1>4. TypeOK'
  BY <1>3 DEF IndInv, TypeOK, ResumeDeployment, RecoveryLoad
<1>5. PipelineInstalled'
  <2>1. UNCHANGED <<sess, acl>>
    BY DEF ResumeDeployment, RecoveryLoad
  <2>2. rec'[s] = v /\ \A z \in Sessions : z # s => rec'[z] = rec[z]
    BY <1>2, <1>3
  <2> QED BY <1>3, <2>1, <2>2 DEF IndInv, PipelineInstalled
<1> QED BY <1>1, <1>4, <1>5, Frame DEF IndInv, ResumeDeployment, RecoveryLoad

----------------------------------------------------------------------------
(* The pipeline behind the gate *)

\* A step of the worker or of the recovery that writes the session's status:
\* the administrator stays, the gate is behind, and nothing claims to be past
\* the import unless the administrator is installed.
LEMMA PipelineStep ==
    ASSUME IndInv, NEW s \in Sessions,
           NEW q \in SessRow, NEW w \in WorkerState, NEW v \in RecTable,
           sess'   = [sess EXCEPT ![s] = q],
           worker' = [worker EXCEPT ![s] = w],
           rec'    = [rec EXCEPT ![s] = v],
           UNCHANGED <<conn, last, starting, boot, job, view, acl, approved, bound, faults>>,
           q.admin = sess[s].admin,
           q.status \notin GateStatus,
           w.pc \in {"idle", "kicked"} \/ (w.key \in Keys /\ w.key = q.admin),
           \/ q.admin \in acl[s]
           \/ /\ w.pc \notin {"imported"} \cup Deployed
              /\ q.status \notin Deployed \cup {"running"}
              /\ q.stage \notin Deployed
              /\ NoneDeploys(v)
    PROVE  IndInv' /\ Progress
<1>1. /\ sess'[s] = q /\ worker'[s] = w /\ rec'[s] = v
      /\ \A z \in Sessions : z # s => /\ sess'[z] = sess[z]
                                      /\ worker'[z] = worker[z]
                                      /\ rec'[z] = rec[z]
  BY DEF IndInv, TypeOK
<1>2. TypeOK'
  BY DEF IndInv, TypeOK
<1>3. \A z \in Sessions : sess'[z].admin = sess[z].admin
  BY <1>1
<1>4. Progress
  BY <1>3, SameRows DEF IndInv, Progress, KeysStay
<1>5. ConfirmedHoldsTheGate' /\ AdminOnlyAfterApproval'
  BY <1>2, <1>3, <1>4, FrameGate, FrameApproval
<1>6. GateIsFree'
  BY <1>1 DEF IndInv, GateIsFree, Ready
<1>7. WorkerKey'
  BY <1>1 DEF IndInv, WorkerKey
<1>8. PipelineInstalled'
  BY <1>1 DEF IndInv, PipelineInstalled
<1> QED BY <1>2, <1>4, <1>5, <1>6, <1>7, <1>8, Frame DEF IndInv

\* The values the pipeline writes.
LEMMA PipelineValues ==
    ASSUME IndInv, NEW s \in Sessions
    PROVE  /\ sess[s] \in SessRow /\ worker[s] \in WorkerState /\ rec[s] \in RecTable
           /\ worker = [worker EXCEPT ![s] = worker[s]]
           /\ rec = [rec EXCEPT ![s] = rec[s]]
           /\ Idle \in WorkerState /\ Idle.pc = "idle"
           /\ Asleep \in RecState /\ Asleep.pc = "idle"
           /\ "idle" \notin Deployed /\ "launched" \notin Deployed
           /\ worker[s].pc \in {"idle", "kicked"}
              \/ (worker[s].key \in Keys /\ worker[s].key = sess[s].admin)
           /\ worker[s].pc \in {"imported"} \cup Deployed => sess[s].admin \in acl[s]
<1>1. sess[s] \in SessRow /\ worker[s] \in WorkerState /\ rec[s] \in RecTable
  BY DEF IndInv, TypeOK
<1>2. worker = [worker EXCEPT ![s] = worker[s]] /\ rec = [rec EXCEPT ![s] = rec[s]]
  BY DEF IndInv, TypeOK
<1>3. Idle \in WorkerState /\ Asleep \in RecState
  BY DEF Idle, Asleep, WorkerState, RecState
<1>4. /\ Idle.pc = "idle" /\ Asleep.pc = "idle"
      /\ "idle" \notin Deployed /\ "launched" \notin Deployed
  BY DEF Idle, Asleep, Deployed
<1>5. /\ worker[s].pc \in {"idle", "kicked"}
         \/ (worker[s].key \in Keys /\ worker[s].key = sess[s].admin)
      /\ worker[s].pc \in {"imported"} \cup Deployed => sess[s].admin \in acl[s]
  BY DEF IndInv, WorkerKey
<1> QED BY <1>1, <1>2, <1>3, <1>4, <1>5

LEMMA StatusValues ==
    /\ \A z \in Sessions : Provision(z) \in SessStatus /\ Provision(z) \notin Deployed \cup {"running"} \cup GateStatus
    /\ {"running", "failed", "deleting"} \subseteq SessStatus \ GateStatus
    /\ Deployed \subseteq SessStatus \ GateStatus
    /\ "failed" \notin Deployed \cup {"running"}
    /\ "deleting" \notin Deployed \cup {"running"}
    /\ "deploy_vta" \in Deployed
  BY DEF Provision, SessStatus, GateStatus, Resumable, Deployed

LEMMA FailedValue ==
    ASSUME NEW r \in SessRow, NEW stage \in SessStatus
    PROVE  /\ Failed(r, stage) \in SessRow
           /\ Failed(r, stage).status = "failed"
           /\ Failed(r, stage).admin = r.admin
           /\ Failed(r, stage).stage \in {r.stage, stage}
<1>1. "failed" \in SessStatus
  BY StatusValues
<1> QED BY <1>1 DEF Failed, SessRow

LEMMA FollowingValue ==
    \A step \in {"imported", "deploy_vta", "step_vtc_setup"} :
       Following(step) \in Deployed
  BY DEF Following, Deployed

LEMMA SessMoves ==
    ASSUME NEW r \in SessRow, NEW st \in SessStatus
    PROVE  LET q == [r EXCEPT !.status = st] IN
           q \in SessRow /\ q.status = st /\ q.admin = r.admin /\ q.stage = r.stage
  BY DEF SessRow

LEMMA WorkerWrites ==
    ASSUME NEW w \in WorkerState, NEW step \in WorkerSteps
    PROVE  LET q == [w EXCEPT !.pc = step] IN
           q \in WorkerState /\ q.pc = step /\ q.key = w.key
  BY DEF WorkerState

LEMMA RecWrites ==
    ASSUME NEW v \in RecState, NEW step \in SessStatus
    PROVE  LET q == [v EXCEPT !.pc = step] IN q \in RecState /\ q.pc = step
  BY DEF RecState

LEMMA WorkerBeginStep ==
    ASSUME IndInv, NEW s \in Sessions, WorkerBegin(s) PROVE IndInv' /\ Progress
<1> DEFINE q == [sess[s] EXCEPT !.status = Provision(s), !.admin = worker[s].key]
           w == [worker[s] EXCEPT !.pc = "importing"]
<1>1. worker[s].key \in Keys /\ worker[s].key = sess[s].admin
  BY DEF IndInv, WorkerKey, WorkerBegin
<1>2. /\ q \in SessRow /\ q.status = Provision(s) /\ q.admin = sess[s].admin
      /\ q.stage = sess[s].stage
  <2>1. sess[s] \in SessRow /\ Provision(s) \in SessStatus
    BY PipelineValues, StatusValues
  <2> QED BY <1>1, <2>1 DEF SessRow
<1>3. w \in WorkerState /\ w.pc = "importing" /\ w.key = worker[s].key
  BY PipelineValues, WorkerWrites DEF WorkerSteps
<1>4. sess' = [sess EXCEPT ![s] = q] /\ worker' = [worker EXCEPT ![s] = w]
  BY DEF WorkerBegin
<1>5. sess[s].admin \in acl[s] \/ (sess[s].stage \notin Deployed /\ NoneDeploys(rec[s]))
  BY DEF IndInv, PipelineInstalled
<1>6. "importing" \notin {"imported"} \cup Deployed
  BY DEF Deployed
<1>7. /\ rec[s] \in RecTable /\ rec' = [rec EXCEPT ![s] = rec[s]]
      /\ UNCHANGED <<conn, last, starting, boot, job, view, acl, approved, bound, faults>>
  BY PipelineValues DEF WorkerBegin
<1> HIDE DEF q, w
<1>8. /\ q.status \notin GateStatus
      /\ q.status \notin Deployed \cup {"running"}
      /\ w.key \in Keys /\ w.key = q.admin
      /\ w.pc \notin {"imported"} \cup Deployed
      /\ q.admin \in acl[s] \/ (q.stage \notin Deployed /\ NoneDeploys(rec[s]))
  BY <1>1, <1>2, <1>3, <1>5, <1>6, StatusValues
<1> QED BY <1>2, <1>3, <1>4, <1>7, <1>8, PipelineStep

LEMMA WorkerAdvanceStep ==
    ASSUME IndInv, NEW s \in Sessions, WorkerAdvance(s) PROVE IndInv' /\ Progress
<1> DEFINE step == Following(worker[s].pc)
           q == [sess[s] EXCEPT !.status = step]
           w == [worker[s] EXCEPT !.pc = step]
<1>1. step \in Deployed
  BY FollowingValue DEF WorkerAdvance
<1>2. sess' = [sess EXCEPT ![s] = q] /\ worker' = [worker EXCEPT ![s] = w]
  BY DEF WorkerAdvance
<1>3. worker[s].pc \in {"imported"} \cup Deployed /\ worker[s].pc \notin {"idle", "kicked"}
  BY DEF WorkerAdvance, Deployed
<1>4. sess[s].admin \in acl[s] /\ worker[s].key \in Keys /\ worker[s].key = sess[s].admin
  BY <1>3, PipelineValues
<1> HIDE DEF step
<1>5. step \in SessStatus /\ step \notin GateStatus /\ step \in WorkerSteps
  BY <1>1, StatusValues DEF WorkerSteps
<1>6. q \in SessRow /\ q.status = step /\ q.admin = sess[s].admin
  <2>1. sess[s] \in SessRow
    BY PipelineValues
  <2> QED BY <1>5, <2>1, SessMoves
<1>7. w \in WorkerState /\ w.key = worker[s].key
  BY <1>5, PipelineValues, WorkerWrites
<1>8. /\ rec[s] \in RecTable /\ rec' = [rec EXCEPT ![s] = rec[s]]
      /\ UNCHANGED <<conn, last, starting, boot, job, view, acl, approved, bound, faults>>
  BY PipelineValues DEF WorkerAdvance
<1> HIDE DEF q, w
<1>9. /\ q.status \notin GateStatus /\ q.admin \in acl[s]
      /\ w.key \in Keys /\ w.key = q.admin
  BY <1>4, <1>5, <1>6, <1>7
<1> QED BY <1>2, <1>6, <1>7, <1>8, <1>9, PipelineStep

LEMMA WorkerFinishStep ==
    ASSUME IndInv, NEW s \in Sessions, WorkerFinish(s) PROVE IndInv' /\ Progress
<1> DEFINE g == IF s \in FullStack THEN sess[s].stage ELSE ""
           q == [sess[s] EXCEPT !.status = "running", !.stage = g]
<1>1. sess' = [sess EXCEPT ![s] = q] /\ worker' = [worker EXCEPT ![s] = Idle]
  BY DEF WorkerFinish
<1>2. g \in SessStatus \cup {""}
  BY PipelineValues DEF SessRow
<1> HIDE DEF g
<1>3. q \in SessRow /\ q.status = "running" /\ q.admin = sess[s].admin
  <2>1. sess[s] \in SessRow /\ "running" \in SessStatus
    BY PipelineValues, StatusValues
  <2> QED BY <1>2, <2>1 DEF SessRow
<1>4. worker[s].pc \in {"imported"} \cup Deployed
  BY DEF WorkerFinish, Deployed
<1>5. /\ rec[s] \in RecTable /\ rec' = [rec EXCEPT ![s] = rec[s]]
      /\ Idle \in WorkerState /\ Idle.pc \in {"idle", "kicked"}
      /\ UNCHANGED <<conn, last, starting, boot, job, view, acl, approved, bound, faults>>
  BY PipelineValues DEF WorkerFinish
<1> HIDE DEF q
<1>6. q.admin \in acl[s] /\ q.status \notin GateStatus
  BY <1>3, <1>4, PipelineValues, StatusValues
<1> QED BY <1>1, <1>3, <1>5, <1>6, PipelineStep

LEMMA WorkerFailStep ==
    ASSUME IndInv, NEW s \in Sessions, WorkerFail(s) PROVE IndInv' /\ Progress
<1>1. PICK stage \in SessStatus :
         /\ sess' = [sess EXCEPT ![s] = Failed(sess[s], stage)]
         /\ stage \in Deployed => sess[s].admin \in acl[s]
  <2>1. sess[s].status \in SessStatus /\ "deploy_vta" \in SessStatus
    BY Types, StatusValues DEF IndInv
  <2>2. sess[s].status \in Deployed => sess[s].admin \in acl[s]
    BY DEF IndInv, PipelineInstalled
  <2>3. worker[s].pc = "imported" => sess[s].admin \in acl[s]
    BY PipelineValues
  <2> QED BY <2>1, <2>2, <2>3 DEF WorkerFail
<1> DEFINE q == Failed(sess[s], stage)
<1>2. /\ q \in SessRow /\ q.status = "failed" /\ q.admin = sess[s].admin
      /\ q.stage \in {sess[s].stage, stage}
  BY PipelineValues, FailedValue
<1>3. sess[s].admin \in acl[s] \/ (sess[s].stage \notin Deployed /\ NoneDeploys(rec[s]))
  BY DEF IndInv, PipelineInstalled
<1>4. /\ rec[s] \in RecTable /\ rec' = [rec EXCEPT ![s] = rec[s]]
      /\ Idle \in WorkerState /\ Idle.pc \in {"idle", "kicked"}
      /\ worker' = [worker EXCEPT ![s] = Idle]
      /\ UNCHANGED <<conn, last, starting, boot, job, view, acl, approved, bound, faults>>
  BY PipelineValues DEF WorkerFail
<1>5. sess' = [sess EXCEPT ![s] = q]
  BY <1>1
<1> HIDE DEF q
<1>6. /\ q.status \notin GateStatus
      /\ \/ q.admin \in acl[s]
         \/ /\ Idle.pc \notin {"imported"} \cup Deployed
            /\ q.status \notin Deployed \cup {"running"}
            /\ q.stage \notin Deployed
            /\ NoneDeploys(rec[s])
  BY <1>1, <1>2, <1>3, PipelineValues, StatusValues
<1> QED BY <1>2, <1>4, <1>5, <1>6, PipelineStep

\* The import is where the administrator enters the VTA.
LEMMA WorkerImportStep ==
    ASSUME IndInv, NEW s \in Sessions, WorkerImport(s) PROVE IndInv' /\ Progress
<1> DEFINE w == [worker[s] EXCEPT !.pc = "imported"]
<1>1. worker[s].key \in Keys /\ worker[s].key = sess[s].admin
  BY DEF IndInv, WorkerKey, WorkerImport
<1>2. w \in WorkerState /\ w.key = worker[s].key
  BY PipelineValues, WorkerWrites DEF WorkerSteps
<1>3. /\ acl' \in [Sessions -> SUBSET Keys]
      /\ acl'[s] = acl[s] \cup {worker[s].key}
      /\ \A z \in Sessions : z # s => acl'[z] = acl[z]
  BY <1>1 DEF WorkerImport, IndInv, TypeOK
<1>4. worker' = [worker EXCEPT ![s] = w]
  BY DEF WorkerImport
<1> HIDE DEF w
<1>5. TypeOK'
  BY <1>2, <1>3, <1>4, WorkerMoves DEF WorkerImport, IndInv, TypeOK
<1>6. Progress
  BY <1>3, SameRows DEF IndInv, Progress, KeysStay, WorkerImport
<1>7. AdminOnlyAfterApproval'
  BY <1>1, <1>3, Types, ConnectionAssumption DEF IndInv, AdminOnlyAfterApproval, WorkerImport
<1>8. WorkerKey'
  <2>1. UNCHANGED sess
    BY DEF WorkerImport
  <2>2. worker'[s] = w /\ \A z \in Sessions : z # s => worker'[z] = worker[z]
    BY <1>2, <1>4, WorkerMoves
  <2> QED BY <1>1, <1>2, <1>3, <2>1, <2>2 DEF IndInv, WorkerKey
<1>9. PipelineInstalled'
  BY <1>6, <1>5, FramePipeline DEF WorkerImport
<1> QED BY <1>5, <1>6, <1>7, <1>8, <1>9, Frame DEF IndInv, WorkerImport

LEMMA RecoverSessionStep ==
    ASSUME IndInv, NEW s \in Sessions, NEW h \in Recoveries, RecoverSession(s, h)
    PROVE  IndInv' /\ Progress
<1> DEFINE g == sess[s].stage
           q == [sess[s] EXCEPT !.status = g, !.stage = ""]
<1>1. g \in Deployed /\ sess[s].admin \in acl[s]
  BY DEF RecoverSession, IndInv, PipelineInstalled, Deployed
<1>2. sess' = [sess EXCEPT ![s] = q]
  BY DEF RecoverSession
<1>3. PICK v \in RecTable : rec' = [rec EXCEPT ![s] = v]
  BY LaunchValue DEF RecoverSession
<1> HIDE DEF g
<1>4. g \in SessStatus /\ g \notin GateStatus
  BY <1>1, StatusValues
<1>5. q \in SessRow /\ q.status = g /\ q.admin = sess[s].admin
  <2>1. sess[s] \in SessRow
    BY PipelineValues
  <2> QED BY <1>4, <2>1 DEF SessRow
<1>6. /\ worker[s] \in WorkerState /\ worker' = [worker EXCEPT ![s] = worker[s]]
      /\ worker[s].pc \in {"idle", "kicked"}
         \/ (worker[s].key \in Keys /\ worker[s].key = sess[s].admin)
      /\ UNCHANGED <<conn, last, starting, boot, job, view, acl, approved, bound, faults>>
  BY PipelineValues DEF RecoverSession
<1> HIDE DEF q
<1>7. /\ q.status \notin GateStatus /\ q.admin \in acl[s]
      /\ worker[s].pc \in {"idle", "kicked"}
         \/ (worker[s].key \in Keys /\ worker[s].key = q.admin)
  BY <1>1, <1>4, <1>5, <1>6
<1> QED BY <1>2, <1>3, <1>5, <1>6, <1>7, PipelineStep

LEMMA RecoveryAdvanceStep ==
    ASSUME IndInv, NEW s \in Sessions, NEW h \in Recoveries, RecoveryAdvance(s, h)
    PROVE  IndInv' /\ Progress
<1> DEFINE step == Following(rec[s][h].pc)
           q == [sess[s] EXCEPT !.status = step]
           p == [rec[s][h] EXCEPT !.pc = step]
           v == [rec[s] EXCEPT ![h] = p]
<1>1. step \in Deployed
  BY FollowingValue DEF RecoveryAdvance
<1>2. sess' = [sess EXCEPT ![s] = q] /\ rec' = [rec EXCEPT ![s] = v]
  BY DEF RecoveryAdvance
<1>3. sess[s].admin \in acl[s]
  BY DEF RecoveryAdvance, IndInv, PipelineInstalled, NoneDeploys, Deployed
<1> HIDE DEF step
<1>4. step \in SessStatus /\ step \notin GateStatus
  BY <1>1, StatusValues
<1>5. q \in SessRow /\ q.status = step /\ q.admin = sess[s].admin
  <2>1. sess[s] \in SessRow
    BY PipelineValues
  <2> QED BY <1>4, <2>1, SessMoves
<1>6. v \in RecTable
  <2>1. rec[s] \in RecTable /\ rec[s][h] \in RecState
    BY PipelineValues DEF RecTable
  <2>2. p \in RecState
    BY <1>4, <2>1, RecWrites
  <2> HIDE DEF p
  <2> QED BY <2>1, <2>2, RecoveryMoves
<1>7. /\ worker[s] \in WorkerState /\ worker' = [worker EXCEPT ![s] = worker[s]]
      /\ worker[s].pc \in {"idle", "kicked"}
         \/ (worker[s].key \in Keys /\ worker[s].key = sess[s].admin)
      /\ UNCHANGED <<conn, last, starting, boot, job, view, acl, approved, bound, faults>>
  BY PipelineValues DEF RecoveryAdvance
<1> HIDE DEF q, v
<1>8. /\ q.status \notin GateStatus /\ q.admin \in acl[s]
      /\ worker[s].pc \in {"idle", "kicked"}
         \/ (worker[s].key \in Keys /\ worker[s].key = q.admin)
  BY <1>3, <1>4, <1>5, <1>7
<1> QED BY <1>2, <1>5, <1>6, <1>7, <1>8, PipelineStep

LEMMA RecoveryFinishStep ==
    ASSUME IndInv, NEW s \in Sessions, NEW h \in Recoveries, RecoveryFinish(s, h)
    PROVE  IndInv' /\ Progress
<1> DEFINE q == [sess[s] EXCEPT !.status = "running", !.stage = ""]
<1>1. q \in SessRow /\ q.status = "running" /\ q.admin = sess[s].admin
  <2>1. sess[s] \in SessRow /\ "running" \in SessStatus
    BY PipelineValues, StatusValues
  <2> QED BY <2>1 DEF SessRow
<1> DEFINE v == [rec[s] EXCEPT ![h] = Asleep]
<1>2. sess' = [sess EXCEPT ![s] = q] /\ rec' = [rec EXCEPT ![s] = v]
  BY DEF RecoveryFinish
<1>3. sess[s].admin \in acl[s]
  BY DEF RecoveryFinish, IndInv, PipelineInstalled, NoneDeploys, Deployed
<1>4. /\ worker[s] \in WorkerState /\ worker' = [worker EXCEPT ![s] = worker[s]]
      /\ worker[s].pc \in {"idle", "kicked"}
         \/ (worker[s].key \in Keys /\ worker[s].key = sess[s].admin)
      /\ v \in RecTable
      /\ UNCHANGED <<conn, last, starting, boot, job, view, acl, approved, bound, faults>>
  BY PipelineValues, RecoveryMoves DEF RecoveryFinish
<1> HIDE DEF q, v
<1>5. /\ q.status \notin GateStatus /\ q.admin \in acl[s]
      /\ worker[s].pc \in {"idle", "kicked"}
         \/ (worker[s].key \in Keys /\ worker[s].key = q.admin)
  BY <1>1, <1>3, <1>4, StatusValues
<1> QED BY <1>1, <1>2, <1>4, <1>5, PipelineStep

LEMMA RecoveryFailStep ==
    ASSUME IndInv, NEW s \in Sessions, NEW h \in Recoveries, RecoveryFail(s, h)
    PROVE  IndInv' /\ Progress
<1> DEFINE v == [rec[s] EXCEPT ![h] = Asleep]
<1>1. /\ rec' = [rec EXCEPT ![s] = v]
      /\ v \in RecTable
      /\ NoneDeploys(rec[s]) => NoneDeploys(v)
  BY PipelineValues, RecoveryMoves DEF RecoveryFail
<1> HIDE DEF v
<1>2. CASE rec[s][h].cancelled
  <2>1. UNCHANGED sess /\ rec \in [Sessions -> RecTable]
    BY <1>2 DEF RecoveryFail, IndInv, TypeOK
  <2>2. TypeOK' /\ Progress
    BY <1>1, <2>1, TablesKept DEF RecoveryFail, IndInv, TypeOK
  <2>3. PipelineInstalled'
    BY <1>1, <2>1 DEF RecoveryFail, IndInv, PipelineInstalled
  <2> QED BY <2>1, <2>2, <2>3, Frame DEF IndInv, RecoveryFail
<1>3. CASE ~rec[s][h].cancelled
  <2> DEFINE stage == rec[s][h].pc
             q == Failed(sess[s], stage)
  <2>1. stage \in SessStatus
    BY DEF RecoveryFail
  <2>2. sess' = [sess EXCEPT ![s] = q]
    BY <1>3 DEF RecoveryFail
  <2>3. NoneDeploys(rec[s]) => stage \notin Deployed
    BY DEF NoneDeploys
  <2> HIDE DEF stage
  <2>4. /\ q \in SessRow /\ q.status = "failed" /\ q.admin = sess[s].admin
        /\ q.stage \in {sess[s].stage, stage}
    BY <2>1, PipelineValues, FailedValue
  <2>5. /\ worker[s] \in WorkerState /\ worker' = [worker EXCEPT ![s] = worker[s]]
        /\ worker[s].pc \in {"idle", "kicked"}
           \/ (worker[s].key \in Keys /\ worker[s].key = sess[s].admin)
        /\ worker[s].pc \in {"imported"} \cup Deployed => sess[s].admin \in acl[s]
        /\ UNCHANGED <<conn, last, starting, boot, job, view, acl, approved, bound, faults>>
    BY PipelineValues DEF RecoveryFail
  <2>6. sess[s].admin \in acl[s] \/ (sess[s].stage \notin Deployed /\ NoneDeploys(rec[s]))
    BY DEF IndInv, PipelineInstalled
  <2> HIDE DEF q
  <2>7. /\ q.status \notin GateStatus
        /\ worker[s].pc \in {"idle", "kicked"}
           \/ (worker[s].key \in Keys /\ worker[s].key = q.admin)
        /\ \/ q.admin \in acl[s]
           \/ /\ worker[s].pc \notin {"imported"} \cup Deployed
              /\ q.status \notin Deployed \cup {"running"}
              /\ q.stage \notin Deployed
              /\ NoneDeploys(v)
    BY <1>1, <2>3, <2>4, <2>5, <2>6, StatusValues
  <2> QED BY <1>1, <2>2, <2>4, <2>5, <2>7, PipelineStep
<1> QED BY <1>2, <1>3

----------------------------------------------------------------------------
(* Creating, starting and withdrawing reservations *)

\* Two active reservations of one session are the same one.
LEMMA ActiveIsOnly ==
    ASSUME IndInv, NEW c \in Ids, NEW d \in Ids,
           conn[c].status \in Active, conn[d].status \in Active,
           conn[c].session = conn[d].session
    PROVE  c = d
<1>1. last \in Nat /\ Ids \subseteq Nat /\ "free" \notin Active
  BY Types DEF IndInv, Active
<1>2. c <= last /\ d <= last
  BY <1>1 DEF IndInv, UsedRows
<1>3. c <= d /\ d <= c
  BY <1>2 DEF IndInv, ActiveIsCurrent
<1> QED BY <1>1, <1>3

\* An active reservation is the one that Current returns.
LEMMA ActiveCurrent ==
    ASSUME IndInv, NEW c \in Ids, conn[c].status \in Active
    PROVE  IsCurrent(conn[c].session, c) /\ c <= last
<1>1. last \in Nat /\ Ids \subseteq Nat /\ "free" \notin Active
  BY Types DEF IndInv, Active
<1>2. c <= last
  BY <1>1 DEF IndInv, UsedRows
<1> QED BY <1>2 DEF IndInv, ActiveIsCurrent, IsCurrent, Rows

\* An insert keeps the table in order because what it replaces gives way.
LEMMA InsertStep ==
    ASSUME IndInv, NEW s \in Sessions, InsertFor(s),
           \A c \in Ids : IsCurrent(s, c) => Replaceable(c),
           UNCHANGED <<sess, starting, worker, rec, boot, job, view, acl, approved,
                       bound, faults>>
    PROVE  IndInv' /\ Progress
<1> DEFINE n == last + 1
           q == [Blank EXCEPT !.session = s, !.status = "open", !.op = OperationFor(s)]
           gives(c) == IsCurrent(s, c) /\ conn[c].status = "open"
           lapsed(c) == [conn[c] EXCEPT !.status = "lapsed"]
<1>1. last \in Nat /\ Ids \subseteq Nat /\ n \in Ids /\ last' = n /\ n \in 0 .. MaxRequests
  <2>1. last \in Nat /\ Ids \subseteq Nat
    BY Types DEF IndInv
  <2> QED BY <2>1, ConnectionAssumption DEF InsertFor, Ids
<1>2. q \in ConnRow /\ q.status = "open" /\ q.session = s /\ q.admin = NoKey
  <2>1. OperationFor(s) \in {"", "provision_vta", "grant_acl"}
    BY OpTypes
  <2> QED BY <2>1, ConnectionAssumption DEF Blank, ConnRow, ConnStatus, Active
<1>3. \A c \in Ids : lapsed(c) \in ConnRow /\ lapsed(c).status = "lapsed"
                     /\ lapsed(c).session = conn[c].session
                     /\ lapsed(c).admin = conn[c].admin
  <2>1. "lapsed" \in ConnStatus
    BY DEF ConnStatus, Final
  <2> QED BY <2>1, RowTypes, RowWrites DEF IndInv
<1>4. /\ conn' = [c \in Ids |-> IF c = n THEN q ELSE IF gives(c) THEN lapsed(c) ELSE conn[c]]
      /\ conn \in [Ids -> ConnRow]
  BY DEF InsertFor, IndInv, TypeOK
<1> HIDE DEF q, lapsed, gives, n
<1>5. /\ conn' \in [Ids -> ConnRow]
      /\ conn'[n] = q
      /\ \A c \in Ids : c # n => conn'[c] = IF gives(c) THEN lapsed(c) ELSE conn[c]
  BY <1>1, <1>2, <1>3, <1>4
<1>6. \A c \in Ids : RowStep(c)
  <2> SUFFICES ASSUME NEW c \in Ids PROVE RowStep(c)
    OBVIOUS
  <2>1. CASE c = n
    <3>1. conn[c].status = "free"
      BY <1>1, <2>1 DEF IndInv, UsedRows, n
    <3> QED BY <1>1, <1>2, <1>5, <2>1, <3>1 DEF RowStep, n
  <2>2. CASE c # n /\ gives(c)
    <3>1. conn[c].status = "open" /\ conn[c].admin = NoKey
      BY <2>2 DEF gives, IndInv, DiscardedKeys
    <3> QED BY <1>3, <1>5, <2>2, <3>1 DEF RowStep
  <2>3. CASE c # n /\ ~gives(c)
    BY <1>5, <2>3 DEF RowStep
  <2> QED BY <2>1, <2>2, <2>3
<1>7. TypeOK' /\ Progress
  BY <1>1, <1>5, <1>6 DEF IndInv, TypeOK, Progress, KeysStay
<1>8. UsedRows'
  <2> SUFFICES ASSUME NEW c \in Ids PROVE conn'[c].status = "free" <=> c > last'
    BY DEF UsedRows
  <2>1. CASE c = n
    BY <1>1, <1>2, <1>5, <2>1
  <2>2. CASE c # n /\ gives(c)
    <3>1. conn[c].status = "open"
      BY <2>2 DEF gives
    <3> QED BY <1>1, <1>3, <1>5, <2>2, <3>1 DEF IndInv, UsedRows, n
  <2>3. CASE c # n /\ ~gives(c)
    BY <1>1, <1>5, <2>3 DEF IndInv, UsedRows, n
  <2> QED BY <2>1, <2>2, <2>3
<1>9. ActiveIsCurrent'
  <2> SUFFICES ASSUME NEW c \in Ids, NEW d \in Ids, conn'[c].status \in Active,
                      d <= last', conn'[d].session = conn'[c].session
               PROVE  d <= c
    BY DEF ActiveIsCurrent
  <2>1. CASE c = n
    BY <1>1, <2>1
  <2>2. CASE c # n
    <3>1. "lapsed" \notin Active
      BY DEF Active
    <3>2. ~gives(c) /\ conn'[c] = conn[c] /\ conn[c].status \in Active
      BY <1>3, <1>5, <2>2, <3>1
    <3>3. CASE d # n
      <4>1. d <= last /\ conn'[d].session = conn[d].session
        BY <1>1, <1>3, <1>5, <3>3 DEF n
      <4> QED BY <3>2, <4>1 DEF IndInv, ActiveIsCurrent
    <3>4. CASE d = n
      <4>1. conn[c].session = s
        BY <1>2, <1>5, <3>2, <3>4
      <4>2. IsCurrent(s, c)
        BY <3>2, <4>1, ActiveCurrent
      <4>3. conn[c].status = "open"
        BY <3>2, <4>2 DEF Replaceable, Active, Final
      <4> QED BY <3>2, <4>2, <4>3 DEF gives
    <3> QED BY <3>3, <3>4
  <2> QED BY <2>1, <2>2
<1>10. ViewIsSafe'
  BY <1>1, <1>7, FrameView DEF n
<1> QED BY <1>7, <1>8, <1>9, <1>10, Frame DEF IndInv

LEMMA ChangeCreateStep ==
    ASSUME IndInv, NEW s \in Sessions, ChangeCreate(s) PROVE IndInv' /\ Progress
  BY InsertStep DEF ChangeCreate

LEMMA ChangeRefreshStep ==
    ASSUME IndInv, NEW c \in Ids, ChangeRefresh(c) PROVE IndInv' /\ Progress
<1>1. conn[c].session \in Sessions /\ Ids \subseteq Nat
  BY RowTypes, Types DEF IndInv
<1>2. \A d \in Ids : IsCurrent(conn[c].session, d) => d = c
  <2> SUFFICES ASSUME NEW d \in Ids, IsCurrent(conn[c].session, d) PROVE d = c
    OBVIOUS
  <2>1. IsCurrent(conn[c].session, c)
    BY DEF ChangeRefresh
  <2>2. c <= d /\ d <= c
    BY <2>1 DEF IsCurrent
  <2> QED BY <1>1, <2>2
<1>3. \A d \in Ids : IsCurrent(conn[c].session, d) => Replaceable(d)
  BY <1>2 DEF ChangeRefresh
<1> QED BY <1>1, <1>3, InsertStep DEF ChangeRefresh

\* StartProvisioning, whoever calls it: the row moves on, and with it the
\* session when the request is for the first administrator.
LEMMA StartRows ==
    ASSUME IndInv, NEW c \in Ids, Startable(c), StartProvisioning(c),
           UNCHANGED <<acl, approved>>
    PROVE  /\ sess' \in [Sessions -> SessRow] /\ conn' \in [Ids -> ConnRow]
           /\ Progress
           /\ \A z \in Sessions : /\ sess'[z].stage = sess[z].stage
                                  /\ sess'[z].status \in Deployed \cup {"running"}
                                        => sess'[z].status = sess[z].status
           /\ ConfirmedHoldsTheGate' /\ GateIsFree' /\ AdminOnlyAfterApproval'
           /\ conn'[c].status = "provisioning"
           /\ conn'[c].admin = conn[c].admin /\ conn'[c].session = conn[c].session
<1> DEFINE s == conn[c].session
           k == conn[c].admin
           q == [conn[c] EXCEPT !.status = "provisioning"]
           p == [sess[s] EXCEPT !.status = Provision(s), !.admin = k]
<1>1. conn[c] \in ConnRow /\ s \in Sessions /\ "provisioning" \in ConnStatus
  BY RowTypes DEF IndInv, ConnStatus, Active
<1>2. conn[c].status = "confirmed" /\ k \in Keys /\ k \in approved[s]
  BY DEF Startable, IndInv, ClaimantKept, ApprovedRows
<1>3. /\ q \in ConnRow /\ q.status = "provisioning" /\ q.session = s
      /\ q.admin = k /\ q.op = conn[c].op
  BY <1>1, RowWrites
<1>4. /\ conn' = [conn EXCEPT ![c] = q] /\ conn'[c] = q
      /\ sess' = IF conn[c].op = "provision_vta" THEN [sess EXCEPT ![s] = p] ELSE sess
  BY DEF StartProvisioning, IndInv, TypeOK
<1>5. /\ p \in SessRow /\ p.status = Provision(s) /\ p.admin = k
      /\ p.stage = sess[s].stage
  <2>1. sess[s] \in SessRow /\ Provision(s) \in SessStatus
    BY <1>1, PipelineValues, StatusValues
  <2> QED BY <1>2, <2>1 DEF SessRow
<1>6. conn[c].op = "provision_vta" => sess[s].admin = NoKey
  BY <1>2 DEF IndInv, ConfirmedHoldsTheGate
<1>7. /\ Provision(s) \notin Deployed \cup {"running"}
      /\ Provision(s) \notin GateStatus
  BY <1>1, StatusValues
<1> HIDE DEF p, q
<1>8. /\ sess' \in [Sessions -> SessRow]
      /\ \A z \in Sessions : z # s => sess'[z] = sess[z]
      /\ conn[c].op = "provision_vta" => sess'[s] = p
      /\ conn[c].op # "provision_vta" => sess' = sess
  BY <1>1, <1>4, <1>5 DEF IndInv, TypeOK
<1>9. RowStep(c)
  BY <1>2, <1>3, <1>4 DEF RowStep
<1>10. conn' \in [Ids -> ConnRow] /\ Progress
  <2>1. conn' \in [Ids -> ConnRow] /\ \A d \in Ids : RowStep(d)
    BY <1>3, <1>4, <1>9, OneRow DEF IndInv
  <2>2. KeysStay
    BY <1>5, <1>6, <1>8 DEF KeysStay
  <2> QED BY <2>1, <2>2 DEF Progress
<1>11. ConfirmedHoldsTheGate'
  <2> SUFFICES ASSUME NEW d \in Ids, conn'[d].status \in {"claimed", "confirmed"},
                      conn'[d].op = "provision_vta"
               PROVE  sess'[conn'[d].session].admin = NoKey
    BY DEF ConfirmedHoldsTheGate
  <2>1. d # c /\ conn'[d] = conn[d]
    BY <1>3, <1>4 DEF IndInv, TypeOK
  <2>2. sess[conn[d].session].admin = NoKey /\ conn[d].session \in Sessions
    BY <2>1, RowTypes DEF IndInv, ConfirmedHoldsTheGate
  <2>3. conn[d].session # s
    BY <1>2, <2>1, ActiveIsOnly DEF Active
  <2> QED BY <1>8, <2>1, <2>2, <2>3
<1>12. GateIsFree'
  BY <1>5, <1>7, <1>8 DEF IndInv, GateIsFree, Ready
<1>13. AdminOnlyAfterApproval'
  BY <1>2, <1>5, <1>8 DEF IndInv, AdminOnlyAfterApproval
<1>14. \A z \in Sessions : /\ sess'[z].stage = sess[z].stage
                           /\ sess'[z].status \in Deployed \cup {"running"}
                                 => sess'[z].status = sess[z].status
  BY <1>5, <1>7, <1>8
<1> QED BY <1>3, <1>4, <1>8, <1>10, <1>11, <1>12, <1>13, <1>14

LEMMA StartWorkerStep ==
    ASSUME IndInv, NEW c \in Ids, StartWorker(c) PROVE IndInv' /\ Progress
<1>1. CASE Startable(c)
  <2>1. StartProvisioning(c) /\ UNCHANGED <<acl, approved>>
    BY <1>1 DEF StartWorker
  <2>2. TypeOK' /\ Progress
    BY <1>1, <2>1, StartRows DEF StartWorker, IndInv, TypeOK
  <2>3. PipelineInstalled'
    BY <1>1, <2>1, <2>2, StartRows, FramePipeline DEF StartWorker
  <2>4. ConfirmedHoldsTheGate' /\ GateIsFree' /\ AdminOnlyAfterApproval'
    BY <1>1, <2>1, StartRows
  <2> QED BY <2>2, <2>3, <2>4, Frame DEF IndInv, StartWorker
<1>2. CASE ~Startable(c)
  <2>1. TypeOK' /\ Progress
    BY <1>2, TablesKept DEF StartWorker, IndInv, TypeOK
  <2> QED BY <1>2, <2>1, Frame DEF IndInv, StartWorker
<1> QED BY <1>1, <1>2

LEMMA OwnerCurrentStep ==
    ASSUME IndInv, NEW c \in Ids, OwnerCurrent(c) PROVE IndInv' /\ Progress
<1>1. Startable(c) /\ StartProvisioning(c) /\ UNCHANGED <<acl, approved>>
  BY DEF OwnerCurrent
<1>2. TypeOK' /\ Progress
  BY <1>1, StartRows DEF OwnerCurrent, IndInv, TypeOK
<1>3. PipelineInstalled'
  BY <1>1, <1>2, StartRows, FramePipeline DEF OwnerCurrent
<1>4. ConfirmedHoldsTheGate' /\ GateIsFree' /\ AdminOnlyAfterApproval'
  BY <1>1, StartRows
<1> QED BY <1>2, <1>3, <1>4, Frame DEF IndInv, OwnerCurrent

\* Withdrawing the open reservations of a session.
LEMMA LapseOpenRows ==
    ASSUME IndInv, NEW s \in Sessions, LapseOpen(s)
    PROVE  /\ conn' \in [Ids -> ConnRow]
           /\ \A c \in Ids : RowStep(c)
           /\ \A c \in Ids : conn'[c].status \in {"claimed", "confirmed"} => conn'[c] = conn[c]
<1> DEFINE lapsed(c) == [conn[c] EXCEPT !.status = "lapsed"]
           gives(c) == c \in Rows(s) /\ conn[c].status = "open"
<1>1. \A c \in Ids : lapsed(c) \in ConnRow /\ lapsed(c).status = "lapsed"
                     /\ lapsed(c).session = conn[c].session
                     /\ lapsed(c).admin = conn[c].admin
  <2>1. "lapsed" \in ConnStatus
    BY DEF ConnStatus, Final
  <2> QED BY <2>1, RowTypes, RowWrites DEF IndInv
<1>2. /\ conn' = [c \in Ids |-> IF gives(c) THEN lapsed(c) ELSE conn[c]]
      /\ conn \in [Ids -> ConnRow]
  BY DEF LapseOpen, IndInv, TypeOK
<1>3. \A c \in Ids : gives(c) => conn[c].status = "open" /\ conn[c].admin = NoKey
  BY DEF IndInv, DiscardedKeys
<1> HIDE DEF lapsed, gives
<1>4. \A c \in Ids : conn'[c] = IF gives(c) THEN lapsed(c) ELSE conn[c]
  BY <1>2
<1>5. \A c \in Ids : RowStep(c)
  BY <1>1, <1>3, <1>4 DEF RowStep
<1> QED BY <1>1, <1>2, <1>4, <1>5

\* The manual route fills the gate, so no wallet may be waiting at it.
LEMMA AcceptManualStep ==
    ASSUME IndInv, NEW s \in Sessions, NEW k \in Keys, AcceptManual(s, k)
    PROVE  IndInv' /\ Progress
<1> DEFINE p == [sess[s] EXCEPT !.status = Provision(s), !.admin = k]
<1>1. sess' = [sess EXCEPT ![s] = p] /\ LapseOpen(s) /\ sess[s].admin = NoKey
  BY DEF AcceptManual
<1>2. /\ p \in SessRow /\ p.status = Provision(s) /\ p.admin = k
      /\ p.stage = sess[s].stage
  <2>1. sess[s] \in SessRow /\ Provision(s) \in SessStatus
    BY PipelineValues, StatusValues
  <2> QED BY <2>1 DEF SessRow
<1>3. /\ Provision(s) \notin Deployed \cup {"running"}
      /\ Provision(s) \notin GateStatus
  BY StatusValues
<1> HIDE DEF p
<1>4. /\ sess' \in [Sessions -> SessRow] /\ sess'[s] = p
      /\ \A z \in Sessions : z # s => sess'[z] = sess[z]
  BY <1>1, <1>2 DEF IndInv, TypeOK
<1>5. /\ approved' \in [Sessions -> SUBSET Keys] /\ k \in approved'[s]
      /\ \A z \in Sessions : approved[z] \subseteq approved'[z]
  BY DEF AcceptManual, IndInv, TypeOK
<1>6. TypeOK'
  BY <1>1, <1>4, <1>5, LapseOpenRows DEF AcceptManual, IndInv, TypeOK
<1>7. Progress
  BY <1>1, <1>4, <1>5, LapseOpenRows DEF AcceptManual, Progress, KeysStay
<1>8. ConfirmedHoldsTheGate'
  <2> SUFFICES ASSUME NEW d \in Ids, conn'[d].status \in {"claimed", "confirmed"},
                      conn'[d].op = "provision_vta"
               PROVE  sess'[conn'[d].session].admin = NoKey
    BY DEF ConfirmedHoldsTheGate
  <2>1. conn'[d] = conn[d]
    BY <1>1, LapseOpenRows
  <2>2. /\ sess[conn[d].session].admin = NoKey /\ conn[d].session \in Sessions
        /\ conn[d].status \in Active \ {"open"}
    BY <2>1, RowTypes DEF IndInv, ConfirmedHoldsTheGate, Active
  <2>3. conn[d].session # s
    BY <2>2, ActiveCurrent DEF AcceptManual
  <2> QED BY <1>4, <2>1, <2>2, <2>3
<1>9. GateIsFree'
  BY <1>2, <1>3, <1>4 DEF IndInv, GateIsFree, Ready
<1>10. AdminOnlyAfterApproval'
  <2>1. UNCHANGED acl
    BY DEF AcceptManual
  <2> QED BY <1>2, <1>4, <1>5, <2>1 DEF IndInv, AdminOnlyAfterApproval
<1>11. PipelineInstalled'
  <2>1. \A z \in Sessions : /\ sess'[z].stage = sess[z].stage
                            /\ sess'[z].status \in Deployed \cup {"running"}
                                  => sess'[z].status = sess[z].status
    BY <1>2, <1>3, <1>4
  <2> QED BY <1>6, <1>7, <2>1, FramePipeline DEF AcceptManual
<1> QED BY <1>6, <1>7, <1>8, <1>9, <1>10, <1>11, Frame DEF IndInv, AcceptManual

----------------------------------------------------------------------------
(* The grant jobs *)

LEMMA JobMoves ==
    ASSUME IndInv, NEW r \in Replicas, NEW j \in JobState,
           job' = [job EXCEPT ![r] = j]
    PROVE  /\ job' \in [Replicas -> JobState]
           /\ job'[r] = j
           /\ \A x \in Replicas : x # r => job'[x] = job[x]
  BY DEF IndInv, TypeOK

LEMMA JobValues ==
    ASSUME IndInv, NEW r \in Replicas
    PROVE  /\ job[r] \in JobState /\ job[r].session \in Sessions
           /\ IdleJob(job[r].session) \in JobState
           /\ IdleJob(job[r].session).pc = "idle"
<1>1. job[r] \in JobState
  BY DEF IndInv, TypeOK
<1>2. job[r].session \in Sessions
  BY <1>1 DEF JobState
<1> QED BY <1>1, <1>2 DEF JobState, IdleJob

LEMMA JobWrites ==
    ASSUME NEW j \in JobState, NEW pc \in {"idle", "started", "granting", "granted", "failing"}
    PROVE  LET q == [j EXCEPT !.pc = pc] IN
           /\ q \in JobState /\ q.pc = pc /\ q.id = j.id
           /\ q.session = j.session /\ q.key = j.key
  BY DEF JobState

\* The conjuncts about jobs when one job moves.
LEMMA FrameOneJob ==
    ASSUME IndInv, TypeOK', Progress, NEW r \in Replicas,
           \A x \in Replicas : x # r => job'[x] = job[x],
           /\ job'[r].pc \in {"started", "granting", "granted"}
                 => job'[r].key \in approved'[job'[r].session]
           /\ job'[r].pc = "granting" => sess'[job'[r].session].admin \in acl'[job'[r].session]
           /\ job'[r].pc = "granted" => job'[r].key \in acl'[job'[r].session],
           job'[r].pc # "idle" /\ job'[r].id # 0 =>
              LET c == job'[r].id IN
              /\ conn'[c].session = job'[r].session
              /\ conn'[c].status \in {"provisioning", "released", "failed", "cancelled"}
              /\ conn'[c].status = "provisioning" => conn'[c].admin = job'[r].key
    PROVE  JobKey' /\ JobRow'
<1> USE RowTypes, Types
<1>1. JobKey'
  <2> SUFFICES ASSUME NEW x \in Replicas, x # r
               PROVE  JobKey!(x)'
    BY DEF JobKey
  <2> QED BY DEF IndInv, JobKey, Progress, KeysStay
<1>2. JobRow'
  <2> SUFFICES ASSUME NEW x \in Replicas, x # r
               PROVE  JobRow!(x)'
    BY DEF JobRow
  <2> QED BY DEF IndInv, JobRow, Progress, RowStep
<1> QED BY <1>1, <1>2

LEMMA KickAdditionalStep ==
    ASSUME IndInv, NEW r \in Replicas, NEW c \in Ids, KickAdditional(r, c)
    PROVE  IndInv' /\ Progress
<1> DEFINE j == [pc |-> "started", id |-> c, session |-> conn[c].session,
                 key |-> conn[c].admin]
<1>1. /\ conn[c].session \in Sessions /\ conn[c].admin \in Keys
      /\ conn[c].admin \in approved[conn[c].session]
      /\ conn[c].status \in {"confirmed", "provisioning"}
  BY RowTypes DEF KickAdditional, Startable, IndInv, ClaimantKept, ApprovedRows
<1>2. j \in JobState
  BY <1>1 DEF JobState
<1>3. job' = [job EXCEPT ![r] = j]
  BY DEF KickAdditional
<1>4. /\ job' \in [Replicas -> JobState] /\ job'[r] = j
      /\ \A x \in Replicas : x # r => job'[x] = job[x]
  BY <1>2, <1>3, JobMoves
<1>5. /\ sess' \in [Sessions -> SessRow] /\ conn' \in [Ids -> ConnRow] /\ Progress
      /\ \A z \in Sessions : /\ sess'[z].stage = sess[z].stage
                             /\ sess'[z].status \in Deployed \cup {"running"}
                                   => sess'[z].status = sess[z].status
      /\ ConfirmedHoldsTheGate' /\ GateIsFree' /\ AdminOnlyAfterApproval'
      /\ conn'[c].status = "provisioning"
      /\ conn'[c].admin = conn[c].admin /\ conn'[c].session = conn[c].session
  <2>0. UNCHANGED <<acl, approved, last>>
    BY DEF KickAdditional
  <2>1. CASE Startable(c) /\ StartProvisioning(c)
    BY <2>0, <2>1, StartRows
  <2>2. CASE conn[c].status = "provisioning" /\ UNCHANGED <<sess, conn>>
    <3>1. Progress
      BY <2>0, <2>2, TablesKept
    <3>2. ConfirmedHoldsTheGate' /\ GateIsFree' /\ AdminOnlyAfterApproval'
      BY <2>0, <2>2 DEF IndInv, ConfirmedHoldsTheGate, GateIsFree, Ready,
                        AdminOnlyAfterApproval
    <3>3. sess' \in [Sessions -> SessRow] /\ conn' \in [Ids -> ConnRow]
      BY <2>2 DEF IndInv, TypeOK
    <3> QED BY <2>2, <3>1, <3>2, <3>3
  <2> QED BY <2>1, <2>2 DEF KickAdditional
<1>6. TypeOK'
  BY <1>4, <1>5 DEF KickAdditional, IndInv, TypeOK
<1>7. PipelineInstalled'
  BY <1>5, <1>6, FramePipeline DEF KickAdditional
<1>8. JobKey' /\ JobRow'
  <2>1. UNCHANGED approved /\ "started" # "granting" /\ "started" # "granted"
    BY DEF KickAdditional
  <2>2. /\ j.pc = "started" /\ j.id = c /\ j.session = conn[c].session
        /\ j.key = conn[c].admin
    OBVIOUS
  <2> HIDE DEF j
  <2> QED BY <1>1, <1>4, <1>5, <1>6, <2>1, <2>2, FrameOneJob
<1> QED BY <1>5, <1>6, <1>7, <1>8, Frame DEF IndInv, KickAdditional

LEMMA OwnerGrantStep ==
    ASSUME IndInv, NEW r \in Replicas, NEW s \in Sessions, NEW k \in Keys,
           OwnerGrant(r, s, k)
    PROVE  IndInv' /\ Progress
<1> DEFINE j == [pc |-> "granting", id |-> 0, session |-> s, key |-> k]
<1>1. j \in JobState /\ j.pc = "granting" /\ j.id = 0 /\ j.session = s /\ j.key = k
  BY DEF JobState
<1>2. job' = [job EXCEPT ![r] = j] /\ LapseOpen(s)
  BY DEF OwnerGrant
<1> HIDE DEF j
<1>3. /\ job' \in [Replicas -> JobState] /\ job'[r] = j
      /\ \A x \in Replicas : x # r => job'[x] = job[x]
  BY <1>1, <1>2, JobMoves
<1>4. /\ approved' \in [Sessions -> SUBSET Keys] /\ k \in approved'[s]
      /\ \A z \in Sessions : approved[z] \subseteq approved'[z]
  BY DEF OwnerGrant, IndInv, TypeOK
<1>5. TypeOK'
  BY <1>2, <1>3, <1>4, LapseOpenRows DEF OwnerGrant, IndInv, TypeOK
<1>6. Progress
  BY <1>2, <1>4, LapseOpenRows DEF OwnerGrant, Progress, KeysStay
<1>7. sess'[s].admin \in acl'[s]
  BY DEF OwnerGrant, IndInv, PipelineInstalled
<1>8. JobKey' /\ JobRow'
  BY <1>1, <1>3, <1>4, <1>5, <1>6, <1>7, FrameOneJob
<1> QED BY <1>5, <1>6, <1>8, Frame DEF IndInv, OwnerGrant

\* Job steps that leave the tables alone.
LEMMA JobWaitStep ==
    ASSUME IndInv, NEW r \in Replicas, JobCheck(r) \/ JobBusy(r)
    PROVE  IndInv' /\ Progress
<1>1. Progress
  BY TablesKept DEF JobCheck, JobBusy
<1>2. PICK j \in JobState :
         /\ job' = [job EXCEPT ![r] = j]
         /\ \/ j.pc = "idle"
            \/ /\ job[r].pc = "started" /\ j.pc \in {"granting", "failing"} /\ j.id = job[r].id
               /\ j.session = job[r].session /\ j.key = job[r].key
               /\ j.pc = "granting" => sess[job[r].session].status = "running"
  <2>1. CASE JobCheck(r)
    <3> DEFINE pc == IF sess[job[r].session].status = "running"
                     THEN "granting" ELSE "failing"
               j == [job[r] EXCEPT !.pc = pc]
    <3>1. job' = [job EXCEPT ![r] = j] /\ job[r].pc = "started"
      BY <2>1 DEF JobCheck
    <3>2. /\ pc \in {"granting", "failing"}
          /\ pc = "granting" => sess[job[r].session].status = "running"
      OBVIOUS
    <3> HIDE DEF pc
    <3>3. /\ j \in JobState /\ j.pc = pc /\ j.id = job[r].id
          /\ j.session = job[r].session /\ j.key = job[r].key
      <4>1. job[r] \in JobState /\ pc \in {"idle", "started", "granting", "granted", "failing"}
        BY <3>2, JobValues
      <4> QED BY <4>1, JobWrites
    <3> HIDE DEF j
    <3> QED BY <3>1, <3>2, <3>3
  <2>2. CASE JobBusy(r)
    BY <2>2, JobValues DEF JobBusy
  <2> QED BY <2>1, <2>2
<1>3. /\ job' \in [Replicas -> JobState] /\ job'[r] = j
      /\ \A x \in Replicas : x # r => job'[x] = job[x]
  BY <1>2, JobMoves
<1>4. TypeOK'
  BY <1>3 DEF JobCheck, JobBusy, IndInv, TypeOK
<1>5. JobKey' /\ JobRow'
  <2>1. UNCHANGED <<sess, conn, acl, approved>>
    BY DEF JobCheck, JobBusy
  <2>2. CASE j.pc = "idle"
    BY <1>1, <1>3, <1>4, <2>2, FrameOneJob
  <2>3. CASE j.pc # "idle"
    <3>1. /\ j.pc = "granting" => sess[j.session].admin \in acl[j.session]
          /\ j.key \in approved[j.session]
      BY <1>2, <2>3, JobValues DEF IndInv, PipelineInstalled, JobKey
    <3>2. j.id # 0 =>
             /\ conn[j.id].session = j.session
             /\ conn[j.id].status \in {"provisioning", "released", "failed", "cancelled"}
             /\ conn[j.id].status = "provisioning" => conn[j.id].admin = j.key
      BY <1>2, <2>3 DEF IndInv, JobRow
    <3>3. j.pc # "granted"
      BY <1>2, <2>3
    <3> QED BY <1>1, <1>3, <1>4, <2>1, <3>1, <3>2, <3>3, FrameOneJob
  <2> QED BY <2>2, <2>3
<1> QED BY <1>1, <1>4, <1>5, Frame DEF IndInv, JobCheck, JobBusy

\* The grant job writes an approved key into a VTA that has its first one.
LEMMA JobGrantStep ==
    ASSUME IndInv, NEW r \in Replicas, JobGrant(r) PROVE IndInv' /\ Progress
<1> DEFINE s == job[r].session
           k == job[r].key
<1>1. PICK ok \in BOOLEAN :
         /\ job' = [job EXCEPT ![r] =
                       [job[r] EXCEPT !.pc = IF ok THEN "granted" ELSE "failing"]]
         /\ \/ acl' = [acl EXCEPT ![s] = acl[s] \cup {k}]
            \/ ~ok /\ acl' = acl
  BY DEF JobGrant
<1> DEFINE pc == IF ok THEN "granted" ELSE "failing"
           j  == [job[r] EXCEPT !.pc = pc]
<1>2. /\ k \in approved[s] /\ s \in Sessions /\ sess[s].admin \in acl[s]
      /\ approved[s] \subseteq Keys
  BY JobValues DEF JobGrant, IndInv, JobKey, TypeOK
<1>3. job' = [job EXCEPT ![r] = j]
  BY <1>1
<1>4. pc \in {"granted", "failing"} /\ (ok => pc = "granted") /\ (~ok => pc = "failing")
  OBVIOUS
<1> HIDE DEF pc
<1>5. j \in JobState /\ j.pc = pc /\ j.id = job[r].id /\ j.session = s /\ j.key = k
  <2>1. job[r] \in JobState /\ pc \in {"idle", "started", "granting", "granted", "failing"}
    BY <1>4, JobValues
  <2> QED BY <2>1, JobWrites
<1> HIDE DEF j
<1>6. /\ job' \in [Replicas -> JobState] /\ job'[r] = j
      /\ \A x \in Replicas : x # r => job'[x] = job[x]
  BY <1>3, <1>5, JobMoves
<1>7. /\ acl' \in [Sessions -> SUBSET Keys]
      /\ \A z \in Sessions : acl[z] \subseteq acl'[z]
      /\ \A z \in Sessions : acl'[z] \subseteq acl[z] \cup (IF z = s THEN {k} ELSE {})
      /\ ok => k \in acl'[s]
  BY <1>1, <1>2 DEF IndInv, TypeOK
<1>8. TypeOK'
  BY <1>6, <1>7 DEF JobGrant, IndInv, TypeOK
<1>9. Progress
  BY <1>7, SameRows DEF JobGrant, IndInv, Progress, KeysStay
<1>10. AdminOnlyAfterApproval'
  <2>1. UNCHANGED <<sess, approved>>
    BY DEF JobGrant
  <2> QED BY <1>2, <1>7, <2>1 DEF IndInv, AdminOnlyAfterApproval
<1>11. JobKey' /\ JobRow'
  <2>1. UNCHANGED <<sess, conn, approved>> /\ job[r].pc = "granting"
    BY DEF JobGrant
  <2>2. j.id # 0 =>
           /\ conn[j.id].session = j.session
           /\ conn[j.id].status \in {"provisioning", "released", "failed", "cancelled"}
           /\ conn[j.id].status = "provisioning" => conn[j.id].admin = j.key
    BY <1>5, <2>1 DEF IndInv, JobRow
  <2>3. j.pc # "granting" /\ (j.pc = "granted" => j.key \in acl'[j.session])
    BY <1>4, <1>5, <1>7
  <2> QED BY <1>2, <1>5, <1>6, <1>8, <1>9, <2>1, <2>2, <2>3, FrameOneJob
<1> QED BY <1>8, <1>9, <1>10, <1>11, Frame DEF IndInv, JobGrant

\* MarkReleased is safe where the key it releases is in the VTA.
LEMMA ReleaseRows ==
    ASSUME IndInv, NEW c \in Ids, MarkReleased(c), UNCHANGED <<last, acl, approved>>,
           conn[c].status = "provisioning" => conn[c].admin \in acl[conn[c].session]
    PROVE  /\ conn' \in [Ids -> ConnRow] /\ bound' \in [Sessions -> SUBSET Keys]
           /\ \A d \in Ids : RowStep(d)
           /\ \A z \in Sessions : bound'[z] \subseteq acl'[z]
<1> DEFINE q == [conn[c] EXCEPT !.status = "released"]
           s == conn[c].session
<1>0. /\ conn \in [Ids -> ConnRow] /\ bound \in [Sessions -> SUBSET Keys]
      /\ acl \in [Sessions -> SUBSET Keys]
      /\ \A z \in Sessions : bound[z] \subseteq acl[z]
  BY DEF IndInv, TypeOK, ReleasedMeansInstalled
<1>1. CASE conn[c].status = "provisioning"
  <2>1. conn[c] \in ConnRow /\ s \in Sessions /\ "released" \in ConnStatus
    BY RowTypes DEF IndInv, ConnStatus, Final
  <2>2. q \in ConnRow /\ q.status = "released" /\ q.session = s /\ q.admin = conn[c].admin
    BY <2>1, RowWrites
  <2>3. /\ conn' = [conn EXCEPT ![c] = q] /\ conn'[c] = q
        /\ bound' = bound \/ bound' = [bound EXCEPT ![s] = bound[s] \cup {conn[c].admin}]
    BY <1>0, <1>1 DEF MarkReleased
  <2> HIDE DEF q
  <2>4. RowStep(c)
    BY <1>1, <2>2, <2>3 DEF RowStep
  <2>5. conn' \in [Ids -> ConnRow] /\ \A d \in Ids : RowStep(d)
    BY <2>2, <2>3, <2>4, OneRow DEF IndInv
  <2>6. bound' \in [Sessions -> SUBSET Keys] /\ \A z \in Sessions : bound'[z] \subseteq acl'[z]
    BY <1>0, <1>1, <2>1, <2>3
  <2> QED BY <2>5, <2>6
<1>2. CASE conn[c].status # "provisioning"
  <2>1. UNCHANGED <<conn, bound>>
    BY <1>2 DEF MarkReleased
  <2> QED BY <1>0, <2>1, SameRows DEF IndInv
<1> QED BY <1>1, <1>2

\* What follows when rows were released.
LEMMA FrameBound ==
    ASSUME IndInv, TypeOK', Progress, \A z \in Sessions : bound'[z] \subseteq acl'[z]
    PROVE  ReleasedMeansInstalled'
  BY RowTypes DEF IndInv, ReleasedMeansInstalled, Progress, RowStep, KeysStay

LEMMA JobDoneStep ==
    ASSUME IndInv, NEW r \in Replicas, JobDone(r) PROVE IndInv' /\ Progress
<1> DEFINE c == job[r].id
<1>1. UNCHANGED <<sess, last, acl, approved>>
  BY DEF JobDone
<1>2. /\ conn' \in [Ids -> ConnRow] /\ bound' \in [Sessions -> SUBSET Keys]
      /\ \A d \in Ids : RowStep(d)
      /\ \A z \in Sessions : bound'[z] \subseteq acl'[z]
  <2>1. CASE c = 0
    <3>1. UNCHANGED <<conn, bound>>
      BY <2>1 DEF JobDone
    <3>2. conn \in [Ids -> ConnRow] /\ bound \in [Sessions -> SUBSET Keys]
      BY DEF IndInv, TypeOK
    <3> QED BY <1>1, <3>1, <3>2, SameRows DEF IndInv, ReleasedMeansInstalled
  <2>2. CASE c # 0
    <3>1. MarkReleased(c) /\ c \in Ids
      BY <2>2, Types DEF JobDone, IndInv
    <3>2. conn[c].status = "provisioning" => conn[c].admin \in acl[conn[c].session]
      BY <2>2 DEF JobDone, IndInv, JobRow, JobKey
    <3> HIDE DEF c
    <3> QED BY <1>1, <3>1, <3>2, ReleaseRows
  <2> QED BY <2>1, <2>2
<1>3. Progress
  BY <1>1, <1>2 DEF Progress, KeysStay
<1>4. /\ job' \in [Replicas -> JobState] /\ job'[r].pc = "idle"
      /\ \A x \in Replicas : x # r => job'[x] = job[x]
  BY JobMoves, JobValues DEF JobDone
<1>5. TypeOK'
  BY <1>2, <1>4 DEF JobDone, IndInv, TypeOK
<1>6. JobKey' /\ JobRow'
  BY <1>3, <1>4, <1>5, FrameOneJob
<1>7. ReleasedMeansInstalled'
  BY <1>2, <1>3, <1>5, FrameBound
<1> QED BY <1>3, <1>5, <1>6, <1>7, Frame DEF IndInv, JobDone

LEMMA JobFailedStep ==
    ASSUME IndInv, NEW r \in Replicas, JobFailed(r) PROVE IndInv' /\ Progress
<1> DEFINE c == job[r].id
           q == [conn[c] EXCEPT !.status = "failed"]
<1>1. UNCHANGED <<sess, last, acl, approved>>
  BY DEF JobFailed
<1>2. conn' \in [Ids -> ConnRow] /\ \A d \in Ids : RowStep(d)
  <2>1. CASE c # 0 /\ conn[c].op = "grant_acl"
                   /\ conn[c].status \in {"confirmed", "provisioning"}
    <3>1. c \in Ids /\ conn' = [conn EXCEPT ![c] = q]
      BY <2>1, Types DEF JobFailed, IndInv
    <3>2. conn[c].status = "provisioning"
      BY <2>1 DEF JobFailed, IndInv, JobRow
    <3> HIDE DEF c
    <3>3. q \in ConnRow /\ q.status = "failed" /\ q.session = conn[c].session
      <4>1. "failed" \in ConnStatus /\ conn[c] \in ConnRow
        BY <3>1, RowTypes DEF IndInv, ConnStatus, Final
      <4> QED BY <4>1, RowWrites
    <3>4. conn'[c] = q
      BY <3>1 DEF IndInv, TypeOK
    <3>5. RowStep(c)
      BY <3>2, <3>3, <3>4 DEF RowStep
    <3> QED BY <3>1, <3>3, <3>5, OneRow DEF IndInv
  <2>2. CASE ~(c # 0 /\ conn[c].op = "grant_acl"
                     /\ conn[c].status \in {"confirmed", "provisioning"})
    <3>1. conn' = conn
      BY <2>2 DEF JobFailed
    <3> QED BY <3>1, SameRows DEF IndInv, TypeOK
  <2> QED BY <2>1, <2>2
<1>3. Progress
  BY <1>1, <1>2 DEF Progress, KeysStay
<1>4. /\ job' \in [Replicas -> JobState] /\ job'[r].pc = "idle"
      /\ \A x \in Replicas : x # r => job'[x] = job[x]
  BY JobMoves, JobValues DEF JobFailed
<1>5. TypeOK'
  BY <1>2, <1>4 DEF JobFailed, IndInv, TypeOK
<1>6. JobKey' /\ JobRow'
  BY <1>3, <1>4, <1>5, FrameOneJob
<1> QED BY <1>3, <1>5, <1>6, Frame DEF IndInv, JobFailed

----------------------------------------------------------------------------
(* Readers, deletion and process ends *)

LEMMA ReconcileStep ==
    ASSUME IndInv, Reconcile PROVE IndInv' /\ Progress
<1> DEFINE c == view.id
<1>1. UNCHANGED <<sess, last, acl, approved>>
  BY DEF Reconcile
<1>2. c \in Ids
  BY Types DEF Reconcile, IndInv
<1>3. /\ conn' \in [Ids -> ConnRow] /\ bound' \in [Sessions -> SUBSET Keys]
      /\ \A d \in Ids : RowStep(d)
      /\ \A z \in Sessions : bound'[z] \subseteq acl'[z]
  <2>0. /\ conn \in [Ids -> ConnRow] /\ bound \in [Sessions -> SUBSET Keys]
        /\ \A z \in Sessions : bound[z] \subseteq acl'[z]
    BY <1>1 DEF IndInv, TypeOK, ReleasedMeansInstalled
  <2>1. CASE UNCHANGED <<conn, bound>>
    BY <2>0, <2>1, SameRows DEF IndInv
  <2>2. CASE /\ view.status \in {"open", "claimed"} /\ conn[c].status = view.status
             /\ conn' = [conn EXCEPT ![c] = Lapse(conn[c])] /\ UNCHANGED bound
    <3> HIDE DEF c
    <3>1. Lapse(conn[c]) \in ConnRow /\ conn'[c] = Lapse(conn[c])
      BY <1>2, <2>0, <2>2, RowLapse
    <3>2. RowStep(c)
      BY <1>2, <2>0, <2>2, <3>1, RowLapse DEF RowStep
    <3> QED BY <1>2, <2>0, <2>2, <3>1, <3>2, OneRow DEF IndInv
  <2>3. CASE /\ view.status = "provisioning" /\ view.sstatus = "running"
             /\ view.sadmin = view.admin /\ MarkReleased(c)
    <3>1. conn[c].status = "provisioning" => conn[c].admin \in acl[conn[c].session]
      BY <2>3 DEF Reconcile, IndInv, ViewIsSafe
    <3> HIDE DEF c
    <3> QED BY <1>1, <1>2, <2>3, <3>1, ReleaseRows
  <2> QED BY <2>1, <2>2, <2>3 DEF Reconcile
<1>4. Progress
  BY <1>1, <1>3 DEF Progress, KeysStay
<1>5. TypeOK'
  <2>1. NoView \in ViewState
    BY DEF NoView, ViewState, ConnStatus, SessStatus
  <2> QED BY <1>3, <2>1 DEF Reconcile, IndInv, TypeOK
<1>6. ReleasedMeansInstalled'
  BY <1>3, <1>4, <1>5, FrameBound
<1>7. ViewIsSafe'
  BY DEF Reconcile, ViewIsSafe, NoView
<1> QED BY <1>4, <1>5, <1>6, <1>7, Frame DEF IndInv, Reconcile

LEMMA CancelWrites ==
    ASSUME NEW w \in WorkerState, NEW b \in BOOLEAN
    PROVE  LET q == [w EXCEPT !.cancelled = b] IN
           q \in WorkerState /\ q.pc = w.pc /\ q.key = w.key
  BY DEF WorkerState

\* Deletion withdraws every active reservation; the workers only hear of it.
LEMMA StopSessionStep ==
    ASSUME IndInv, NEW s \in Sessions, StopSession(s) PROVE IndInv' /\ Progress
<1> DEFINE p == [sess[s] EXCEPT !.status = "deleting"]
           ends(c) == [conn[c] EXCEPT !.status = "cancelled", !.admin = NoKey]
<1>1. p \in SessRow /\ p.status = "deleting" /\ p.admin = sess[s].admin /\ p.stage = sess[s].stage
  <2>1. sess[s] \in SessRow /\ "deleting" \in SessStatus
    BY PipelineValues, StatusValues
  <2> QED BY <2>1, SessMoves
<1>2. sess' = [sess EXCEPT ![s] = p]
  BY DEF StopSession
<1> HIDE DEF p
<1>3. /\ sess' \in [Sessions -> SessRow] /\ sess'[s] = p
      /\ \A z \in Sessions : z # s => sess'[z] = sess[z]
  BY <1>1, <1>2 DEF IndInv, TypeOK
<1>4. \A c \in Ids : /\ Lapse(conn[c]) \in ConnRow /\ Lapse(conn[c]).status = "lapsed"
                     /\ Lapse(conn[c]).session = conn[c].session
                     /\ Lapse(conn[c]).admin = NoKey
                     /\ ends(c) \in ConnRow /\ ends(c).status = "cancelled"
                     /\ ends(c).session = conn[c].session /\ ends(c).admin = NoKey
  <2> SUFFICES ASSUME NEW c \in Ids PROVE <1>4!(c)
    OBVIOUS
  <2>1. conn[c] \in ConnRow /\ "cancelled" \in ConnStatus
    BY RowTypes DEF IndInv, ConnStatus, Final
  <2>2. /\ ends(c) \in ConnRow /\ ends(c).status = "cancelled"
        /\ ends(c).session = conn[c].session /\ ends(c).admin = NoKey
    BY <2>1, RowWrites
  <2> HIDE DEF ends
  <2> QED BY <2>1, <2>2, RowLapse
<1>5. \A c \in Ids : conn'[c] =
          IF c \notin Rows(s) \/ conn[c].status \notin Active THEN conn[c]
          ELSE IF conn[c].status \in {"open", "claimed"} THEN Lapse(conn[c]) ELSE ends(c)
  BY DEF StopSession
<1>6. conn' = [c \in Ids |-> conn'[c]]
  BY DEF StopSession
<1> HIDE DEF ends
<1>7. conn' \in [Ids -> ConnRow]
  <2>1. \A c \in Ids : conn'[c] \in ConnRow
    BY <1>4, <1>5, RowTypes DEF IndInv
  <2> QED BY <1>6, <2>1
<1>8. \A c \in Ids : RowStep(c)
  BY <1>4, <1>5 DEF RowStep, Active
<1>9. Progress
  BY <1>1, <1>3, <1>8 DEF Progress, KeysStay, StopSession
<1>10. PICK here \in BOOLEAN :
          /\ worker' = [worker EXCEPT ![s] =
                [worker[s] EXCEPT !.cancelled = worker[s].cancelled
                                                \/ (here /\ worker[s].pc # "idle")]]
          /\ \E cut : rec' = [rec EXCEPT ![s] = CancelRecoveries(s, cut)]
  BY DEF StopSession
<1>11. /\ worker' \in [Sessions -> WorkerState] /\ rec' \in [Sessions -> RecTable]
       /\ \A z \in Sessions : worker'[z].pc = worker[z].pc /\ worker'[z].key = worker[z].key
                              /\ (NoneDeploys(rec'[z]) <=> NoneDeploys(rec[z]))
  <2> DEFINE b == worker[s].cancelled \/ (here /\ worker[s].pc # "idle")
             w == [worker[s] EXCEPT !.cancelled = b]
  <2>1. worker[s] \in WorkerState /\ rec[s] \in RecTable
    BY PipelineValues
  <2>2. b \in BOOLEAN
    BY <2>1 DEF WorkerState
  <2>3. worker' = [worker EXCEPT ![s] = w]
    BY <1>10
  <2> HIDE DEF b
  <2>4. w \in WorkerState /\ w.pc = worker[s].pc /\ w.key = worker[s].key
    BY <2>1, <2>2, CancelWrites
  <2> HIDE DEF w
  <2>5. PICK v \in RecTable : /\ rec' = [rec EXCEPT ![s] = v]
                              /\ NoneDeploys(rec[s]) <=> NoneDeploys(v)
    BY <1>10, <2>1, CancelRecoveriesValue
  <2>6. worker \in [Sessions -> WorkerState] /\ rec \in [Sessions -> RecTable]
    BY DEF IndInv, TypeOK
  <2> QED BY <2>3, <2>4, <2>5, <2>6
<1>12. TypeOK'
  BY <1>3, <1>7, <1>11 DEF StopSession, IndInv, TypeOK
<1>13. ConfirmedHoldsTheGate' /\ AdminOnlyAfterApproval'
  <2>1. \A z \in Sessions : sess'[z].admin = sess[z].admin
    BY <1>1, <1>3
  <2> QED BY <1>9, <1>12, <2>1, FrameGate, FrameApproval DEF StopSession
<1>14. GateIsFree'
  BY <1>1, <1>3, StatusValues DEF IndInv, GateIsFree, Ready
<1>15. WorkerKey' /\ PipelineInstalled'
  <2>1. UNCHANGED acl /\ \A z \in Sessions : sess'[z].admin = sess[z].admin
                                             /\ sess'[z].stage = sess[z].stage
    BY <1>1, <1>3 DEF StopSession
  <2>2. \A z \in Sessions : sess'[z].status \in Deployed \cup {"running"}
                               => sess'[z].status = sess[z].status
    BY <1>1, <1>3, StatusValues
  <2>3. WorkerKey'
    BY <1>11, <2>1 DEF IndInv, WorkerKey
  <2>4. PipelineInstalled'
    BY <1>11, <2>1, <2>2 DEF IndInv, PipelineInstalled
  <2> QED BY <2>3, <2>4
<1> QED BY <1>9, <1>12, <1>13, <1>14, <1>15, Frame DEF IndInv, StopSession

\* The end of a process only stops workers: nothing they carried is lost.
LEMMA CrashStep ==
    ASSUME IndInv, Crash PROVE IndInv' /\ Progress
<1>1. Progress /\ UNCHANGED <<sess, conn, last, view, acl, approved, bound>>
  BY TablesKept DEF Crash
<1>2. faults' \in 0 .. MaxFaults
  BY ConnectionAssumption DEF Crash, IndInv, TypeOK
<1>3. CASE starting' = {} /\ UNCHANGED <<worker, rec, boot, job>>
  <2>1. TypeOK'
    BY <1>1, <1>2, <1>3 DEF IndInv, TypeOK
  <2> QED BY <1>1, <1>3, <2>1, Frame DEF IndInv
<1>4. ASSUME NEW s \in Sessions, worker' = [worker EXCEPT ![s] = Idle],
             rec' = [rec EXCEPT ![s] = [g \in Recoveries |-> Asleep]],
             boot' = boot \cup {s},
             UNCHANGED <<starting, job>>
      PROVE  IndInv' /\ Progress
  <2> DEFINE v == [g \in Recoveries |-> Asleep]
  <2>0. v \in RecTable /\ NoneDeploys(v)
    BY PipelineValues DEF RecTable, NoneDeploys
  <2> HIDE DEF v
  <2>1. TypeOK'
    BY <1>1, <1>2, <1>4, <2>0, PipelineValues DEF IndInv, TypeOK, v
  <2>2. /\ worker \in [Sessions -> WorkerState] /\ rec \in [Sessions -> RecTable]
        /\ Idle.pc = "idle" /\ "idle" \notin Deployed
        /\ rec' = [rec EXCEPT ![s] = v]
    BY <1>4, PipelineValues DEF IndInv, TypeOK, v
  <2>3. WorkerKey' /\ PipelineInstalled'
    BY <1>1, <1>4, <2>0, <2>2 DEF IndInv, WorkerKey, PipelineInstalled
  <2> QED BY <1>1, <1>4, <2>1, <2>3, Frame DEF IndInv
<1>5. ASSUME NEW r \in Replicas, job' = [job EXCEPT ![r] = IdleJob(job[r].session)],
             UNCHANGED <<starting, worker, rec, boot>>
      PROVE  IndInv' /\ Progress
  <2>1. /\ job' \in [Replicas -> JobState] /\ job'[r].pc = "idle"
        /\ \A x \in Replicas : x # r => job'[x] = job[x]
    BY <1>5, JobMoves, JobValues
  <2>2. TypeOK'
    BY <1>1, <1>2, <1>5, <2>1 DEF IndInv, TypeOK
  <2>3. JobKey' /\ JobRow'
    BY <1>1, <2>1, <2>2, FrameOneJob
  <2> QED BY <1>1, <1>5, <2>2, <2>3, Frame DEF IndInv
<1> QED BY <1>3, <1>4, <1>5 DEF Crash

----------------------------------------------------------------------------
(* The invariant is inductive *)

LEMMA InitInv == Init => IndInv
<1> SUFFICES ASSUME Init PROVE IndInv
  OBVIOUS
<1>1. Blank.session \in Sessions
  BY ConnectionAssumption DEF Blank
<1>2. /\ Blank \in ConnRow /\ Blank.status = "free" /\ Blank.admin = NoKey
  BY <1>1 DEF Blank, ConnRow, ConnStatus
<1>3. /\ conn \in [Ids -> ConnRow] /\ \A c \in Ids : conn[c] = Blank
  BY <1>2 DEF Init
<1>4. \A s \in Sessions : Gate(s) \in SessStatus /\ Gate(s) \notin Deployed \cup {"running"}
  BY DEF Gate, SessStatus, GateStatus, Deployed
<1>5. /\ sess \in [Sessions -> SessRow]
      /\ \A s \in Sessions : sess[s].status = Gate(s) /\ sess[s].admin = NoKey /\ sess[s].stage = ""
  BY <1>4 DEF Init, SessRow
<1>6. /\ Idle \in WorkerState /\ Asleep \in RecState
      /\ Idle.pc = "idle" /\ Asleep.pc = "idle"
  BY DEF Idle, WorkerState, Asleep, RecState
<1>7. /\ worker \in [Sessions -> WorkerState] /\ rec \in [Sessions -> RecTable]
      /\ \A s \in Sessions : worker[s].pc = "idle" /\ NoneDeploys(rec[s])
  BY <1>6 DEF Init, RecTable, NoneDeploys, Deployed
<1>8. /\ job \in [Replicas -> JobState]
      /\ \A r \in Replicas : job[r].pc = "idle"
  <2>1. IdleJob(Blank.session) \in JobState /\ IdleJob(Blank.session).pc = "idle"
    BY <1>1 DEF IdleJob, JobState
  <2> QED BY <2>1 DEF Init
<1>9. view \in ViewState /\ view.id = 0
  BY DEF Init, NoView, ViewState, ConnStatus, SessStatus
<1>10. last = 0 /\ last \in 0 .. MaxRequests /\ faults \in 0 .. MaxFaults /\ Ids \subseteq Nat \ {0}
  <2>1. last = 0 /\ faults = 0
    BY DEF Init
  <2> QED BY <2>1, ConnectionAssumption DEF Ids
<1>11. /\ acl = [s \in Sessions |-> {}] /\ approved = [s \in Sessions |-> {}]
       /\ bound = [s \in Sessions |-> {}] /\ starting = {} /\ boot = {}
  BY DEF Init
<1>12. TypeOK
  BY <1>3, <1>5, <1>7, <1>8, <1>9, <1>10, <1>11 DEF TypeOK
<1>13. UsedRows
  BY <1>2, <1>3, <1>10 DEF UsedRows
<1>14. /\ ActiveIsCurrent /\ DiscardedKeys /\ ClaimantKept
       /\ ConfirmedHoldsTheGate /\ ApprovedRows
  BY <1>2, <1>3 DEF ActiveIsCurrent, DiscardedKeys, ClaimantKept,
                    ConfirmedHoldsTheGate, ApprovedRows, Active
<1>15. AdminOnlyAfterApproval /\ GateIsFree
  BY <1>5, <1>11 DEF AdminOnlyAfterApproval, GateIsFree
<1>16. WorkerKey /\ PipelineInstalled
  <2>1. "idle" \notin Deployed /\ "" \notin Deployed
    BY DEF Deployed
  <2> QED BY <1>4, <1>5, <1>7, <2>1 DEF WorkerKey, PipelineInstalled
<1>17. JobKey /\ JobRow /\ ViewIsSafe
  BY <1>8, <1>9 DEF JobKey, JobRow, ViewIsSafe
<1>18. ReleasedMeansInstalled
  BY <1>2, <1>3, <1>11 DEF ReleasedMeansInstalled
<1> QED BY <1>12, <1>13, <1>14, <1>15, <1>16, <1>17, <1>18 DEF IndInv

LEMMA NextInv == IndInv /\ [Next]_vars => IndInv' /\ Progress
<1> SUFFICES ASSUME IndInv, [Next]_vars PROVE IndInv' /\ Progress
  OBVIOUS
<1>1. CASE UNCHANGED vars
  <2>1. Progress
    BY <1>1, TablesKept DEF vars
  <2>2. TypeOK'
    BY <1>1 DEF vars, IndInv, TypeOK
  <2> QED BY <1>1, <2>1, <2>2, Frame DEF vars, IndInv
<1>2. ASSUME NEW s \in Sessions,
             \/ ChangeCreate(s) \/ StopSession(s)
             \/ KickProvision(s) \/ WorkerLoad(s) \/ WorkerBegin(s)
             \/ WorkerImport(s) \/ WorkerAdvance(s) \/ WorkerFinish(s)
             \/ WorkerFail(s) \/ WorkerPing(s) \/ WorkerAbort(s)
             \/ \E g \in Recoveries :
                   \/ RecoverSession(s, g) \/ ResumeDeployment(s, g)
                   \/ RecoveryLoad(s, g) \/ RecoveryAdvance(s, g)
                   \/ RecoveryFinish(s, g) \/ RecoveryFail(s, g)
      PROVE  IndInv' /\ Progress
  BY <1>2, ChangeCreateStep, StopSessionStep, WorkerWaitStep, WorkerBeginStep,
     WorkerImportStep, WorkerAdvanceStep, WorkerFinishStep, WorkerFailStep,
     RecoverSessionStep, RecoveryWaitStep, RecoveryAdvanceStep,
     RecoveryFinishStep, RecoveryFailStep
<1>3. ASSUME NEW c \in Ids,
             \/ ChangeRefresh(c) \/ ChangeCancel(c) \/ OwnerCurrent(c)
             \/ Confirm(c) \/ Reject(c) \/ StartWorker(c)
             \/ LoadView(c) \/ Cool(c) \/ Deadline(c)
             \/ \E k \in Keys : Claim(c, k)
             \/ \E r \in Replicas : KickAdditional(r, c)
      PROVE  IndInv' /\ Progress
  BY <1>3, ChangeRefreshStep, ChangeCancelStep, OwnerCurrentStep,
     ConfirmStep, RejectStep, StartWorkerStep, LoadViewStep, ClockStep, ClaimStep,
     KickAdditionalStep
<1>4. ASSUME NEW r \in Replicas,
             JobCheck(r) \/ JobGrant(r) \/ JobBusy(r) \/ JobDone(r) \/ JobFailed(r)
      PROVE  IndInv' /\ Progress
  BY <1>4, JobWaitStep, JobGrantStep, JobDoneStep, JobFailedStep
<1>5. ASSUME NEW s \in Sessions, NEW k \in Keys,
             AcceptManual(s, k) \/ \E r \in Replicas : OwnerGrant(r, s, k)
      PROVE  IndInv' /\ Progress
  BY <1>5, AcceptManualStep, OwnerGrantStep
<1> QED BY <1>1, <1>2, <1>3, <1>4, <1>5, ReconcileStep, CrashStep DEF Next

LEMMA Invariance == Spec => []IndInv
  BY InitInv, NextInv, PTL DEF Spec

----------------------------------------------------------------------------
(* What the gate guarantees *)

\* Every variable keeps its type under every interleaving of requests, workers,
\* grant jobs, readers and process ends: in particular no handler ever writes a
\* status outside the published ones or installs an empty key.
THEOREM TypeCorrect == Spec => []TypeOK
  BY Invariance, PTL DEF IndInv

\* The unique index mobile_connections_active_session can never be hit: the
\* guards of change() and of the manual route suffice (ActiveIsOnly).
THEOREM OneReservation == Spec => []OneActivePerSession
<1>1. IndInv => OneActivePerSession
  BY ActiveIsOnly DEF OneActivePerSession
<1> QED BY <1>1, Invariance, PTL

\* No key is accepted for a session or written into its VTA by a worker, a
\* recovery or a grant job unless a person confirmed or submitted that key.
THEOREM ApprovedOnly == Spec => []AdminOnlyAfterApproval
  BY Invariance, PTL DEF IndInv

\* Whatever stale rows Reconcile acts on and whenever MarkReleased runs, a
\* released reservation and a wallet binding belong to an installed key.
THEOREM ReleasedIsInstalled == Spec => []ReleasedMeansInstalled
  BY Invariance, PTL DEF IndInv

\* Rejected, lapsed and cancelled reservations keep no candidate key.
THEOREM KeysDiscarded == Spec => []DiscardedKeys
  BY Invariance, PTL DEF IndInv

\* While a claimed or confirmed reservation waits for a first administrator,
\* no other route fills the gate.
THEOREM GateHeld == Spec => []ConfirmedHoldsTheGate
  BY Invariance, PTL DEF IndInv

\* The first administrator of a session is never replaced or removed.
THEOREM AdminStays == Spec => AdminNeverReplaced
<1>1. IndInv /\ [Next]_vars
         => [\A s \in Sessions : sess[s].admin # NoKey => sess'[s].admin = sess[s].admin]_vars
  BY NextInv DEF Progress, KeysStay
<1> QED BY <1>1, Invariance, PTL DEF Spec, AdminNeverReplaced

\* Reservations move only along the published lifecycle.
THEOREM Lifecycle == Spec => ReservationLifecycle
<1>1. ASSUME Progress
      PROVE  \A c \in Ids : \/ conn'[c].status = conn[c].status
                            \/ <<conn[c].status, conn'[c].status>> \in Step
  BY <1>1 DEF Progress, RowStep, Step
<1>2. IndInv /\ [Next]_vars
         => [\A c \in Ids : \/ conn'[c].status = conn[c].status
                            \/ <<conn[c].status, conn'[c].status>> \in Step]_vars
  BY <1>1, NextInv
<1> QED BY <1>2, Invariance, PTL DEF Spec, ReservationLifecycle

----------------------------------------------------------------------------
(* The gate implements the hand-over *)

\* The steps that touch neither administrators, approvals nor the VTA.
LEMMA Quiet ==
    ASSUME UNCHANGED <<approved, acl>>,
           \A s \in Sessions : sess'[s].admin = sess[s].admin
    PROVE  UNCHANGED HandoverOf!hvars
  BY DEF HandoverOf!hvars

\* The status writes of the pipeline and of a deletion keep the administrator.
LEMMA StatusOnly ==
    ASSUME IndInv, NEW s \in Sessions,
           \/ StopSession(s) \/ WorkerBegin(s) \/ WorkerAdvance(s) \/ WorkerFinish(s)
           \/ WorkerFail(s)
           \/ \E g \in Recoveries : \/ RecoverSession(s, g) \/ RecoveryAdvance(s, g)
                                    \/ RecoveryFinish(s, g) \/ RecoveryFail(s, g)
    PROVE  UNCHANGED HandoverOf!hvars
<1>0. sess \in [Sessions -> SessRow] /\ sess[s] \in SessRow
  BY DEF IndInv, TypeOK
<1>1. UNCHANGED <<approved, acl>>
  BY DEF StopSession, WorkerBegin, WorkerAdvance, WorkerFinish, WorkerFail,
         RecoverSession, RecoveryAdvance, RecoveryFinish, RecoveryFail
<1>2. \A st : /\ [sess[s] EXCEPT !.status = st].admin = sess[s].admin
              /\ Failed(sess[s], st).admin = sess[s].admin
  BY <1>0 DEF SessRow, Failed
<1>3. \E q : sess' = [sess EXCEPT ![s] = q] /\ q.admin = sess[s].admin
  <2>1. CASE WorkerBegin(s)
    <3>1. worker[s].key = sess[s].admin
      BY <2>1 DEF WorkerBegin, IndInv, WorkerKey
    <3> DEFINE q == [sess[s] EXCEPT !.status = Provision(s), !.admin = worker[s].key]
    <3>2. q.admin = sess[s].admin
      BY <1>0, <3>1 DEF SessRow
    <3>3. sess' = [sess EXCEPT ![s] = q]
      BY <2>1 DEF WorkerBegin
    <3> QED BY <3>2, <3>3
  <2>2. CASE StopSession(s)
    BY <1>2, <2>2 DEF StopSession
  <2>3. CASE WorkerAdvance(s)
    BY <1>2, <2>3 DEF WorkerAdvance
  <2>4. CASE \E g \in Recoveries : RecoveryAdvance(s, g)
    BY <1>2, <2>4 DEF RecoveryAdvance
  <2>5. CASE WorkerFinish(s)
    <3> DEFINE q == [sess[s] EXCEPT !.status = "running",
                                    !.stage = IF s \in FullStack THEN sess[s].stage ELSE ""]
    <3>1. q.admin = sess[s].admin
      BY <1>0 DEF SessRow
    <3>2. sess' = [sess EXCEPT ![s] = q]
      BY <2>5 DEF WorkerFinish
    <3> QED BY <3>1, <3>2
  <2>6. CASE \E g \in Recoveries : RecoverSession(s, g)
    <3> DEFINE q == [sess[s] EXCEPT !.status = sess[s].stage, !.stage = ""]
    <3>1. q.admin = sess[s].admin
      BY <1>0 DEF SessRow
    <3>2. sess' = [sess EXCEPT ![s] = q]
      BY <2>6 DEF RecoverSession
    <3> QED BY <3>1, <3>2
  <2>7. CASE \E g \in Recoveries : RecoveryFinish(s, g)
    <3> DEFINE q == [sess[s] EXCEPT !.status = "running", !.stage = ""]
    <3>1. q.admin = sess[s].admin
      BY <1>0 DEF SessRow
    <3>2. sess' = [sess EXCEPT ![s] = q]
      BY <2>7 DEF RecoveryFinish
    <3> QED BY <3>1, <3>2
  <2>8. CASE WorkerFail(s)
    BY <1>2, <2>8 DEF WorkerFail
  <2>9. CASE \E g \in Recoveries : RecoveryFail(s, g)
    <3>1. sess = [sess EXCEPT ![s] = sess[s]]
      BY <1>0
    <3> QED BY <1>2, <2>9, <3>1 DEF RecoveryFail
  <2> QED BY <2>1, <2>2, <2>3, <2>4, <2>5, <2>6, <2>7, <2>8, <2>9
<1>4. \A z \in Sessions : sess'[z].admin = sess[z].admin
  BY <1>0, <1>3
<1> QED BY <1>1, <1>4, Quiet

LEMMA ApproveSimulated ==
    ASSUME NEW s \in Sessions, NEW k \in Keys,
           approved' = [approved EXCEPT ![s] = approved[s] \cup {k}],
           UNCHANGED <<sess, acl>>
    PROVE  HandoverOf!HNext
<1>1. HandoverOf!Approve(s, k)
  BY DEF HandoverOf!Approve
<1> QED BY <1>1 DEF HandoverOf!HNext

LEMMA InstallSimulated ==
    ASSUME NEW s \in Sessions, NEW k \in Keys, k \in approved[s],
           k = sess[s].admin \/ sess[s].admin \in acl[s],
           acl' = [acl EXCEPT ![s] = acl[s] \cup {k}],
           UNCHANGED <<sess, approved>>
    PROVE  HandoverOf!HNext
<1>1. HandoverOf!Install(s, k)
  BY DEF HandoverOf!Install
<1> QED BY <1>1 DEF HandoverOf!HNext

\* A started first administrator is the one that was confirmed.
LEMMA StartSimulated ==
    ASSUME IndInv, NEW c \in Ids, Startable(c), StartProvisioning(c),
           UNCHANGED <<acl, approved>>
    PROVE  HandoverOf!HNext \/ UNCHANGED HandoverOf!hvars
<1>1. PICK s \in Sessions, k \in Keys :
         /\ s = conn[c].session /\ k = conn[c].admin /\ k \in approved[s]
         /\ conn[c].op = "provision_vta" => sess[s].admin = NoKey
  BY RowTypes DEF IndInv, Startable, ClaimantKept, ApprovedRows, ConfirmedHoldsTheGate
<1>2. CASE conn[c].op = "provision_vta"
  <2>1. sess' = [sess EXCEPT ![s] = [sess[s] EXCEPT !.status = Provision(s), !.admin = k]]
    BY <1>1, <1>2 DEF StartProvisioning
  <2>2. sess \in [Sessions -> SessRow] /\ sess[s] \in SessRow
    BY DEF IndInv, TypeOK
  <2>3. sess'[s].admin = k /\ \A z \in Sessions : z # s => sess'[z].admin = sess[z].admin
    BY <2>1, <2>2 DEF SessRow
  <2>4. HandoverOf!Accept(s, k)
    BY <1>1, <1>2, <2>3 DEF HandoverOf!Accept
  <2>5. HandoverOf!HNext
    BY <2>4 DEF HandoverOf!HNext
  <2> QED BY <2>5
<1>3. CASE conn[c].op # "provision_vta"
  BY <1>3, Quiet DEF StartProvisioning
<1> QED BY <1>2, <1>3

LEMMA AcceptManualSimulated ==
    ASSUME IndInv, NEW s \in Sessions, NEW k \in Keys, AcceptManual(s, k)
    PROVE  HandoverOf!HNext
<1>1. sess \in [Sessions -> SessRow] /\ sess[s] \in SessRow
  BY DEF IndInv, TypeOK
<1>2. /\ sess' = [sess EXCEPT ![s] = [sess[s] EXCEPT !.status = Provision(s), !.admin = k]]
      /\ approved' = [approved EXCEPT ![s] = approved[s] \cup {k}]
      /\ sess[s].admin = NoKey /\ UNCHANGED acl
  BY DEF AcceptManual
<1>3. sess'[s].admin = k /\ \A z \in Sessions : z # s => sess'[z].admin = sess[z].admin
  BY <1>1, <1>2 DEF SessRow
<1>4. HandoverOf!Submit(s, k)
  BY <1>2, <1>3 DEF HandoverOf!Submit
<1> QED BY <1>4 DEF HandoverOf!HNext

\* Every step of the gate is a step of the hand-over or invisible to it.
LEMMA StepSimulated ==
    IndInv /\ [Next]_vars => [HandoverOf!HNext]_(HandoverOf!hvars)
<1> SUFFICES ASSUME IndInv, [Next]_vars
             PROVE  HandoverOf!HNext \/ UNCHANGED HandoverOf!hvars
  OBVIOUS
<1>1. CASE UNCHANGED vars
  BY <1>1, Quiet DEF vars
<1>2. ASSUME NEW s \in Sessions,
             \/ StopSession(s) \/ WorkerBegin(s) \/ WorkerAdvance(s) \/ WorkerFinish(s)
             \/ WorkerFail(s)
             \/ \E g \in Recoveries : \/ RecoverSession(s, g) \/ RecoveryAdvance(s, g)
                                      \/ RecoveryFinish(s, g) \/ RecoveryFail(s, g)
      PROVE  UNCHANGED HandoverOf!hvars
  BY <1>2, StatusOnly
<1>3. ASSUME NEW s \in Sessions,
             \/ ChangeCreate(s) \/ KickProvision(s) \/ WorkerLoad(s)
             \/ WorkerPing(s) \/ WorkerAbort(s)
             \/ \E g \in Recoveries : ResumeDeployment(s, g) \/ RecoveryLoad(s, g)
      PROVE  UNCHANGED HandoverOf!hvars
  <2>1. UNCHANGED <<sess, approved, acl>>
    BY <1>3 DEF ChangeCreate, KickProvision, WorkerLoad, WorkerPing, WorkerAbort,
                ResumeDeployment, RecoveryLoad
  <2> QED BY <2>1, Quiet
<1>4. ASSUME NEW s \in Sessions, WorkerImport(s) PROVE HandoverOf!HNext
  <2>1. PICK k \in Keys : k = worker[s].key /\ k = sess[s].admin /\ k \in approved[s]
    BY <1>4, ConnectionAssumption DEF WorkerImport, IndInv, WorkerKey, AdminOnlyAfterApproval
  <2> QED BY <1>4, <2>1, InstallSimulated DEF WorkerImport
<1>5. ASSUME NEW s \in Sessions, NEW k \in Keys, AcceptManual(s, k) PROVE HandoverOf!HNext
  BY <1>5, AcceptManualSimulated
<1>6. ASSUME NEW r \in Replicas, NEW s \in Sessions, NEW k \in Keys, OwnerGrant(r, s, k)
      PROVE  HandoverOf!HNext
  BY <1>6, ApproveSimulated DEF OwnerGrant
<1>7. ASSUME NEW c \in Ids,
             \/ ChangeRefresh(c) \/ ChangeCancel(c) \/ Reject(c)
             \/ LoadView(c) \/ Cool(c) \/ Deadline(c) \/ \E k \in Keys : Claim(c, k)
      PROVE  UNCHANGED HandoverOf!hvars
  <2>1. UNCHANGED <<sess, approved, acl>>
    BY <1>7 DEF ChangeRefresh, ChangeCancel, Reject, LoadView, Cool,
                Deadline, Claim
  <2> QED BY <2>1, Quiet
<1>8. ASSUME NEW c \in Ids, Confirm(c) PROVE HandoverOf!HNext
  <2>1. PICK s \in Sessions, k \in Keys : s = conn[c].session /\ k = conn[c].admin
    BY <1>8, RowTypes DEF Confirm, IndInv, ClaimantKept
  <2> QED BY <1>8, <2>1, ApproveSimulated DEF Confirm
<1>9. ASSUME NEW c \in Ids, StartWorker(c) \/ OwnerCurrent(c)
      PROVE  HandoverOf!HNext \/ UNCHANGED HandoverOf!hvars
  <2>1. UNCHANGED <<acl, approved>>
    BY <1>9 DEF StartWorker, OwnerCurrent
  <2>2. (Startable(c) /\ StartProvisioning(c)) \/ UNCHANGED sess
    BY <1>9 DEF StartWorker, OwnerCurrent
  <2> QED BY <2>1, <2>2, StartSimulated, Quiet
<1>10. ASSUME NEW r \in Replicas, NEW c \in Ids, KickAdditional(r, c)
       PROVE  HandoverOf!HNext \/ UNCHANGED HandoverOf!hvars
  <2>1. UNCHANGED <<acl, approved>>
    BY <1>10 DEF KickAdditional
  <2>2. (Startable(c) /\ StartProvisioning(c)) \/ UNCHANGED sess
    BY <1>10 DEF KickAdditional
  <2> QED BY <2>1, <2>2, StartSimulated, Quiet
<1>11. ASSUME NEW r \in Replicas, JobCheck(r) \/ JobBusy(r) \/ JobDone(r) \/ JobFailed(r)
       PROVE  UNCHANGED HandoverOf!hvars
  <2>1. UNCHANGED <<sess, approved, acl>>
    BY <1>11 DEF JobCheck, JobBusy, JobDone, JobFailed
  <2> QED BY <2>1, Quiet
<1>12. ASSUME NEW r \in Replicas, JobGrant(r)
       PROVE  HandoverOf!HNext \/ UNCHANGED HandoverOf!hvars
  <2>1. PICK s \in Sessions, k \in Keys :
           s = job[r].session /\ k = job[r].key /\ k \in approved[s] /\ sess[s].admin \in acl[s]
    BY <1>12, JobValues DEF JobGrant, IndInv, JobKey, TypeOK
  <2>2. /\ UNCHANGED <<sess, approved>>
        /\ acl' = acl \/ acl' = [acl EXCEPT ![s] = acl[s] \cup {k}]
    BY <1>12, <2>1 DEF JobGrant
  <2> QED BY <2>1, <2>2, InstallSimulated, Quiet
<1>13. ASSUME Reconcile \/ Crash PROVE UNCHANGED HandoverOf!hvars
  <2>1. UNCHANGED <<sess, approved, acl>>
    BY <1>13 DEF Reconcile, Crash
  <2> QED BY <2>1, Quiet
<1> QED BY <1>1, <1>2, <1>3, <1>4, <1>5, <1>6, <1>7, <1>8, <1>9, <1>10, <1>11,
           <1>12, <1>13 DEF Next

\* The administrator gate implements the hand-over of module Handover for any
\* number of sessions, keys, replicas, requests and faults: read as "first
\* administrator, approvals, access-control list", every handler, worker,
\* recovery and job step is an approval, an acceptance, a submission, an
\* installation, or nothing.
THEOREM GateImplementsHandover == Spec => ImplementsHandover
<1>1. ASSUME Init PROVE HandoverOf!HInit
  <2>1. \A s \in Sessions : sess[s].admin = NoKey
    BY <1>1 DEF Init
  <2>2. [s \in Sessions |-> sess[s].admin] = [s \in Sessions |-> NoKey]
    BY <2>1
  <2>3. approved = [s \in Sessions |-> {}] /\ acl = [s \in Sessions |-> {}]
    BY <1>1 DEF Init
  <2> QED BY <2>2, <2>3 DEF HandoverOf!HInit
<1> QED BY <1>1, StepSimulated, Invariance, PTL DEF Spec, ImplementsHandover, HandoverOf!HSpec
=============================================================================
