------------------------------ MODULE Upgrade ------------------------------
(***************************************************************************)
(* Image upgrades: batches of tasks in the database, the background runner *)
(* that works through them (src/internal/upgrade/runner.go), and the       *)
(* handlers that create, cancel and resume batches                         *)
(* (src/internal/handler/admin_upgrade.go and user_upgrade.go).            *)
(*                                                                         *)
(* A target is one component of one session, that is one Deployment and    *)
(* one image column.  A batch has at most one task per target.  An image   *)
(* value is a release; a request picks one release for the components it   *)
(* names.                                                                  *)
(*                                                                         *)
(* One process runs the API.  A step is one database transaction, one call *)
(* to Kubernetes, or one observation of a rollout; requests, schedulers    *)
(* and task goroutines interleave between them.                            *)
(***************************************************************************)
EXTENDS Naturals, FiniteSets

CONSTANTS Sessions,    \* running setup sessions
          Targets,     \* (session, component) pairs deployed at the start
          SessionOf,   \* the session of a target
          FullStack,   \* sessions in mode full_stack: they can have a Registry
          Platform,    \* targets that are a platform stack's VTA
          Images,      \* releases
          First,       \* the release every target runs at the start
          None,        \* no image, no session
          Batches,     \* bound: rows upgrade_batches ever holds
          Requests,    \* bound: administrative or user requests at one time
          Concurrency, \* upgrade_batches.concurrency (the column default is 1)
          MaxRestarts, \* bound: process ends
          MaxFaults,   \* bound: database writes that fail
          MaxMisreads  \* bound: targets whose session row cannot be read once

ASSUME UpgradeAssumption ==
    /\ SessionOf \in [Targets -> Sessions]
    /\ FullStack \subseteq Sessions
    /\ Platform \subseteq Targets
    /\ First \in Images
    /\ None \notin Images \cup Sessions \cup Batches
    /\ Concurrency \in Nat \ {0}
    /\ MaxRestarts \in Nat
    /\ MaxFaults \in Nat
    /\ MaxMisreads \in Nat

VARIABLES batch,    \* upgrade_batches: status and initiator
          task,     \* upgrade_tasks, by batch and target
          sess,     \* setup_sessions.status
          reg,      \* the Trust Registry enablement of a session
          image,    \* the image column of a target
          deploy,   \* the image in the target's Deployment, None when deleted
          dflt,     \* image_defaults: the VTA release new users get
          sched,    \* the scheduler goroutine of a batch (Runner.active)
          work,     \* the goroutine of a task
          req,      \* requests being served
          raced,    \* history: sessions two operations worked on at once
          restarts,
          faults,
          misread   \* targets whose session row once could not be read

vars == <<batch, task, sess, reg, image, deploy, dflt, sched, work, req,
          raced, restarts, faults, misread>>

----------------------------------------------------------------------------
(* Vocabulary *)

InFlight   == {"running", "rolling_back"}
Unfinished == InFlight \cup {"pending"}
Ended      == {"succeeded", "failed", "skipped", "rolled_back",
               "rollback_failed"}
TaskStates == Unfinished \cup Ended \cup {"none"}

\* No row: never created, or deleted with its session (ON DELETE CASCADE).
NoTask == [st |-> "none", from |-> None, to |-> None]

TargetsOf(s) == {t \in Targets : SessionOf[t] = s}

\* Session s has a task whose status is in S, in whatever batch.
Has(s, S) == \E b \in Batches, t \in TargetsOf(s) : task[<<b, t>>].st \in S

BusyBatches(s) ==
    {b \in Batches : \E t \in TargetsOf(s) : task[<<b, t>>].st \in Unfinished}

\* Two changes of one session at a time.
Overlap(s) ==
    \/ \E b, c \in BusyBatches(s) : b # c
    \/ reg[s] = "enabling" /\ BusyBatches(s) # {}

\* UPDATE ... WHERE id: nothing happens when the row is gone.
WithStatus(b, t, st) ==
    IF task[<<b, t>>].st = "none" THEN task
    ELSE [task EXCEPT ![<<b, t>>].st = st]

WithImage(t, i) ==
    IF sess[SessionOf[t]] = "gone" THEN image ELSE [image EXCEPT ![t] = i]

Pausing(b) ==
    IF batch[b].st = "running" THEN [batch EXCEPT ![b].st = "paused"] ELSE batch

\* Cancelled batches, and what becomes of their tasks that did not start.
Cancelling(B) ==
    /\ batch' = [b \in Batches |->
                   IF b \in B THEN [batch[b] EXCEPT !.st = "cancelled"]
                   ELSE batch[b]]
    /\ task' = [x \in Batches \X Targets |->
                  IF x[1] \in B /\ task[x].st = "pending"
                  THEN [task[x] EXCEPT !.st = "skipped"] ELSE task[x]]

\* A write that fails; its caller decides what that means.
LoseWrite == faults < MaxFaults /\ faults' = faults + 1

NoQueue == [t \in Targets |-> "none"]
NoPlan  == [t \in Targets |-> NoTask]
Idle    == [op |-> "none", at |-> "off", s |-> None, b |-> None, plan |-> NoPlan]
Asleep  == [pc |-> "off", saw |-> "none"]
Stopped == [pc |-> "off", queue |-> NoQueue]

----------------------------------------------------------------------------
(* Initial state: every session runs, nothing was ever upgraded. *)

Init ==
    /\ batch = [b \in Batches |-> [st |-> "none", by |-> "none"]]
    /\ task = [x \in Batches \X Targets |-> NoTask]
    /\ sess = [s \in Sessions |-> "running"]
    /\ reg = [s \in Sessions |-> "idle"]
    /\ image = [t \in Targets |-> First]
    /\ deploy = [t \in Targets |-> First]
    /\ dflt = First
    /\ sched = [b \in Batches |-> Stopped]
    /\ work = [x \in Batches \X Targets |-> Asleep]
    /\ req = [r \in Requests |-> Idle]
    /\ raced = {}
    /\ restarts = 0
    /\ faults = 0
    /\ misread = {}

----------------------------------------------------------------------------
(* Creating a batch *)

\* Runner.Start: nothing when this process already has a scheduler for b.
Started(b) ==
    IF sched[b].pc = "off" THEN [sched EXCEPT ![b].pc = "load"] ELSE sched

\* Slip: the old image is not kept.
PlanForgetful(ts, i) ==
    [t \in Targets |->
        IF t \in ts THEN [st |-> "pending", from |-> None, to |-> i] ELSE NoTask]

\* The rows a request would insert: the old image is the one read now.
PlanFor(ts, i) ==
    [t \in Targets |->
        IF t \in ts THEN [st |-> "pending", from |-> image[t], to |-> i]
        ELSE NoTask]

Planned(r) == {t \in Targets : req[r].plan[t] # NoTask}

Answer(r) == req' = [req EXCEPT ![r] = Idle]

Upgradable(t, i) ==
    /\ sess[SessionOf[t]] = "running"
    /\ reg[SessionOf[t]] # "enabling"
    /\ image[t] # i

\* Create: the registry was asked before, so the sessions are read last.
AdminLoad(r, ts, i) ==
    /\ req[r] = Idle
    /\ LET eligible == {t \in ts : Upgradable(t, i)} IN
         /\ eligible # {}
         /\ req' = [req EXCEPT ![r] =
                      [op |-> "admin", at |-> "loaded", s |-> None, b |-> None,
                       plan |-> PlanFor(eligible, i)]]
    /\ UNCHANGED <<batch, task, sess, reg, image, deploy, dflt, sched, work,
                   restarts, misread, faults>>

\* Create: sessions with an unfinished task are left out (resolveTargets).
AdminCheck(r) ==
    /\ req[r].op = "admin" /\ req[r].at = "loaded"
    /\ LET plan == [t \in Targets |->
                      IF Has(SessionOf[t], Unfinished) THEN NoTask
                      ELSE req[r].plan[t]] IN
         req' = [req EXCEPT ![r] =
                   IF plan = NoPlan THEN Idle
                   ELSE [req[r] EXCEPT !.at = "checked", !.plan = plan]]
    /\ UNCHANGED <<batch, task, sess, reg, image, deploy, dflt, sched, work,
                   restarts, misread, faults>>

\* CreateForSession: the owner's session and its images; the registries are
\* asked for their tags after this read.
UserLoad(r, s, ts, i) ==
    /\ req[r] = Idle
    /\ ts # {} /\ ts \subseteq TargetsOf(s)
    /\ \A t \in ts : Upgradable(t, i)
    /\ req' = [req EXCEPT ![r] =
                 [op |-> "user", at |-> "loaded", s |-> s, b |-> None,
                  plan |-> PlanFor(ts, i)]]
    /\ UNCHANGED <<batch, task, sess, reg, image, deploy, dflt, sched, work,
                   restarts, misread, faults>>

\* CreateForSession: 409 while a rollback of the session is in progress.
UserRestoring(r) ==
    /\ req[r].op = "user" /\ req[r].at = "loaded"
    /\ IF Has(req[r].s, {"rolling_back"})
       THEN Answer(r)
       ELSE req' = [req EXCEPT ![r].at = "clear"]
    /\ UNCHANGED <<batch, task, sess, reg, image, deploy, dflt, sched, work,
                   restarts, misread, faults>>

\* CreateForSession: the owner's paused batches of this session give way.
UserSupersede(r) ==
    /\ req[r].op = "user" /\ req[r].at = "clear"
    /\ Cancelling({b \in Batches :
                     /\ batch[b].by = "user" /\ batch[b].st = "paused"
                     /\ \E t \in TargetsOf(req[r].s) : task[<<b, t>>].st # "none"})
    /\ req' = [req EXCEPT ![r].at = "superseded"]
    /\ UNCHANGED <<sess, reg, image, deploy, dflt, sched, work, restarts, misread,
                   faults>>

\* CreateForSession: 409 while the session has an unfinished task.
UserCheck(r) ==
    /\ req[r].op = "user" /\ req[r].at = "superseded"
    /\ IF Has(req[r].s, Unfinished)
       THEN Answer(r)
       ELSE req' = [req EXCEPT ![r].at = "checked"]
    /\ UNCHANGED <<batch, task, sess, reg, image, deploy, dflt, sched, work,
                   restarts, misread, faults>>

\* Both: the batch and its tasks in one transaction, then Runner.Start.  The
\* foreign key refuses a session deleted meanwhile.
CreateBatch(r, b) ==
    /\ req[r].at = "checked" /\ req[r].op \in {"admin", "user"}
    /\ batch[b].st = "none"
    /\ Answer(r)
    /\ IF \E t \in Planned(r) : sess[SessionOf[t]] = "gone"
       THEN UNCHANGED <<batch, task, sched>>
       ELSE /\ batch' = [batch EXCEPT ![b] = [st |-> "running", by |-> req[r].op]]
            /\ task' = [x \in Batches \X Targets |->
                          IF x[1] = b THEN req[r].plan[x[2]] ELSE task[x]]
            /\ sched' = Started(b)
    /\ UNCHANGED <<sess, reg, image, deploy, dflt, work, restarts, misread, faults>>

----------------------------------------------------------------------------
(* Cancelling and resuming one: the row is read first, written later *)

CancelLoad(r, b) ==
    /\ req[r] = Idle
    /\ batch[b].st \in {"running", "paused"}
    /\ req' = [req EXCEPT ![r] = [Idle EXCEPT !.op = "cancel", !.b = b]]
    /\ UNCHANGED <<batch, task, sess, reg, image, deploy, dflt, sched, work,
                   restarts, misread, faults>>

Cancel(r) ==
    /\ req[r].op = "cancel"
    /\ Cancelling({req[r].b})
    /\ Answer(r)
    /\ UNCHANGED <<sess, reg, image, deploy, dflt, sched, work, restarts, misread,
                   faults>>

ResumeLoad(r, b) ==
    /\ req[r] = Idle
    /\ batch[b].st = "paused"
    /\ req' = [req EXCEPT ![r] = [Idle EXCEPT !.op = "resume", !.b = b,
                                              !.at = "loaded"]]
    /\ UNCHANGED <<batch, task, sess, reg, image, deploy, dflt, sched, work,
                   restarts, misread, faults>>

\* Resume: 409 while a task of the batch is in flight.
ResumeCheck(r) ==
    /\ req[r].op = "resume" /\ req[r].at = "loaded"
    /\ IF \E t \in Targets : task[<<req[r].b, t>>].st \in InFlight
       THEN Answer(r)
       ELSE req' = [req EXCEPT ![r].at = "checked"]
    /\ UNCHANGED <<batch, task, sess, reg, image, deploy, dflt, sched, work,
                   restarts, misread, faults>>

\* Resume: UPDATE ... WHERE id, then Runner.Start.
Resume(r) ==
    /\ req[r].op = "resume" /\ req[r].at = "checked"
    /\ batch' = [batch EXCEPT ![req[r].b].st = "running"]
    /\ sched' = Started(req[r].b)
    /\ Answer(r)
    /\ UNCHANGED <<task, sess, reg, image, deploy, dflt, work, restarts, misread,
                   faults>>

----------------------------------------------------------------------------
(* The scheduler of a batch (run, finalize) *)

\* The work of the batch is a snapshot, taken once.
SchedLoad(b) ==
    /\ sched[b].pc = "load"
    /\ sched' = [sched EXCEPT ![b] =
                   [pc |-> "loop",
                    queue |-> [t \in Targets |->
                                 IF task[<<b, t>>].st \in Unfinished
                                 THEN task[<<b, t>>].st ELSE "none"]]]
    /\ UNCHANGED <<batch, task, sess, reg, image, deploy, dflt, work, req,
                   restarts, misread, faults>>

\* Rollbacks go first, then tasks an earlier process left running.
Rank(st) == CASE st = "rolling_back" -> 0 [] st = "running" -> 1 [] OTHER -> 2

IsNext(b, t) ==
    /\ sched[b].queue[t] # "none"
    /\ \A u \in Targets : sched[b].queue[u] # "none" =>
         Rank(sched[b].queue[t]) <= Rank(sched[b].queue[u])

Busy(b) == {t \in Targets : work[<<b, t>>].pc # "off"}

\* Slip: the status is not read again between two tasks.
DispatchUnchecked(b, t) ==
    /\ sched[b].pc = "loop" /\ IsNext(b, t)
    /\ Cardinality(Busy(b)) < Concurrency
    /\ sched' = [sched EXCEPT ![b].queue[t] = "none"]
    /\ work' = [work EXCEPT ![<<b, t>>] = [pc |-> "load", saw |-> "none"]]
    /\ UNCHANGED <<batch, task, sess, reg, image, deploy, dflt, req, restarts, misread,
                   faults>>

\* A free slot of the semaphore, the status again, a goroutine.
Dispatch(b, t) ==
    /\ sched[b].pc = "loop" /\ IsNext(b, t)
    /\ Cardinality(Busy(b)) < Concurrency
    /\ sched' = [sched EXCEPT ![b].queue[t] = "none"]
    /\ IF sched[b].queue[t] = "pending" /\ batch[b].st # "running"
       THEN UNCHANGED work
       ELSE work' = [work EXCEPT ![<<b, t>>] = [pc |-> "load", saw |-> "none"]]
    /\ UNCHANGED <<batch, task, sess, reg, image, deploy, dflt, req, restarts, misread,
                   faults>>

\* Slip: finalize forgets the tasks that were held back.
SchedCountStarted(b) ==
    /\ sched[b].pc = "loop" /\ sched[b].queue = NoQueue /\ Busy(b) = {}
    /\ sched' = [sched EXCEPT ![b].pc =
                   IF \E t \in Targets : task[<<b, t>>].st \in InFlight
                   THEN "exit" ELSE "close"]
    /\ UNCHANGED <<batch, task, sess, reg, image, deploy, dflt, work, req,
                   restarts, misread, faults>>

\* wg.Wait returns; finalize counts the unfinished tasks.
SchedCount(b) ==
    /\ sched[b].pc = "loop" /\ sched[b].queue = NoQueue /\ Busy(b) = {}
    /\ sched' = [sched EXCEPT ![b].pc =
                   IF \E t \in Targets : task[<<b, t>>].st \in Unfinished
                   THEN "exit" ELSE "close"]
    /\ UNCHANGED <<batch, task, sess, reg, image, deploy, dflt, work, req,
                   restarts, misread, faults>>

\* finalize: only a batch that is running is completed.
SchedClose(b) ==
    /\ sched[b].pc = "close"
    /\ sched' = [sched EXCEPT ![b].pc = "exit"]
    /\ \/ /\ batch' = IF batch[b].st = "running"
                      THEN [batch EXCEPT ![b].st = "completed"] ELSE batch
          /\ UNCHANGED faults
       \/ LoseWrite /\ UNCHANGED batch
    /\ UNCHANGED <<task, sess, reg, image, deploy, dflt, work, req, restarts, misread>>

\* The deferred delete(r.active, batchID).
SchedExit(b) ==
    /\ sched[b].pc = "exit"
    /\ sched' = [sched EXCEPT ![b] = Stopped]
    /\ UNCHANGED <<batch, task, sess, reg, image, deploy, dflt, work, req,
                   restarts, misread, faults>>

----------------------------------------------------------------------------
(* The goroutine of one task (runTask, rollbackTask, failTask) *)

At(b, t, pc)   == work[<<b, t>>].pc = pc
Goto(b, t, pc) == work' = [work EXCEPT ![<<b, t>>].pc = pc]
End(b, t)      == work' = [work EXCEPT ![<<b, t>>] = Asleep]

TaskLoad(b, t) ==
    /\ At(b, t, "load")
    /\ IF task[<<b, t>>].st = "none"
       THEN End(b, t)
       ELSE work' = [work EXCEPT ![<<b, t>>] =
                       [pc |-> "session", saw |-> task[<<b, t>>].st]]
    /\ UNCHANGED <<batch, task, sess, reg, image, deploy, dflt, sched, req,
                   restarts, misread, faults>>

\* Slip: a saved rollback is taken for a task to run.
RouteForward(b, t) ==
    LET s == SessionOf[t] IN
    IF sess[s] = "gone" THEN "skip"
    ELSE IF reg[s] = "enabling" THEN "fail"
    ELSE IF work[<<b, t>>].saw \in Unfinished THEN "start" ELSE "off"

Free(s) == sess[s] # "gone" /\ reg[s] # "enabling"

\* Where runTask goes with the session it read and the status it saw.  A task
\* without a previous image is not created: both handlers want the component
\* to have one.
Route(b, t) ==
    LET s == SessionOf[t] IN
    CASE sess[s] = "gone" -> "skip"
      [] reg[s] = "enabling" /\ sess[s] # "gone" -> "fail"
      [] work[<<b, t>>].saw = "rolling_back" /\ Free(s) -> "undo"
      [] work[<<b, t>>].saw \in {"pending", "running"} /\ Free(s) -> "start"
      [] OTHER -> "off"

\* Every error of this read is taken for a deleted session.
SessionLoad(b, t) ==
    /\ At(b, t, "session")
    /\ \/ /\ IF Route(b, t) = "off" THEN End(b, t) ELSE Goto(b, t, Route(b, t))
          /\ UNCHANGED misread
       \/ /\ Cardinality(misread) < MaxMisreads
          /\ misread' = misread \cup {t}
          /\ Goto(b, t, "skip")
    /\ UNCHANGED <<batch, task, sess, reg, image, deploy, dflt, sched, req,
                   restarts, faults>>

\* setTask as the last thing a goroutine does: a failure is only logged.
Settle(b, t, pc, st) ==
    /\ At(b, t, pc)
    /\ End(b, t)
    /\ \/ task' = WithStatus(b, t, st) /\ UNCHANGED faults
       \/ LoseWrite /\ UNCHANGED task
    /\ UNCHANGED <<batch, sess, reg, image, deploy, dflt, sched, req, restarts, misread>>

Skip(b, t)         == Settle(b, t, "skip", "skipped")
Succeed(b, t)      == Settle(b, t, "succeed", "succeeded")
RolledBack(b, t)   == Settle(b, t, "restored", "rolled_back")
RollbackLost(b, t) == Settle(b, t, "abandon", "rollback_failed")

\* failTask: the task, then the batch, each write on its own.
FailTask(b, t) ==
    /\ At(b, t, "fail")
    /\ Goto(b, t, "pause")
    /\ \/ task' = WithStatus(b, t, "failed") /\ UNCHANGED faults
       \/ LoseWrite /\ UNCHANGED task
    /\ UNCHANGED <<batch, sess, reg, image, deploy, dflt, sched, req, restarts, misread>>

FailBatch(b, t) ==
    /\ At(b, t, "pause")
    /\ End(b, t)
    /\ \/ batch' = Pausing(b) /\ UNCHANGED faults
       \/ LoseWrite /\ UNCHANGED batch
    /\ UNCHANGED <<task, sess, reg, image, deploy, dflt, sched, req, restarts, misread>>

\* setTask(running): the runner does not touch the Deployment without it.
MarkRunning(b, t) ==
    /\ At(b, t, "start")
    /\ \/ task' = WithStatus(b, t, "running") /\ Goto(b, t, "patch")
          /\ UNCHANGED faults
       \/ LoseWrite /\ End(b, t) /\ UNCHANGED task
    /\ UNCHANGED <<batch, sess, reg, image, deploy, dflt, sched, req, restarts, misread>>

\* SetDeploymentImage.  An error may hide an update that went through.
SetImage(b, t, i, next, error) ==
    /\ \/ /\ deploy[t] # None
          /\ deploy' = [deploy EXCEPT ![t] = i]
          /\ Goto(b, t, next) \/ Goto(b, t, error)
       \/ UNCHANGED deploy /\ Goto(b, t, error)
    /\ UNCHANGED <<batch, task, sess, reg, image, dflt, sched, req, restarts, misread,
                   faults>>

\* DeploymentRollout can answer ready for i only while the Deployment names i.
CanBeReady(t, i) == deploy[t] = i

\* waitForRollout: ready, or a crash loop or the five minutes end it.
WaitRollout(b, t, i, next, error) ==
    /\ \/ CanBeReady(t, i) /\ Goto(b, t, next)
       \/ Goto(b, t, error)
    /\ UNCHANGED <<batch, task, sess, reg, image, deploy, dflt, sched, req,
                   restarts, misread, faults>>

Patch(b, t)    == At(b, t, "patch")
                  /\ SetImage(b, t, task[<<b, t>>].to, "wait", "undo")
Wait(b, t)     == At(b, t, "wait")
                  /\ WaitRollout(b, t, task[<<b, t>>].to, "record", "undo")
Repatch(b, t)  == At(b, t, "repatch")
                  /\ SetImage(b, t, task[<<b, t>>].from, "rewait", "abandon")
Rewait(b, t)   == At(b, t, "rewait")
                  /\ WaitRollout(b, t, task[<<b, t>>].from, "rerecord", "abandon")

\* Slip: the error of the transaction is ignored.
RecordCareless(b, t) ==
    /\ At(b, t, "record")
    /\ Goto(b, t, "succeed")
    /\ \/ /\ image' = WithImage(t, task[<<b, t>>].to)
          /\ dflt' = IF t \in Platform THEN task[<<b, t>>].to ELSE dflt
          /\ UNCHANGED faults
       \/ LoseWrite /\ UNCHANGED <<image, dflt>>
    /\ UNCHANGED <<batch, task, sess, reg, deploy, sched, req, restarts, misread>>

\* recordSuccessfulUpgrade: the column and, for a platform VTA, the default.
Record(b, t) ==
    /\ At(b, t, "record")
    /\ \/ /\ image' = WithImage(t, task[<<b, t>>].to)
          /\ dflt' = IF t \in Platform THEN task[<<b, t>>].to ELSE dflt
          /\ Goto(b, t, "succeed")
          /\ UNCHANGED faults
       \/ LoseWrite /\ Goto(b, t, "undo") /\ UNCHANGED <<image, dflt>>
    /\ UNCHANGED <<batch, task, sess, reg, deploy, sched, req, restarts, misread>>

\* rollbackTask: the direction is saved, and the batch paused, before
\* Kubernetes is touched.
Undo(b, t) ==
    /\ At(b, t, "undo")
    /\ \/ /\ task' = WithStatus(b, t, "rolling_back")
          /\ batch' = Pausing(b)
          /\ Goto(b, t, "repatch")
          /\ UNCHANGED faults
       \/ LoseWrite /\ End(b, t) /\ UNCHANGED <<task, batch>>
    /\ UNCHANGED <<sess, reg, image, deploy, dflt, sched, req, restarts, misread>>

\* The old image is recorded once it is ready again.
Rerecord(b, t) ==
    /\ At(b, t, "rerecord")
    /\ \/ /\ image' = WithImage(t, task[<<b, t>>].from)
          /\ Goto(b, t, "restored")
          /\ UNCHANGED faults
       \/ LoseWrite /\ Goto(b, t, "abandon") /\ UNCHANGED image
    /\ UNCHANGED <<batch, task, sess, reg, deploy, dflt, sched, req, restarts, misread>>

----------------------------------------------------------------------------
(* Around the runner: Trust Registry enablement, deletion, process ends *)

\* enableTrustRegistry counts unfinished tasks, and writes in a later step.
RegistryCheck(s) ==
    /\ s \in FullStack /\ sess[s] = "running" /\ reg[s] = "idle"
    /\ ~Has(s, Unfinished)
    /\ reg' = [reg EXCEPT ![s] = "counted"]
    /\ UNCHANGED <<batch, task, sess, image, deploy, dflt, sched, work, req,
                   restarts, misread, faults>>

RegistryEnable(s) ==
    /\ reg[s] = "counted"
    /\ reg' = [reg EXCEPT ![s] =
                 IF sess[s] = "running" THEN "enabling" ELSE "idle"]
    /\ UNCHANGED <<batch, task, sess, image, deploy, dflt, sched, work, req,
                   restarts, misread, faults>>

RegistryDone(s) ==
    /\ reg[s] = "enabling"
    /\ reg' = [reg EXCEPT ![s] = "idle"]
    /\ UNCHANGED <<batch, task, sess, image, deploy, dflt, sched, work, req,
                   restarts, misread, faults>>

\* prepareSessionTeardown: the status; deletion does not look at upgrades.
DeleteBegin(s) ==
    /\ sess[s] = "running"
    /\ sess' = [sess EXCEPT ![s] = "deleting"]
    /\ UNCHANGED <<batch, task, reg, image, deploy, dflt, sched, work, req,
                   restarts, misread, faults>>

\* The Deployments, then the row, and with it the session's tasks.
DeleteDeployments(s) ==
    /\ sess[s] = "deleting"
    /\ \E t \in TargetsOf(s) : deploy[t] # None
    /\ deploy' = [t \in Targets |-> IF t \in TargetsOf(s) THEN None ELSE deploy[t]]
    /\ UNCHANGED <<batch, task, sess, reg, image, dflt, sched, work, req,
                   restarts, misread, faults>>

DeleteRow(s) ==
    /\ sess[s] = "deleting"
    /\ \A t \in TargetsOf(s) : deploy[t] = None
    /\ sess' = [sess EXCEPT ![s] = "gone"]
    /\ task' = [x \in Batches \X Targets |->
                  IF x[2] \in TargetsOf(s)
                  THEN [task[x] EXCEPT !.st = "none"] ELSE task[x]]
    /\ UNCHANGED <<batch, reg, image, deploy, dflt, sched, work, req, restarts, misread,
                   faults>>

\* Slip: only running batches are looked at after a start.
RestartRunning ==
    /\ restarts < MaxRestarts
    /\ restarts' = restarts + 1
    /\ work' = [x \in Batches \X Targets |-> Asleep]
    /\ req' = [r \in Requests |-> Idle]
    /\ reg' = [s \in Sessions |-> IF reg[s] = "counted" THEN "idle" ELSE reg[s]]
    /\ sched' = [b \in Batches |->
                   IF batch[b].st = "running"
                   THEN [Stopped EXCEPT !.pc = "load"] ELSE Stopped]
    /\ UNCHANGED <<batch, task, sess, image, deploy, dflt, faults, misread>>

\* The process ends; the next one calls Runner.Resume before it serves.
Restart ==
    /\ restarts < MaxRestarts
    /\ restarts' = restarts + 1
    /\ work' = [x \in Batches \X Targets |-> Asleep]
    /\ req' = [r \in Requests |-> Idle]
    /\ reg' = [s \in Sessions |-> IF reg[s] = "counted" THEN "idle" ELSE reg[s]]
    /\ sched' = [b \in Batches |->
                   IF \/ batch[b].st = "running"
                      \/ \E t \in Targets : task[<<b, t>>].st \in InFlight
                   THEN [Stopped EXCEPT !.pc = "load"] ELSE Stopped]
    /\ UNCHANGED <<batch, task, sess, image, deploy, dflt, faults, misread>>

----------------------------------------------------------------------------
(* The specification *)

SchedStep(b) == SchedLoad(b) \/ SchedCount(b) \/ SchedClose(b) \/ SchedExit(b)
                \/ \E t \in Targets : Dispatch(b, t)

TaskStep(b, t) ==
    \/ TaskLoad(b, t)    \/ SessionLoad(b, t) \/ Skip(b, t)
    \/ FailTask(b, t)    \/ FailBatch(b, t)   \/ MarkRunning(b, t)
    \/ Patch(b, t)       \/ Wait(b, t)        \/ Record(b, t)
    \/ Succeed(b, t)     \/ Undo(b, t)        \/ Repatch(b, t)
    \/ Rewait(b, t)      \/ Rerecord(b, t)    \/ RolledBack(b, t)
    \/ RollbackLost(b, t)

RequestStep(r) ==
    \/ \E ts \in SUBSET Targets, i \in Images : AdminLoad(r, ts, i)
    \/ AdminCheck(r)
    \/ \E s \in Sessions, ts \in SUBSET Targets, i \in Images :
         UserLoad(r, s, ts, i)
    \/ UserRestoring(r) \/ UserSupersede(r) \/ UserCheck(r)
    \/ \E b \in Batches : CreateBatch(r, b) \/ CancelLoad(r, b)
                          \/ ResumeLoad(r, b)
    \/ Cancel(r) \/ ResumeCheck(r) \/ Resume(r)

SessionStep(s) ==
    \/ RegistryCheck(s) \/ RegistryEnable(s) \/ RegistryDone(s)
    \/ DeleteBegin(s) \/ DeleteDeployments(s) \/ DeleteRow(s)

Step ==
    \/ \E b \in Batches : SchedStep(b)
    \/ \E b \in Batches, t \in Targets : TaskStep(b, t)
    \/ \E r \in Requests : RequestStep(r)
    \/ \E s \in Sessions : SessionStep(s)
    \/ Restart

\* History: a session where two changes ever overlapped stays marked.
Watch == raced' = raced \cup {s \in Sessions : Overlap(s)'}

Next == Step /\ Watch

Spec == Init /\ [][Next]_vars

\* Goroutines run: a rollout ends within five minutes whichever way it goes,
\* and a scheduler only waits for its own tasks.  Nobody has to send a request.
Fairness ==
    /\ \A b \in Batches : WF_vars(SchedStep(b) /\ Watch)
    /\ \A b \in Batches, t \in Targets : WF_vars(TaskStep(b, t) /\ Watch)

FairSpec == Spec /\ Fairness

----------------------------------------------------------------------------
(* Properties *)

BatchRows == [st : {"none", "running", "paused", "completed", "cancelled"},
              by : {"none", "admin", "user"}]
TaskRows  == [st : TaskStates, from : Images \cup {None}, to : Images \cup {None}]
Pcs       == {"off", "load", "session", "skip", "fail", "pause", "start",
              "patch", "wait", "record", "succeed", "undo", "repatch", "rewait",
              "rerecord", "restored", "abandon"}

\* The rows, the goroutines and the requests stay within the values the
\* runner and the handlers give them.
TypeOK ==
    /\ batch \in [Batches -> BatchRows]
    /\ task \in [Batches \X Targets -> TaskRows]
    /\ sess \in [Sessions -> {"running", "deleting", "gone"}]
    /\ reg \in [Sessions -> {"idle", "counted", "enabling"}]
    /\ image \in [Targets -> Images]
    /\ deploy \in [Targets -> Images \cup {None}]
    /\ dflt \in Images
    /\ sched \in [Batches -> [pc : {"off", "load", "loop", "close", "exit"},
                              queue : [Targets -> Unfinished \cup {"none"}]]]
    /\ work \in [Batches \X Targets -> [pc : Pcs, saw : TaskStates]]
    /\ req \in [Requests ->
                  [op : {"none", "admin", "user", "cancel", "resume"},
                   at : {"off", "loaded", "clear", "superseded", "checked"},
                   s : Sessions \cup {None}, b : Batches \cup {None},
                   plan : [Targets -> TaskRows]]]
    /\ raced \subseteq Sessions
    /\ restarts \in 0 .. MaxRestarts
    /\ faults \in 0 .. MaxFaults
    /\ misread \subseteq Targets

\* What the platform believes a component runs is what its Deployment names:
\* once no task of the target is in flight, and none gave up its rollback, the
\* image column and the Deployment agree, across failed writes, process ends
\* and updates whose answer was lost (the reason rollbackTask writes its
\* direction first and recordSuccessfulUpgrade comes after the rollout).
\* Excepted are sessions two changes overlapped on, deleted ones, and targets
\* whose session could not be read, which SessionLoad takes for deleted.
RecordedIsDeployed ==
    \A t \in Targets :
        (/\ sess[SessionOf[t]] = "running"
         /\ SessionOf[t] \notin raced /\ t \notin misread
         /\ \A b \in Batches :
              task[<<b, t>>].st \notin InFlight \cup {"rollback_failed"})
        => deploy[t] = image[t]

\* finalize completes a batch only when nothing of it is left to do, however
\* cancellations, resumes and restarts interleave with its scheduler.
CompletedIsDrained ==
    \A b \in Batches : batch[b].st = "completed" =>
        \A t \in Targets : task[<<b, t>>].st \notin Unfinished

\* Nothing else of the batch is worked on or waits to be.
LastOf(b, t) ==
    \A u \in Targets \ {t} :
        work[<<b, u>>].pc = "off" /\ task[<<b, u>>].st # "pending"

\* Whatever the status it had, a task is marked running only while its batch
\* runs: a release that failed once pauses the batch and reaches no further
\* session (failTask), and a cancellation stops feeding the queue (Cancel).
\* One task may slip through a cancellation, since MarkRunning asks for no
\* status: the skipped one whose goroutine had read it as pending before.  It
\* is then the last of its batch.  This is said of one task at a time.
StopsFeeding ==
    [][\A b \in Batches, t \in Targets :
          (task[<<b, t>>].st # "running" /\ task'[<<b, t>>].st = "running")
          => \/ batch[b].st = "running"
             \/ /\ batch[b].st = "cancelled" /\ task[<<b, t>>].st = "skipped"
                /\ work[<<b, t>>].saw = "pending" /\ LastOf(b, t)]_vars

\* "A saved rolling_back task must never reapply the failed target image after
\* restart" (runner.go:54-55): rolling back is one-way.
RollbackIsOneWay ==
    [][\A b \in Batches, t \in Targets :
          task[<<b, t>>].st = "rolling_back"
          => task'[<<b, t>>].st \notin {"pending", "running", "succeeded"}]_vars

\* Without failing writes every task that started comes to an end, also when
\* the process ends in the middle, its batch is paused or cancelled, or the
\* session is deleted under it.
InFlightEnds ==
    \A b \in Batches, t \in Targets :
        (task[<<b, t>>].st \in InFlight) ~> (task[<<b, t>>].st \notin InFlight)
=============================================================================
