--------------------------- MODULE UpgradeProofs ---------------------------
(***************************************************************************)
(* Proofs about Upgrade: type correctness, the agreement of image column   *)
(* and Deployment, completed batches, one-way rollbacks and fail-fast, for *)
(* any sessions, targets, releases, batches and requests.                  *)
(*                                                                         *)
(* The checked properties are not inductive because goroutines act on what *)
(* they read earlier.  The invariant says what those readings still mean:  *)
(* Meaning relates the status a scheduler or a task goroutine saw to the   *)
(* row as it is now.                                                       *)
(***************************************************************************)
EXTENDS Upgrade, FiniteSetTheorems, TLAPS

----------------------------------------------------------------------------
(* The inductive invariant *)

\* The statuses a row can have now that was seen as st (the row may be gone).
Meaning(st) ==
    CASE st = "pending" -> {"pending", "skipped", "none"}
      [] OTHER          -> {st, "none"}

Startable == {"pending", "skipped"} \cup InFlight
Applying  == {"patch", "wait", "record", "succeed"}
Restoring == {"repatch", "rewait", "rerecord", "restored", "abandon"}

\* A batch id not used yet has no rows, goroutines or requests.
Unused ==
    /\ \A b \in Batches : batch[b].st = "none" =>
         /\ sched[b].pc = "off"
         /\ \A t \in Targets :
              task[<<b, t>>].st = "none" /\ work[<<b, t>>].pc = "off"
    /\ \A r \in Requests : req[r].op \in {"cancel", "resume"} =>
         req[r].b \in Batches /\ batch[req[r].b].st # "none"

\* Task goroutines exist only while their scheduler waits for them.
Waited ==
    \A b \in Batches, t \in Targets :
        work[<<b, t>>].pc # "off" => sched[b].pc = "loop"

\* A queued task has no goroutine yet, and its row means what was seen.
QueueRow(b, t) ==
    (sched[b].pc = "loop" /\ sched[b].queue[t] # "none") =>
        /\ work[<<b, t>>].pc = "off"
        /\ task[<<b, t>>].st \in Meaning(sched[b].queue[t])

\* What the row of a task can be at each point of its goroutine.
PcRow(b, t) ==
    LET w == work[<<b, t>>]  st == task[<<b, t>>].st  s == SessionOf[t] IN
    /\ w.pc = "load" => st \in Startable \cup {"none"}
    /\ w.pc \in {"session", "start"} =>
         w.saw \in Startable /\ st \in Meaning(w.saw)
    /\ w.pc = "start" => w.saw \in {"pending", "running"}
    /\ w.pc = "fail" => IF w.saw \in InFlight THEN s \in raced
                        ELSE st \in {"pending", "skipped", "none"}
    /\ w.pc = "skip" => sess[s] = "gone" \/ t \in misread
    /\ w.pc \in Applying => st \in {"running", "none"}
    /\ w.pc = "undo" => st \in InFlight \cup {"none"}
    /\ w.pc \in Restoring => st \in {"rolling_back", "none"}
    /\ (w.pc \notin {"off", "load"} /\ st = "none") => sess[s] = "gone"

\* A row that exists, or that a goroutine loaded, names both releases.
Known(b, t) ==
    (task[<<b, t>>].st # "none" \/ work[<<b, t>>].pc \notin {"off", "load"}) =>
        task[<<b, t>>].from \in Images /\ task[<<b, t>>].to \in Images

\* So do the rows a request is about to insert.
PlanKnown ==
    \A r \in Requests, t \in Targets :
        \/ req[r].plan[t] = NoTask
        \/ req[r].plan[t] \in [st : {"pending"}, from : Images, to : Images]

\* Two changes at once were noticed.
Noticed == \A s \in Sessions : Overlap(s) => s \in raced

Clean(t) == /\ sess[SessionOf[t]] = "running"
            /\ SessionOf[t] \notin raced
            /\ t \notin misread

Settled(t) == \A b \in Batches :
                 task[<<b, t>>].st \notin InFlight \cup {"rollback_failed"}

\* What a goroutine knows of the Deployment and the column on a clean target.
DataRow(b, t) ==
    Clean(t) =>
        /\ work[<<b, t>>].pc = "record" => deploy[t] = task[<<b, t>>].to
        /\ work[<<b, t>>].pc = "succeed" => deploy[t] = image[t]
        /\ work[<<b, t>>].pc = "rerecord" => deploy[t] = task[<<b, t>>].from
        /\ work[<<b, t>>].pc = "restored" => deploy[t] = image[t]

Agreement(t) == Clean(t) /\ Settled(t) => deploy[t] = image[t]

Agreed == \A t \in Targets : Agreement(t)

\* A batch about to be completed, or completed, is at rest.
AtRest ==
    \A b \in Batches :
        /\ batch[b].st = "completed" => sched[b].pc \in {"off", "exit"}
        /\ (batch[b].st = "completed" \/ sched[b].pc = "close") =>
             \A t \in Targets : task[<<b, t>>].st \notin Unfinished

Row(b, t) == QueueRow(b, t) /\ PcRow(b, t) /\ Known(b, t) /\ DataRow(b, t)

Rows == \A b \in Batches, t \in Targets : Row(b, t)

IndInv == /\ TypeOK /\ PlanKnown /\ Unused /\ Waited /\ Rows
          /\ Noticed /\ Agreed /\ AtRest

----------------------------------------------------------------------------
(* The initial state *)

LEMMA InitInv == Init => IndInv
<1>. SUFFICES ASSUME Init PROVE IndInv
  OBVIOUS
<1>. USE UpgradeAssumption DEF UpgradeAssumption
<1>1. TypeOK
  BY DEF Init, TypeOK, BatchRows, TaskRows, TaskStates, Unfinished, InFlight,
         Ended, Pcs, NoTask, NoQueue, NoPlan, Idle, Asleep, Stopped
<1>2. PlanKnown
  BY DEF Init, PlanKnown, Idle, NoPlan
<1>3. Unused /\ Waited
  BY DEF Init, Unused, Waited, Stopped, NoTask, Asleep, Idle
<1>4. Rows
  BY DEF Init, Rows, Row, QueueRow, PcRow, Known, DataRow, Stopped, NoTask,
         Asleep, Applying, Restoring
<1>5. Noticed
  BY DEF Init, Noticed, Overlap, BusyBatches, TargetsOf, NoTask, Unfinished,
         InFlight
<1>6. Agreed /\ AtRest
  BY DEF Init, Agreed, Agreement, AtRest, NoTask, Unfinished, InFlight, Stopped
<1>. QED BY <1>1, <1>2, <1>3, <1>4, <1>5, <1>6 DEF IndInv

\* What Watch records is all that Noticed asks for.
LEMMA WatchNotices == ASSUME Watch PROVE Noticed' /\ raced \subseteq raced'
  BY DEF Watch, Noticed

----------------------------------------------------------------------------
(* A step of one task goroutine *)

\* What such a step leaves alone, whichever it is.
TaskFrame(b, t) ==
    LET x == <<b, t>> IN
    /\ work[x].pc # "off"
    /\ work'[x].pc = "off" \/ work[x].pc # "load" \/ task[x].st # "none"
    /\ \A c \in Batches, u \in Targets : <<c, u>> # x =>
         task'[<<c, u>>] = task[<<c, u>>] /\ work'[<<c, u>>] = work[<<c, u>>]
    /\ task'[x].from = task[x].from /\ task'[x].to = task[x].to
    /\ task[x].st = "none" => task'[x].st = "none"
    /\ sess' = sess /\ reg' = reg /\ sched' = sched /\ req' = req
    /\ batch' = batch \/ batch' = Pausing(b)
    /\ misread \subseteq misread'
    /\ \A u \in Targets : u # t =>
         deploy'[u] = deploy[u] /\ image'[u] = image[u]
    /\ \/ deploy'[t] = deploy[t] /\ image'[t] = image[t]
       \/ Clean(t) => task[x].st \in InFlight

\* Two tasks in flight on one target are an overlap.
LEMMA OneInFlight ==
    ASSUME IndInv, NEW b \in Batches, NEW c \in Batches, NEW t \in Targets,
           Clean(t),
           task[<<b, t>>].st \in InFlight, task[<<c, t>>].st \in InFlight
    PROVE  b = c
<1>1. SessionOf[t] \in Sessions /\ t \in TargetsOf(SessionOf[t])
  BY UpgradeAssumption DEF UpgradeAssumption, TargetsOf
<1>2. b \in BusyBatches(SessionOf[t]) /\ c \in BusyBatches(SessionOf[t])
  BY <1>1 DEF BusyBatches, Unfinished
<1>. QED BY <1>1, <1>2 DEF IndInv, Noticed, Overlap, Clean

LEMMA CleanStays ==
    ASSUME Watch, NEW t \in Targets, sess' = sess, misread \subseteq misread',
           Clean(t)'
    PROVE  Clean(t)
  BY WatchNotices DEF Clean

\* With a frame like that only the task's own row and target need care.
LEMMA OneTaskKeeps ==
    ASSUME IndInv, NEW b \in Batches, NEW t \in Targets, TaskFrame(b, t), Watch,
           TypeOK', PcRow(b, t)', DataRow(b, t)', Agreement(t)'
    PROVE  IndInv'
<1>1. raced \subseteq raced' /\ Noticed'
  BY WatchNotices
<1>2. sched[b].pc = "loop"
  BY DEF IndInv, Waited, TaskFrame
<1>3. \A c \in Batches :
        /\ batch'[c].st = "none" <=> batch[c].st = "none"
        /\ batch'[c].st = "completed" <=> batch[c].st = "completed"
  <2>1. CASE batch' = batch
    BY <2>1
  <2>2. CASE batch' = Pausing(b)
    BY <2>2 DEF IndInv, TypeOK, BatchRows, Pausing
  <2>. QED BY <2>1, <2>2 DEF TaskFrame
<1>4. PlanKnown'
  BY DEF IndInv, PlanKnown, TaskFrame
<1>5. Unused'
  BY <1>3 DEF IndInv, Unused, TaskFrame
<1>6. Waited'
  BY DEF IndInv, Waited, TaskFrame
<1>7. AtRest'
  BY <1>2, <1>3 DEF IndInv, AtRest, TaskFrame
<1>8. ASSUME NEW c \in Batches, NEW u \in Targets PROVE Row(c, u)'
  <2>1. CASE <<c, u>> = <<b, t>>
    <3>1. QueueRow(b, t)'
      BY DEF IndInv, Rows, Row, QueueRow, TaskFrame
    <3>2. Known(b, t)'
      BY DEF IndInv, Rows, Row, Known, TaskFrame
    <3>. QED BY <2>1, <3>1, <3>2 DEF Row
  <2>2. CASE <<c, u>> # <<b, t>>
    <3>0. Row(c, u)
      BY DEF IndInv, Rows
    <3>1. QueueRow(c, u)' /\ Known(c, u)'
      BY <2>2, <3>0 DEF Row, QueueRow, Known, TaskFrame
    <3>2. PcRow(c, u)'
      BY <1>1, <2>2, <3>0 DEF Row, PcRow, TaskFrame
    <3>3. DataRow(c, u)'
      <4>. SUFFICES ASSUME Clean(u)',
                           work[<<c, u>>].pc \in
                             {"record", "succeed", "rerecord", "restored"}
                    PROVE  deploy'[u] = deploy[u] /\ image'[u] = image[u]
        BY <2>2, <3>0, CleanStays DEF Row, DataRow, TaskFrame
      <4>1. Clean(u)
        BY CleanStays DEF TaskFrame
      <4>2. task[<<c, u>>].st \in InFlight
        BY <3>0, <4>1 DEF Row, PcRow, Clean, Applying, Restoring, InFlight
      <4>. QED BY <2>2, <4>1, <4>2, OneInFlight DEF TaskFrame
    <3>. QED BY <3>1, <3>2, <3>3 DEF Row
  <2>. QED BY <2>1, <2>2
<1>9. Agreed'
  <2>. SUFFICES ASSUME NEW u \in Targets, u # t PROVE Agreement(u)'
    BY DEF Agreed
  <2>1. Clean(u)' => Clean(u)
    BY CleanStays DEF TaskFrame
  <2>2. Settled(u)' => Settled(u)
    BY DEF Settled, TaskFrame
  <2>. QED BY <2>1, <2>2 DEF IndInv, Agreed, Agreement, TaskFrame
<1>. QED BY <1>1, <1>4, <1>5, <1>6, <1>7, <1>8, <1>9 DEF IndInv, Rows

----------------------------------------------------------------------------
(* The moves the task actions are made of *)

LEMMA RowTypes ==
    ASSUME TypeOK, NEW b \in Batches, NEW t \in Targets
    PROVE  /\ task[<<b, t>>] \in TaskRows
           /\ task[<<b, t>>].st \in TaskStates
           /\ work[<<b, t>>] \in [pc : Pcs, saw : TaskStates]
           /\ image[t] \in Images /\ deploy[t] \in Images \cup {None}
           /\ SessionOf[t] \in Sessions
           /\ sess[SessionOf[t]] \in {"running", "deleting", "gone"}
  BY UpgradeAssumption DEF UpgradeAssumption, TypeOK, TaskRows

LEMMA Moves ==
    ASSUME TypeOK, NEW b \in Batches, NEW t \in Targets, NEW pc \in Pcs,
           Goto(b, t, pc)
    PROVE  /\ work' \in [Batches \X Targets -> [pc : Pcs, saw : TaskStates]]
           /\ work'[<<b, t>>].pc = pc
           /\ work'[<<b, t>>].saw = work[<<b, t>>].saw
           /\ \A c \in Batches, u \in Targets : <<c, u>> # <<b, t>> =>
                work'[<<c, u>>] = work[<<c, u>>]
<1>1. /\ work \in [Batches \X Targets -> [pc : Pcs, saw : TaskStates]]
      /\ work[<<b, t>>] \in [pc : Pcs, saw : TaskStates]
  BY DEF TypeOK
<1>2. /\ [work[<<b, t>>] EXCEPT !.pc = pc] \in [pc : Pcs, saw : TaskStates]
      /\ [work[<<b, t>>] EXCEPT !.pc = pc].pc = pc
      /\ [work[<<b, t>>] EXCEPT !.pc = pc].saw = work[<<b, t>>].saw
  BY <1>1
<1>3. work' = [work EXCEPT ![<<b, t>>] = [work[<<b, t>>] EXCEPT !.pc = pc]]
  BY DEF Goto
<1>. QED BY <1>1, <1>2, <1>3

LEMMA Ends ==
    ASSUME TypeOK, NEW b \in Batches, NEW t \in Targets, End(b, t)
    PROVE  /\ work' \in [Batches \X Targets -> [pc : Pcs, saw : TaskStates]]
           /\ work'[<<b, t>>].pc = "off"
           /\ \A c \in Batches, u \in Targets : <<c, u>> # <<b, t>> =>
                work'[<<c, u>>] = work[<<c, u>>]
  BY DEF TypeOK, End, Asleep, Pcs, TaskStates

\* setTask changes the status of a row that exists, and nothing else.
LEMMA Statuses ==
    ASSUME TypeOK, NEW b \in Batches, NEW t \in Targets, NEW st \in TaskStates,
           task' = WithStatus(b, t, st)
    PROVE  /\ task' \in [Batches \X Targets -> TaskRows]
           /\ task'[<<b, t>>].from = task[<<b, t>>].from
           /\ task'[<<b, t>>].to = task[<<b, t>>].to
           /\ task[<<b, t>>].st = "none" => task'[<<b, t>>].st = "none"
           /\ task[<<b, t>>].st # "none" => task'[<<b, t>>].st = st
           /\ \A c \in Batches, u \in Targets : <<c, u>> # <<b, t>> =>
                task'[<<c, u>>] = task[<<c, u>>]
<1>1. task \in [Batches \X Targets -> TaskRows] /\ task[<<b, t>>] \in TaskRows
  BY DEF TypeOK
<1>2. CASE task[<<b, t>>].st = "none"
  BY <1>1, <1>2 DEF WithStatus
<1>3. CASE task[<<b, t>>].st # "none"
  <2>. DEFINE row == [task[<<b, t>>] EXCEPT !.st = st]
  <2>1. /\ row \in TaskRows /\ row.st = st
        /\ row.from = task[<<b, t>>].from /\ row.to = task[<<b, t>>].to
    BY <1>1 DEF TaskRows
  <2>2. task' = [task EXCEPT ![<<b, t>>] = row]
    BY <1>3 DEF WithStatus
  <2>. HIDE DEF row
  <2>. QED BY <1>1, <1>3, <2>1, <2>2
<1>. QED BY <1>2, <1>3

LEMMA Counters ==
    ASSUME TypeOK, faults' = faults \/ LoseWrite
    PROVE  faults' \in 0 .. MaxFaults
  BY UpgradeAssumption DEF UpgradeAssumption, TypeOK, LoseWrite

LEMMA Marks ==
    ASSUME TypeOK, Watch
    PROVE  raced' \subseteq Sessions
  BY DEF TypeOK, Watch

LEMMA Pauses ==
    ASSUME TypeOK, NEW b \in Batches, batch' = batch \/ batch' = Pausing(b)
    PROVE  batch' \in [Batches -> BatchRows]
<1>1. batch \in [Batches -> BatchRows]
  BY DEF TypeOK
<1>2. [batch[b] EXCEPT !.st = "paused"] \in BatchRows
  BY <1>1 DEF BatchRows
<1>. QED BY <1>1, <1>2 DEF Pausing

----------------------------------------------------------------------------
(* The task actions, one by one *)

\* Before a step of a task: its types, its row and its target.
LEMMA Before ==
    ASSUME IndInv, NEW b \in Batches, NEW t \in Targets
    PROVE  TypeOK /\ Row(b, t) /\ Agreement(t)
  BY DEF IndInv, Rows, Agreed

LEMMA CalmTarget ==
    ASSUME Watch, NEW t \in Targets, Agreement(t), task' = task, sess' = sess,
           deploy' = deploy, image' = image, misread \subseteq misread'
    PROVE  Agreement(t)'
  BY CleanStays DEF Agreement, Settled

LEMMA TaskLoadKeeps ==
    ASSUME IndInv, NEW b \in Batches, NEW t \in Targets, TaskLoad(b, t), Watch
    PROVE  IndInv'
<1>1. TypeOK /\ Row(b, t) /\ Agreement(t) /\ raced' \subseteq Sessions
  BY Before, Marks
<1>2. /\ work' \in [Batches \X Targets -> [pc : Pcs, saw : TaskStates]]
      /\ \A c \in Batches, u \in Targets : <<c, u>> # <<b, t>> =>
           work'[<<c, u>>] = work[<<c, u>>]
      /\ \/ work'[<<b, t>>].pc = "off"
         \/ /\ task[<<b, t>>].st # "none"
            /\ work'[<<b, t>>] = [pc |-> "session", saw |-> task[<<b, t>>].st]
  <2>1. CASE task[<<b, t>>].st = "none"
    BY <1>1, <2>1, Ends DEF TaskLoad
  <2>2. CASE task[<<b, t>>].st # "none"
    <3>. DEFINE row == [pc |-> "session", saw |-> task[<<b, t>>].st]
    <3>1. row \in [pc : Pcs, saw : TaskStates]
      BY <1>1, RowTypes DEF Pcs
    <3>2. work' = [work EXCEPT ![<<b, t>>] = row]
      BY <2>2 DEF TaskLoad
    <3>3. work \in [Batches \X Targets -> [pc : Pcs, saw : TaskStates]]
      BY <1>1 DEF TypeOK
    <3>4. work'[<<b, t>>] = row
      BY <3>2, <3>3
    <3>5. /\ work' \in [Batches \X Targets -> [pc : Pcs, saw : TaskStates]]
          /\ \A c \in Batches, u \in Targets : <<c, u>> # <<b, t>> =>
               work'[<<c, u>>] = work[<<c, u>>]
      <4>. HIDE DEF row
      <4>. QED BY <3>1, <3>2, <3>3
    <3>. QED BY <2>2, <3>4, <3>5
  <2>. QED BY <2>1, <2>2
<1>3. TypeOK'
  BY <1>1, <1>2 DEF TaskLoad, TypeOK
<1>4. TaskFrame(b, t)
  BY <1>2 DEF TaskFrame, TaskLoad, At
<1>5. PcRow(b, t)'
  BY <1>1, <1>2 DEF Row, PcRow, TaskLoad, At, Applying, Restoring, Startable,
                    Meaning, InFlight
<1>6. DataRow(b, t)'
  BY <1>2 DEF DataRow
<1>7. Agreement(t)'
  BY <1>1, CalmTarget DEF TaskLoad
<1>. QED BY <1>3, <1>4, <1>5, <1>6, <1>7, OneTaskKeeps

LEMMA SessionLoadKeeps ==
    ASSUME IndInv, NEW b \in Batches, NEW t \in Targets, Watch,
           SessionLoad(b, t)
    PROVE  IndInv'
<1>1. TypeOK /\ Row(b, t) /\ Agreement(t) /\ raced' \subseteq Sessions
  BY Before, Marks
<1>2. \/ End(b, t) /\ misread' = misread
      \/ \E pc \in {"skip", "fail", "undo", "start"} :
           Goto(b, t, pc) /\ misread' = misread /\ Route(b, t) = pc
      \/ Goto(b, t, "skip") /\ misread' = misread \cup {t}
  BY DEF SessionLoad, Route
<1>3. /\ work' \in [Batches \X Targets -> [pc : Pcs, saw : TaskStates]]
      /\ \A c \in Batches, u \in Targets : <<c, u>> # <<b, t>> =>
           work'[<<c, u>>] = work[<<c, u>>]
      /\ \/ work'[<<b, t>>].pc = "off"
         \/ /\ work'[<<b, t>>].saw = work[<<b, t>>].saw
            /\ work'[<<b, t>>].pc \in {"skip", "fail", "undo", "start"}
            /\ \/ work'[<<b, t>>].pc = Route(b, t)
               \/ work'[<<b, t>>].pc = "skip" /\ t \in misread'
  <2>1. CASE End(b, t)
    BY <1>1, <2>1, Ends
  <2>2. CASE Goto(b, t, "skip") /\ misread' = misread \cup {t}
    <3>1. "skip" \in Pcs
      BY DEF Pcs
    <3>. QED BY <1>1, <2>2, <3>1, Moves
  <2>3. ASSUME NEW pc \in {"skip", "fail", "undo", "start"},
               Goto(b, t, pc), Route(b, t) = pc
        PROVE  /\ work' \in [Batches \X Targets -> [pc : Pcs, saw : TaskStates]]
               /\ \A c \in Batches, u \in Targets : <<c, u>> # <<b, t>> =>
                    work'[<<c, u>>] = work[<<c, u>>]
               /\ work'[<<b, t>>].saw = work[<<b, t>>].saw
               /\ work'[<<b, t>>].pc = Route(b, t)
    <3>1. pc \in Pcs
      BY DEF Pcs
    <3>. QED BY <1>1, <2>3, <3>1, Moves
  <2>. QED BY <1>2, <2>1, <2>2, <2>3
<1>4. TypeOK'
  BY <1>1, <1>2, <1>3 DEF SessionLoad, TypeOK
<1>5. TaskFrame(b, t)
  BY <1>2, <1>3 DEF TaskFrame, SessionLoad, At
<1>6. ASSUME work[<<b, t>>].saw \in InFlight, Route(b, t) = "fail"
      PROVE  SessionOf[t] \in raced
  <2>1. reg[SessionOf[t]] = "enabling" /\ sess[SessionOf[t]] # "gone"
    BY <1>6 DEF Route, Free
  <2>2. task[<<b, t>>].st \in InFlight
    BY <1>1, <1>6, <2>1 DEF Row, PcRow, SessionLoad, At, Meaning, InFlight
  <2>3. SessionOf[t] \in Sessions /\ t \in TargetsOf(SessionOf[t])
    BY <1>1, RowTypes DEF TargetsOf
  <2>4. b \in BusyBatches(SessionOf[t])
    BY <2>2, <2>3 DEF BusyBatches, Unfinished
  <2>. QED BY <2>1, <2>3, <2>4 DEF IndInv, Noticed, Overlap
<1>7. PcRow(b, t)'
  <2>1. raced \subseteq raced'
    BY WatchNotices
  <2>2. /\ work[<<b, t>>].saw \in Startable
        /\ task[<<b, t>>].st \in Meaning(work[<<b, t>>].saw)
        /\ task[<<b, t>>].st = "none" => sess[SessionOf[t]] = "gone"
    BY <1>1 DEF Row, PcRow, SessionLoad, At
  <2>3. task' = task /\ sess' = sess
    BY DEF SessionLoad
  <2>4. CASE work'[<<b, t>>].pc = "off"
    BY <2>4 DEF PcRow, Applying, Restoring
  <2>5. CASE work'[<<b, t>>].pc = "skip"
    BY <2>2, <2>3, <2>5, <1>3 DEF PcRow, Applying, Restoring, Route, Free
  <2>6. CASE work'[<<b, t>>].pc = "fail"
    BY <2>1, <2>2, <2>3, <2>6, <1>3, <1>6
       DEF PcRow, Applying, Restoring, Startable, Meaning
  <2>7. CASE work'[<<b, t>>].pc = "undo"
    BY <2>2, <2>3, <2>7, <1>3
       DEF PcRow, Applying, Restoring, Route, Free, Meaning, InFlight
  <2>8. CASE work'[<<b, t>>].pc = "start"
    BY <2>2, <2>3, <2>8, <1>3 DEF PcRow, Applying, Restoring, Route, Free
  <2>. QED BY <1>3, <2>4, <2>5, <2>6, <2>7, <2>8
<1>8. DataRow(b, t)'
  BY <1>3 DEF DataRow
<1>9. Agreement(t)'
  BY <1>1, <1>2, CalmTarget DEF SessionLoad
<1>. QED BY <1>4, <1>5, <1>7, <1>8, <1>9, OneTaskKeeps

\* The four ways a goroutine ends by settling its row.
LEMMA SettleKeeps ==
    ASSUME IndInv, NEW b \in Batches, NEW t \in Targets, Watch,
           NEW pc \in Pcs \ {"off", "load"}, NEW st \in Ended,
           Settle(b, t, pc, st),
           Clean(t) /\ st # "rollback_failed" => deploy[t] = image[t]
    PROVE  IndInv'
<1>1. /\ TypeOK /\ Row(b, t) /\ Agreement(t) /\ raced' \subseteq Sessions
      /\ st \in TaskStates
  BY Before, Marks DEF TaskStates
<1>2. /\ work' \in [Batches \X Targets -> [pc : Pcs, saw : TaskStates]]
      /\ work'[<<b, t>>].pc = "off"
      /\ \A c \in Batches, u \in Targets : <<c, u>> # <<b, t>> =>
           work'[<<c, u>>] = work[<<c, u>>]
  BY <1>1, Ends DEF Settle
<1>3. /\ task' \in [Batches \X Targets -> TaskRows]
      /\ task'[<<b, t>>].from = task[<<b, t>>].from
      /\ task'[<<b, t>>].to = task[<<b, t>>].to
      /\ task[<<b, t>>].st = "none" => task'[<<b, t>>].st = "none"
      /\ task'[<<b, t>>].st \in {st, task[<<b, t>>].st}
      /\ \A c \in Batches, u \in Targets : <<c, u>> # <<b, t>> =>
           task'[<<c, u>>] = task[<<c, u>>]
  <2>1. CASE task' = WithStatus(b, t, st)
    BY <1>1, <2>1, Statuses
  <2>2. CASE task' = task
    BY <1>1, <2>2 DEF TypeOK
  <2>. QED BY <2>1, <2>2 DEF Settle
<1>4. faults' \in 0 .. MaxFaults
  BY <1>1, Counters DEF Settle
<1>5. TypeOK'
  BY <1>1, <1>2, <1>3, <1>4 DEF Settle, TypeOK
<1>6. TaskFrame(b, t)
  BY <1>2, <1>3 DEF TaskFrame, Settle, At
<1>7. PcRow(b, t)' /\ DataRow(b, t)'
  BY <1>2 DEF PcRow, DataRow, Applying, Restoring
<1>8. Agreement(t)'
  <2>. SUFFICES ASSUME Clean(t)', Settled(t)' PROVE deploy[t] = image[t]
    BY DEF Agreement, Settle
  <2>1. Clean(t)
    BY CleanStays DEF Settle
  <2>2. CASE task'[<<b, t>>].st = task[<<b, t>>].st
    <3>1. Settled(t)
      BY <1>3, <2>2 DEF Settled
    <3>. QED BY <1>1, <2>1, <3>1 DEF Agreement
  <2>3. CASE task'[<<b, t>>].st = st
    BY <2>1, <2>3 DEF Settled
  <2>. QED BY <1>3, <2>2, <2>3
<1>. QED BY <1>5, <1>6, <1>7, <1>8, OneTaskKeeps

LEMMA SettlingKeeps ==
    ASSUME IndInv, NEW b \in Batches, NEW t \in Targets, Watch,
           \/ Skip(b, t) \/ Succeed(b, t)
           \/ RolledBack(b, t) \/ RollbackLost(b, t)
    PROVE  IndInv'
<1>1. Row(b, t)
  BY Before
<1>2. CASE Skip(b, t)
  <2>1. ~Clean(t)
    BY <1>1, <1>2 DEF Row, PcRow, Skip, Settle, At, Clean
  <2>2. Settle(b, t, "skip", "skipped")
    BY <1>2 DEF Skip
  <2>. QED BY <2>1, <2>2, SettleKeeps DEF Pcs, Ended
<1>3. CASE Succeed(b, t)
  <2>1. Clean(t) => deploy[t] = image[t]
    BY <1>1, <1>3 DEF Row, DataRow, Succeed, Settle, At
  <2>2. Settle(b, t, "succeed", "succeeded")
    BY <1>3 DEF Succeed
  <2>. QED BY <2>1, <2>2, SettleKeeps DEF Pcs, Ended
<1>4. CASE RolledBack(b, t)
  <2>1. Clean(t) => deploy[t] = image[t]
    BY <1>1, <1>4 DEF Row, DataRow, RolledBack, Settle, At
  <2>2. Settle(b, t, "restored", "rolled_back")
    BY <1>4 DEF RolledBack
  <2>. QED BY <2>1, <2>2, SettleKeeps DEF Pcs, Ended
<1>5. CASE RollbackLost(b, t)
  <2>1. Settle(b, t, "abandon", "rollback_failed")
    BY <1>5 DEF RollbackLost
  <2>. QED BY <2>1, SettleKeeps DEF Pcs, Ended
<1>. QED BY <1>2, <1>3, <1>4, <1>5

LEMMA FailTaskKeeps ==
    ASSUME IndInv, NEW b \in Batches, NEW t \in Targets, FailTask(b, t), Watch
    PROVE  IndInv'
<1>1. /\ TypeOK /\ Row(b, t) /\ Agreement(t) /\ raced' \subseteq Sessions
      /\ "failed" \in TaskStates /\ "pause" \in Pcs
  BY Before, Marks DEF TaskStates, Ended, Pcs
<1>2. /\ work' \in [Batches \X Targets -> [pc : Pcs, saw : TaskStates]]
      /\ work'[<<b, t>>].pc = "pause"
      /\ \A c \in Batches, u \in Targets : <<c, u>> # <<b, t>> =>
           work'[<<c, u>>] = work[<<c, u>>]
  BY <1>1, Moves DEF FailTask
<1>3. /\ task' \in [Batches \X Targets -> TaskRows]
      /\ task'[<<b, t>>].from = task[<<b, t>>].from
      /\ task'[<<b, t>>].to = task[<<b, t>>].to
      /\ task[<<b, t>>].st = "none" <=> task'[<<b, t>>].st = "none"
      /\ task'[<<b, t>>].st \in {"failed", task[<<b, t>>].st}
      /\ \A c \in Batches, u \in Targets : <<c, u>> # <<b, t>> =>
           task'[<<c, u>>] = task[<<c, u>>]
  <2>1. CASE task' = WithStatus(b, t, "failed")
    BY <1>1, <2>1, Statuses
  <2>2. CASE task' = task
    BY <1>1, <2>2 DEF TypeOK
  <2>. QED BY <2>1, <2>2 DEF FailTask
<1>4. faults' \in 0 .. MaxFaults
  BY <1>1, Counters DEF FailTask
<1>5. TypeOK'
  BY <1>1, <1>2, <1>3, <1>4 DEF FailTask, TypeOK
<1>6. TaskFrame(b, t)
  BY <1>2, <1>3 DEF TaskFrame, FailTask, At
<1>7. PcRow(b, t)' /\ DataRow(b, t)'
  BY <1>1, <1>2, <1>3 DEF Row, PcRow, DataRow, Applying, Restoring, FailTask, At
<1>8. Agreement(t)'
  <2>. SUFFICES ASSUME Clean(t)', Settled(t)' PROVE deploy[t] = image[t]
    BY DEF Agreement, FailTask
  <2>1. Clean(t)
    BY CleanStays DEF FailTask
  <2>2. task[<<b, t>>].st \notin {"rollback_failed"} \cup InFlight
    BY <1>1, <2>1, <1>3 DEF Row, PcRow, FailTask, At, Clean, InFlight, Meaning
  <2>3. Settled(t)
    BY <1>3, <2>2 DEF Settled
  <2>. QED BY <1>1, <2>1, <2>3 DEF Agreement
<1>. QED BY <1>5, <1>6, <1>7, <1>8, OneTaskKeeps

LEMMA FailBatchKeeps ==
    ASSUME IndInv, NEW b \in Batches, NEW t \in Targets, FailBatch(b, t), Watch
    PROVE  IndInv'
<1>1. TypeOK /\ Row(b, t) /\ Agreement(t) /\ raced' \subseteq Sessions
  BY Before, Marks
<1>2. /\ work' \in [Batches \X Targets -> [pc : Pcs, saw : TaskStates]]
      /\ work'[<<b, t>>].pc = "off"
      /\ \A c \in Batches, u \in Targets : <<c, u>> # <<b, t>> =>
           work'[<<c, u>>] = work[<<c, u>>]
  BY <1>1, Ends DEF FailBatch
<1>3. batch' \in [Batches -> BatchRows] /\ faults' \in 0 .. MaxFaults
  BY <1>1, Pauses, Counters DEF FailBatch
<1>4. TypeOK'
  BY <1>1, <1>2, <1>3 DEF FailBatch, TypeOK
<1>5. TaskFrame(b, t)
  BY <1>2 DEF TaskFrame, FailBatch, At
<1>6. PcRow(b, t)' /\ DataRow(b, t)'
  BY <1>2 DEF PcRow, DataRow, Applying, Restoring
<1>7. Agreement(t)'
  BY <1>1, CalmTarget DEF FailBatch
<1>. QED BY <1>4, <1>5, <1>6, <1>7, OneTaskKeeps

\* setTask(running) and rollbackTask: the row says what the goroutine does next.
LEMMA DirectionKeeps ==
    ASSUME IndInv, NEW b \in Batches, NEW t \in Targets, Watch,
           MarkRunning(b, t) \/ Undo(b, t)
    PROVE  IndInv'
<1>1. /\ TypeOK /\ Row(b, t) /\ Agreement(t) /\ raced' \subseteq Sessions
      /\ "running" \in TaskStates /\ "rolling_back" \in TaskStates
      /\ "patch" \in Pcs /\ "repatch" \in Pcs
  BY Before, Marks DEF TaskStates, Unfinished, InFlight, Pcs
<1>. DEFINE Moved(pc, st) ==
       /\ work'[<<b, t>>].pc = pc
       /\ task[<<b, t>>].st = "none" <=> task'[<<b, t>>].st = "none"
       /\ task'[<<b, t>>].st \in {st, "none"}
<1>2. /\ work' \in [Batches \X Targets -> [pc : Pcs, saw : TaskStates]]
      /\ \A c \in Batches, u \in Targets : <<c, u>> # <<b, t>> =>
           work'[<<c, u>>] = work[<<c, u>>] /\ task'[<<c, u>>] = task[<<c, u>>]
      /\ task' \in [Batches \X Targets -> TaskRows]
      /\ task'[<<b, t>>].from = task[<<b, t>>].from
      /\ task'[<<b, t>>].to = task[<<b, t>>].to
      /\ \/ work'[<<b, t>>].pc = "off" /\ task' = task
         \/ MarkRunning(b, t) /\ Moved("patch", "running")
         \/ Undo(b, t) /\ Moved("repatch", "rolling_back")
  <2>1. CASE End(b, t) /\ task' = task
    <3>1. task' \in [Batches \X Targets -> TaskRows]
      BY <1>1, <2>1 DEF TypeOK
    <3>2. work'[<<b, t>>].pc = "off"
      BY <1>1, <2>1, Ends
    <3>. QED BY <1>1, <2>1, <3>1, <3>2, Ends
  <2>2. CASE /\ MarkRunning(b, t)
             /\ Goto(b, t, "patch") /\ task' = WithStatus(b, t, "running")
    <3>1. Moved("patch", "running")
      BY <1>1, <2>2, Moves, Statuses
    <3>2. /\ task' \in [Batches \X Targets -> TaskRows]
          /\ task'[<<b, t>>].from = task[<<b, t>>].from
          /\ task'[<<b, t>>].to = task[<<b, t>>].to
          /\ \A c \in Batches, u \in Targets : <<c, u>> # <<b, t>> =>
               task'[<<c, u>>] = task[<<c, u>>]
      BY <1>1, <2>2, Statuses
    <3>. HIDE DEF Moved
    <3>. QED BY <1>1, <2>2, <3>1, <3>2, Moves
  <2>3. CASE /\ Undo(b, t)
             /\ Goto(b, t, "repatch")
             /\ task' = WithStatus(b, t, "rolling_back")
    <3>1. Moved("repatch", "rolling_back")
      BY <1>1, <2>3, Moves, Statuses
    <3>2. /\ task' \in [Batches \X Targets -> TaskRows]
          /\ task'[<<b, t>>].from = task[<<b, t>>].from
          /\ task'[<<b, t>>].to = task[<<b, t>>].to
          /\ \A c \in Batches, u \in Targets : <<c, u>> # <<b, t>> =>
               task'[<<c, u>>] = task[<<c, u>>]
      BY <1>1, <2>3, Statuses
    <3>. HIDE DEF Moved
    <3>. QED BY <1>1, <2>3, <3>1, <3>2, Moves
  <2>. QED BY <2>1, <2>2, <2>3 DEF MarkRunning, Undo
<1>3. /\ UNCHANGED <<sess, reg, image, deploy, dflt, sched, req, restarts,
                     misread>>
      /\ batch' = batch \/ batch' = Pausing(b)
      /\ faults' = faults \/ LoseWrite
      /\ work[<<b, t>>].pc \in {"start", "undo"}
  BY DEF MarkRunning, Undo, At
<1>4. batch' \in [Batches -> BatchRows] /\ faults' \in 0 .. MaxFaults
  BY <1>1, <1>3, Pauses, Counters
<1>5. TypeOK'
  BY <1>1, <1>2, <1>3, <1>4 DEF TypeOK
<1>6. TaskFrame(b, t)
  BY <1>2, <1>3 DEF TaskFrame
<1>7. PcRow(b, t)' /\ DataRow(b, t)'
  BY <1>1, <1>2, <1>3 DEF Row, PcRow, DataRow, Applying, Restoring
<1>8. Agreement(t)'
  <2>1. CASE task' = task
    BY <1>1, <1>3, <2>1, CalmTarget
  <2>2. CASE task'[<<b, t>>].st \in InFlight
    BY <2>2 DEF Agreement, Settled
  <2>3. CASE task'[<<b, t>>].st = "none" /\ task[<<b, t>>].st = "none"
    BY <1>1, <1>3, <2>3 DEF Row, PcRow, Agreement, Clean
  <2>. QED BY <1>2, <2>1, <2>2, <2>3 DEF InFlight
<1>. QED BY <1>5, <1>6, <1>7, <1>8, OneTaskKeeps

\* In the middle of a rollout the row of a clean target is in flight, so that
\* nothing is claimed about its Deployment or its column.
LEMMA Underway ==
    ASSUME NEW b \in Batches, NEW t \in Targets, Row(b, t), Clean(t),
           work[<<b, t>>].pc \in {"patch", "wait", "record",
                                  "repatch", "rewait", "rerecord"}
    PROVE  task[<<b, t>>].st \in InFlight
  BY DEF Row, PcRow, Applying, Restoring, Clean, InFlight

\* SetDeploymentImage, waitForRollout and the recording of an image: the rows
\* stay, the goroutine moves on.
LEMMA UnderwayKeeps ==
    ASSUME IndInv, NEW b \in Batches, NEW t \in Targets, Watch, TypeOK',
           NEW pc \in Pcs, Goto(b, t, pc),
           <<work[<<b, t>>].pc, pc>> \in
             (Applying \X (Applying \cup {"undo"}))
               \cup (Restoring \X Restoring),
           work[<<b, t>>].pc \notin {"succeed", "restored", "abandon"},
           UNCHANGED <<batch, task, sess, reg, sched, req, misread>>,
           \A u \in Targets : u # t =>
             deploy'[u] = deploy[u] /\ image'[u] = image[u],
           DataRow(b, t)'
    PROVE  IndInv'
<1>1. TypeOK /\ Row(b, t) /\ Agreement(t)
  BY Before
<1>2. /\ work'[<<b, t>>].pc = pc
      /\ \A c \in Batches, u \in Targets : <<c, u>> # <<b, t>> =>
           work'[<<c, u>>] = work[<<c, u>>]
  BY <1>1, Moves
<1>3. work[<<b, t>>].pc \in {"patch", "wait", "record", "repatch", "rewait",
                             "rerecord"}
  BY DEF Applying, Restoring
<1>4. Clean(t) => task[<<b, t>>].st \in InFlight
  BY <1>1, <1>3, Underway
<1>5. TaskFrame(b, t)
  BY <1>2, <1>3, <1>4 DEF TaskFrame
<1>6. PcRow(b, t)'
  BY <1>1, <1>2, <1>3 DEF Row, PcRow, Applying, Restoring, InFlight
<1>7. Agreement(t)'
  <2>1. Clean(t)' => Clean(t)
    BY CleanStays
  <2>. QED BY <1>4, <2>1 DEF Agreement, Settled
<1>. QED BY <1>5, <1>6, <1>7, OneTaskKeeps

LEMMA PatchKeeps ==
    ASSUME IndInv, NEW b \in Batches, NEW t \in Targets, Watch,
           Patch(b, t) \/ Repatch(b, t)
    PROVE  IndInv'
<1>1. TypeOK /\ Row(b, t) /\ raced' \subseteq Sessions
  BY Before, Marks
<1>2. PICK i \in Images, pc \in {"wait", "undo", "rewait", "abandon"} :
        /\ deploy' = deploy \/ deploy' = [deploy EXCEPT ![t] = i]
        /\ Goto(b, t, pc)
        /\ <<work[<<b, t>>].pc, pc>> \in
             {<<"patch", "wait">>, <<"patch", "undo">>,
              <<"repatch", "rewait">>, <<"repatch", "abandon">>}
  <2>1. work[<<b, t>>].pc \in {"patch", "repatch"}
    BY DEF Patch, Repatch, At
  <2>2. task[<<b, t>>].from \in Images /\ task[<<b, t>>].to \in Images
    BY <1>1, <2>1 DEF Row, Known
  <2>. QED BY <2>2 DEF Patch, Repatch, SetImage, At
<1>3. pc \in Pcs
  BY DEF Pcs
<1>4. UNCHANGED <<batch, task, sess, reg, image, dflt, sched, req, restarts,
                  misread, faults>>
  BY DEF Patch, Repatch, SetImage
<1>5. /\ work' \in [Batches \X Targets -> [pc : Pcs, saw : TaskStates]]
      /\ work'[<<b, t>>].pc = pc
  BY <1>1, <1>2, <1>3, Moves
<1>6. TypeOK'
  BY <1>1, <1>2, <1>4, <1>5 DEF TypeOK
<1>7. \A u \in Targets : u # t => deploy'[u] = deploy[u] /\ image'[u] = image[u]
  BY <1>1, <1>2, <1>4 DEF TypeOK
<1>8. DataRow(b, t)'
  BY <1>5 DEF DataRow
<1>. QED
  BY <1>2, <1>3, <1>4, <1>6, <1>7, <1>8, UnderwayKeeps DEF Applying, Restoring

LEMMA WaitKeeps ==
    ASSUME IndInv, NEW b \in Batches, NEW t \in Targets, Watch,
           Wait(b, t) \/ Rewait(b, t)
    PROVE  IndInv'
<1>1. TypeOK /\ Row(b, t) /\ raced' \subseteq Sessions
  BY Before, Marks
<1>2. PICK pc \in {"record", "undo", "rerecord", "abandon"} :
        /\ Goto(b, t, pc)
        /\ <<work[<<b, t>>].pc, pc>> \in
             {<<"wait", "record">>, <<"wait", "undo">>,
              <<"rewait", "rerecord">>, <<"rewait", "abandon">>}
        /\ pc = "record" => deploy[t] = task[<<b, t>>].to
        /\ pc = "rerecord" => deploy[t] = task[<<b, t>>].from
  BY DEF Wait, Rewait, WaitRollout, CanBeReady, At
<1>3. pc \in Pcs
  BY DEF Pcs
<1>4. UNCHANGED <<batch, task, sess, reg, image, deploy, dflt, sched, req,
                  restarts, misread, faults>>
  BY DEF Wait, Rewait, WaitRollout
<1>5. /\ work' \in [Batches \X Targets -> [pc : Pcs, saw : TaskStates]]
      /\ work'[<<b, t>>].pc = pc
  BY <1>1, <1>2, <1>3, Moves
<1>6. TypeOK'
  BY <1>1, <1>4, <1>5 DEF TypeOK
<1>7. DataRow(b, t)'
  BY <1>2, <1>4, <1>5 DEF DataRow
<1>. QED
  BY <1>2, <1>3, <1>4, <1>6, <1>7, UnderwayKeeps DEF Applying, Restoring

LEMMA RecordKeeps ==
    ASSUME IndInv, NEW b \in Batches, NEW t \in Targets, Watch,
           Record(b, t) \/ Rerecord(b, t)
    PROVE  IndInv'
<1>1. TypeOK /\ Row(b, t) /\ raced' \subseteq Sessions
  BY Before, Marks
<1>. DEFINE new == IF work[<<b, t>>].pc = "record" THEN task[<<b, t>>].to
                   ELSE task[<<b, t>>].from
<1>2. /\ work[<<b, t>>].pc \in {"record", "rerecord"}
      /\ new \in Images
      /\ Clean(t) => deploy[t] = new
  <2>1. work[<<b, t>>].pc \in {"record", "rerecord"}
    BY DEF Record, Rerecord, At
  <2>. QED BY <1>1, <2>1 DEF Row, Known, DataRow
<1>3. PICK pc \in {"succeed", "undo", "restored", "abandon"} :
        /\ Goto(b, t, pc)
        /\ <<work[<<b, t>>].pc, pc>> \in
             {<<"record", "succeed">>, <<"record", "undo">>,
              <<"rerecord", "restored">>, <<"rerecord", "abandon">>}
        /\ \/ image' = image /\ pc \in {"undo", "abandon"}
           \/ image' = WithImage(t, new)
  BY DEF Record, Rerecord, At
<1>4. pc \in Pcs
  BY DEF Pcs
<1>5. /\ UNCHANGED <<batch, task, sess, reg, deploy, sched, req, restarts,
                     misread>>
      /\ faults' = faults \/ LoseWrite
      /\ dflt' = dflt \/ dflt' = new
  BY DEF Record, Rerecord, At
<1>6. /\ work' \in [Batches \X Targets -> [pc : Pcs, saw : TaskStates]]
      /\ work'[<<b, t>>].pc = pc
  BY <1>1, <1>3, <1>4, Moves
<1>7. /\ image' \in [Targets -> Images]
      /\ \A u \in Targets : u # t => image'[u] = image[u]
      /\ image' = WithImage(t, new) /\ Clean(t) => image'[t] = new
  <2>. HIDE DEF new
  <2>1. image \in [Targets -> Images]
    BY <1>1 DEF TypeOK
  <2>2. image' = image \/ image' = [image EXCEPT ![t] = new]
    BY <1>3 DEF WithImage
  <2>3. Clean(t) => WithImage(t, new) = [image EXCEPT ![t] = new]
    BY DEF WithImage, Clean
  <2>. QED BY <1>2, <2>1, <2>2, <2>3
<1>8. TypeOK'
  <2>1. faults' \in 0 .. MaxFaults
    BY <1>1, <1>5, Counters
  <2>. HIDE DEF new
  <2>. QED BY <1>1, <1>2, <1>5, <1>6, <1>7, <2>1 DEF TypeOK
<1>9. DataRow(b, t)'
  <2>1. Clean(t)' => Clean(t)
    BY <1>5, CleanStays
  <2>. HIDE DEF new
  <2>. QED BY <1>2, <1>3, <1>5, <1>6, <1>7, <2>1 DEF DataRow
<1>. QED
  BY <1>3, <1>4, <1>5, <1>7, <1>8, <1>9, UnderwayKeeps DEF Applying, Restoring

\* Every step of a task goroutine keeps the invariant.
LEMMA TaskStepKeeps ==
    ASSUME IndInv, NEW b \in Batches, NEW t \in Targets, TaskStep(b, t), Watch
    PROVE  IndInv'
<1>1. CASE TaskLoad(b, t)
  BY <1>1, TaskLoadKeeps
<1>2. CASE SessionLoad(b, t)
  BY <1>2, SessionLoadKeeps
<1>3. CASE \/ Skip(b, t) \/ Succeed(b, t)
           \/ RolledBack(b, t) \/ RollbackLost(b, t)
  BY <1>3, SettlingKeeps
<1>4. CASE FailTask(b, t)
  BY <1>4, FailTaskKeeps
<1>5. CASE FailBatch(b, t)
  BY <1>5, FailBatchKeeps
<1>6. CASE MarkRunning(b, t) \/ Undo(b, t)
  BY <1>6, DirectionKeeps
<1>7. CASE Patch(b, t) \/ Repatch(b, t)
  BY <1>7, PatchKeeps
<1>8. CASE Wait(b, t) \/ Rewait(b, t)
  BY <1>8, WaitKeeps
<1>9. CASE Record(b, t) \/ Rerecord(b, t)
  BY <1>9, RecordKeeps
<1>. QED BY <1>1, <1>2, <1>3, <1>4, <1>5, <1>6, <1>7, <1>8, <1>9 DEF TaskStep

----------------------------------------------------------------------------
(* Requests *)

\* The values a request has while it is served.
Serving == [op : {"none", "admin", "user", "cancel", "resume"},
            at : {"off", "loaded", "clear", "superseded", "checked"},
            s : Sessions \cup {None}, b : Batches \cup {None},
            plan : [Targets -> TaskRows]]

Planning(plan) ==
    \A t \in Targets :
        \/ plan[t] = NoTask
        \/ plan[t] \in [st : {"pending"}, from : Images, to : Images]

\* A request after a step of it: what it carries on with is sound.
Sound(q) == /\ q \in Serving
            /\ Planning(q.plan)
            /\ q.op \in {"cancel", "resume"} =>
                 q.b \in Batches /\ batch[q.b].st # "none"

LEMMA IdleIsSound == Idle \in Serving /\ Planning(Idle.plan)
                     /\ Idle.op \notin {"cancel", "resume"}
  BY DEF Idle, Serving, NoPlan, NoTask, Planning, TaskRows, TaskStates,
         Unfinished, InFlight

LEMMA RequestsAreSound ==
    ASSUME IndInv, NEW r \in Requests
    PROVE  Sound(req[r])
  BY DEF IndInv, TypeOK, PlanKnown, Unused, Sound, Serving, Planning

LEMMA PlansAreSound ==
    ASSUME TypeOK, NEW ts \in SUBSET Targets, NEW i \in Images
    PROVE  PlanFor(ts, i) \in [Targets -> TaskRows] /\ Planning(PlanFor(ts, i))
  BY DEF PlanFor, Planning, TypeOK, TaskRows, NoTask, TaskStates, Unfinished,
         InFlight

\* The request records CancelLoad and ResumeLoad write, field by field.
Loading(o, a, b) == [op |-> o, at |-> a, s |-> None, b |-> b, plan |-> NoPlan]

LEMMA IdleFields ==
  ASSUME NEW o, NEW b
  PROVE  /\ [Idle EXCEPT !.op = o, !.b = b] =
              [op |-> o, at |-> "off", s |-> None, b |-> b, plan |-> NoPlan]
         /\ [Idle EXCEPT !.op = o, !.b = b, !.at = "loaded"] =
              [op |-> o, at |-> "loaded", s |-> None, b |-> b, plan |-> NoPlan]
<1>1. [Idle EXCEPT !.op = o] = Loading(o, "off", None)
  BY DEF Idle, Loading
<1>2. [Loading(o, "off", None) EXCEPT !.b = b] = Loading(o, "off", b)
  BY DEF Loading
<1>3. [Loading(o, "off", b) EXCEPT !.at = "loaded"] = Loading(o, "loaded", b)
  BY DEF Loading
<1>4. [[Idle EXCEPT !.op = o] EXCEPT !.b = b] = Loading(o, "off", b)
  BY <1>1, <1>2, Zenon
<1>5. [[[Idle EXCEPT !.op = o] EXCEPT !.b = b] EXCEPT !.at = "loaded"] =
        Loading(o, "loaded", b)
  BY <1>3, <1>4, Zenon
<1>6. [Idle EXCEPT !.op = o, !.b = b] = Loading(o, "off", b)
  BY <1>4
<1>7. [Idle EXCEPT !.op = o, !.b = b, !.at = "loaded"] = Loading(o, "loaded", b)
  BY <1>5
<1>. QED BY <1>6, <1>7, Zenon DEF Loading

\* Reading steps touch nothing but their request.
LEMMA ReadingKeeps ==
    ASSUME IndInv, NEW r \in Requests, Watch,
           NEW q, Sound(q), req' = [req EXCEPT ![r] = q],
           UNCHANGED <<batch, task, sess, reg, image, deploy, dflt, sched, work,
                       restarts, misread, faults>>
    PROVE  IndInv'
<1>1. raced \subseteq raced' /\ raced' \subseteq Sessions /\ Noticed'
  BY WatchNotices, Marks DEF IndInv
<1>2. TypeOK'
  BY <1>1 DEF IndInv, TypeOK, Sound, Serving
<1>3. \A p \in Requests : req'[p] = req[p] \/ req'[p] = q
  BY DEF IndInv, TypeOK
<1>4. PlanKnown'
  BY <1>3 DEF IndInv, PlanKnown, Sound, Planning
<1>5. Unused'
  BY <1>3 DEF IndInv, Unused, Sound
<1>6. Waited' /\ AtRest'
  BY DEF IndInv, Waited, AtRest
<1>7. Agreed'
  BY <1>1 DEF IndInv, Agreed, Agreement, Clean, Settled
<1>8. ASSUME NEW b \in Batches, NEW t \in Targets PROVE Row(b, t)'
  <2>1. Row(b, t)
    BY DEF IndInv, Rows
  <2>2. QueueRow(b, t)' /\ Known(b, t)'
    BY <2>1 DEF Row, QueueRow, Known
  <2>3. PcRow(b, t)'
    BY <1>1, <2>1 DEF Row, PcRow
  <2>4. DataRow(b, t)'
    BY <1>1, <2>1 DEF Row, DataRow, Clean
  <2>. QED BY <2>2, <2>3, <2>4 DEF Row
<1>. QED BY <1>1, <1>2, <1>4, <1>5, <1>6, <1>7, <1>8 DEF IndInv, Rows

LEMMA ReadersKeep ==
    ASSUME IndInv, NEW r \in Requests, Watch,
           \/ \E ts \in SUBSET Targets, i \in Images : AdminLoad(r, ts, i)
           \/ AdminCheck(r)
           \/ \E s \in Sessions, ts \in SUBSET Targets, i \in Images :
                UserLoad(r, s, ts, i)
           \/ UserRestoring(r) \/ UserCheck(r)
           \/ \E b \in Batches : CancelLoad(r, b) \/ ResumeLoad(r, b)
           \/ ResumeCheck(r)
    PROVE  IndInv'
<1>1. TypeOK /\ Sound(req[r]) /\ Sound(Idle)
  BY RequestsAreSound, IdleIsSound DEF IndInv, Sound
<1>2. ASSUME NEW ts \in SUBSET Targets, NEW i \in Images, AdminLoad(r, ts, i)
      PROVE  IndInv'
  <2>. DEFINE eligible == {t \in ts : Upgradable(t, i)}
              q == [op |-> "admin", at |-> "loaded", s |-> None, b |-> None,
                    plan |-> PlanFor(eligible, i)]
  <2>1. Sound(q)
    <3>1. eligible \in SUBSET Targets
      OBVIOUS
    <3>2. /\ PlanFor(eligible, i) \in [Targets -> TaskRows]
          /\ Planning(PlanFor(eligible, i))
      BY <1>1, <3>1, PlansAreSound
    <3>. HIDE DEF eligible
    <3>. QED BY <3>2 DEF Sound, Serving
  <2>2. req' = [req EXCEPT ![r] = q]
    BY <1>2 DEF AdminLoad
  <2>. HIDE DEF q
  <2>. QED BY <1>2, <2>1, <2>2, ReadingKeeps DEF AdminLoad
<1>3. CASE AdminCheck(r)
  <2>. DEFINE plan == [t \in Targets |-> IF Has(SessionOf[t], Unfinished)
                                         THEN NoTask ELSE req[r].plan[t]]
              q == [req[r] EXCEPT !.at = "checked", !.plan = plan]
  <2>1. plan \in [Targets -> TaskRows] /\ Planning(plan)
    BY <1>1 DEF Sound, Planning, Serving, NoTask, TaskRows, TaskStates,
                Unfinished, InFlight
  <2>2. Sound(q)
    <3>. HIDE DEF plan
    <3>. QED BY <1>1, <2>1 DEF Sound, Serving
  <2>3. \/ req' = [req EXCEPT ![r] = Idle]
        \/ req' = [req EXCEPT ![r] = q]
    BY <1>3 DEF AdminCheck
  <2>. HIDE DEF q
  <2>. QED BY <1>1, <1>3, <2>2, <2>3, ReadingKeeps DEF AdminCheck
<1>4. ASSUME NEW s \in Sessions, NEW ts \in SUBSET Targets, NEW i \in Images,
             UserLoad(r, s, ts, i)
      PROVE  IndInv'
  <2>. DEFINE q == [op |-> "user", at |-> "loaded", s |-> s, b |-> None,
                    plan |-> PlanFor(ts, i)]
  <2>1. Sound(q)
    BY <1>1, PlansAreSound DEF Sound, Serving
  <2>2. req' = [req EXCEPT ![r] = q]
    BY <1>4 DEF UserLoad
  <2>. HIDE DEF q
  <2>. QED BY <1>4, <2>1, <2>2, ReadingKeeps DEF UserLoad
<1>5. ASSUME NEW at \in {"clear", "checked"}
      PROVE  Sound([req[r] EXCEPT !.at = at])
  BY <1>1 DEF Sound, Serving
<1>6. CASE UserRestoring(r) \/ UserCheck(r) \/ ResumeCheck(r)
  <2>1. PICK at \in {"clear", "checked"} :
          \/ req' = [req EXCEPT ![r] = Idle]
          \/ req' = [req EXCEPT ![r] = [req[r] EXCEPT !.at = at]]
    BY <1>6 DEF UserRestoring, UserCheck, ResumeCheck, Answer
  <2>2. UNCHANGED <<batch, task, sess, reg, image, deploy, dflt, sched, work,
                    restarts, misread, faults>>
    BY <1>6 DEF UserRestoring, UserCheck, ResumeCheck
  <2>. DEFINE q == [req[r] EXCEPT !.at = at]
  <2>3. Sound(q)
    BY <1>5
  <2>. HIDE DEF q
  <2>4. req' = [req EXCEPT ![r] = Idle] \/ req' = [req EXCEPT ![r] = q]
    BY <2>1 DEF q
  <2>. QED BY <1>1, <2>2, <2>3, <2>4, ReadingKeeps
<1>7. ASSUME NEW b \in Batches, CancelLoad(r, b) \/ ResumeLoad(r, b)
      PROVE  IndInv'
  <2>1. PICK op \in {"cancel", "resume"}, at \in {"off", "loaded"} :
          req' = [req EXCEPT ![r] = [op |-> op, at |-> at, s |-> None, b |-> b,
                                     plan |-> NoPlan]]
    <3>1. CASE CancelLoad(r, b)
      BY <3>1, IdleFields, Zenon DEF CancelLoad
    <3>2. CASE ResumeLoad(r, b)
      BY <3>2, IdleFields, Zenon DEF ResumeLoad
    <3>. QED BY <1>7, <3>1, <3>2
  <2>. DEFINE q == [op |-> op, at |-> at, s |-> None, b |-> b, plan |-> NoPlan]
  <2>2. Sound(q)
    BY <1>1, <1>7 DEF Sound, Serving, Idle, CancelLoad, ResumeLoad
  <2>3. req' = [req EXCEPT ![r] = q]
    BY <2>1
  <2>. HIDE DEF q
  <2>. QED BY <1>7, <2>2, <2>3, ReadingKeeps DEF CancelLoad, ResumeLoad
<1>. QED BY <1>2, <1>3, <1>4, <1>6, <1>7

\* A request that changes rows ends, or goes on with the same plan.
LEMMA RequestsStay ==
    ASSUME IndInv, NEW r \in Requests, NEW q, Sound(q),
           req' = [req EXCEPT ![r] = q],
           \A b \in Batches : batch[b].st # "none" => batch'[b].st # "none"
    PROVE  /\ req' \in [Requests -> Serving]
           /\ PlanKnown'
           /\ \A p \in Requests : req'[p].op \in {"cancel", "resume"} =>
                req'[p].b \in Batches /\ batch'[req'[p].b].st # "none"
<1>1. req \in [Requests -> Serving]
  BY DEF IndInv, TypeOK, Serving
<1>2. \A p \in Requests : Sound(req[p])
  BY RequestsAreSound
<1>3. req' \in [Requests -> Serving] /\ \A p \in Requests : Sound(req'[p])
  BY <1>1, <1>2 DEF Sound
<1>. QED BY <1>3 DEF PlanKnown, Sound, Planning

\* The rows of cancelled batches: nothing in flight changes.
LEMMA CancellingKeeps ==
    ASSUME IndInv, NEW r \in Requests, Watch, UserSupersede(r) \/ Cancel(r)
    PROVE  IndInv'
<1>1. TypeOK /\ Sound(req[r]) /\ Sound(Idle)
      /\ raced \subseteq raced' /\ raced' \subseteq Sessions /\ Noticed'
  BY RequestsAreSound, IdleIsSound, WatchNotices, Marks DEF IndInv, Sound
<1>2. PICK B : /\ Cancelling(B)
               /\ \A b \in B : b \in Batches => batch[b].st # "none"
  BY <1>1 DEF UserSupersede, Cancel, Sound
<1>3. /\ batch' \in [Batches -> BatchRows]
      /\ \A b \in Batches :
           /\ batch'[b].st \in {batch[b].st, "cancelled"}
           /\ batch'[b].st = "none" <=> batch[b].st = "none"
           /\ batch'[b].by = batch[b].by
  <2>. SUFFICES ASSUME NEW b \in Batches
                PROVE  /\ batch'[b] \in BatchRows
                       /\ batch'[b].st \in {batch[b].st, "cancelled"}
                       /\ batch'[b].st = "none" <=> batch[b].st = "none"
                       /\ batch'[b].by = batch[b].by
    BY <1>2 DEF Cancelling
  <2>1. batch[b] \in BatchRows
    BY <1>1 DEF TypeOK
  <2>2. CASE b \in B
    <3>1. batch'[b] = [batch[b] EXCEPT !.st = "cancelled"]
      BY <1>2, <2>2 DEF Cancelling
    <3>. QED BY <1>2, <2>1, <2>2, <3>1 DEF BatchRows
  <2>3. CASE b \notin B
    BY <1>2, <2>1, <2>3 DEF Cancelling
  <2>. QED BY <2>2, <2>3
<1>4. /\ task' \in [Batches \X Targets -> TaskRows]
      /\ \A b \in Batches, t \in Targets :
           /\ task'[<<b, t>>].from = task[<<b, t>>].from
           /\ task'[<<b, t>>].to = task[<<b, t>>].to
           /\ \/ task'[<<b, t>>].st = task[<<b, t>>].st
              \/ task[<<b, t>>].st = "pending" /\ task'[<<b, t>>].st = "skipped"
  <2>1. \A x \in Batches \X Targets :
          task[x] \in TaskRows /\ x[1] \in Batches /\ x[2] \in Targets
    BY <1>1 DEF TypeOK
  <2>2. ASSUME NEW x \in Batches \X Targets
        PROVE  /\ task'[x] \in TaskRows
               /\ task'[x].from = task[x].from /\ task'[x].to = task[x].to
               /\ \/ task'[x].st = task[x].st
                  \/ task[x].st = "pending" /\ task'[x].st = "skipped"
    <3>. DEFINE row == [task[x] EXCEPT !.st = "skipped"]
    <3>1. /\ row \in TaskRows /\ row.st = "skipped"
          /\ row.from = task[x].from /\ row.to = task[x].to
      BY <2>1 DEF TaskRows, TaskStates, Ended
    <3>2. \/ task'[x] = task[x]
          \/ task'[x] = row /\ task[x].st = "pending"
      BY <1>2 DEF Cancelling
    <3>. HIDE DEF row
    <3>. QED BY <2>1, <3>1, <3>2
  <2>3. task' = [x \in Batches \X Targets |-> task'[x]]
    BY <1>2 DEF Cancelling
  <2>. QED BY <2>2, <2>3
<1>5. UNCHANGED <<sess, reg, image, deploy, dflt, sched, work, restarts,
                  misread, faults>>
  BY DEF UserSupersede, Cancel
<1>6. PICK q : Sound(q) /\ req' = [req EXCEPT ![r] = q]
  <2>1. Sound([req[r] EXCEPT !.at = "superseded"])
    BY <1>1 DEF Sound, Serving
  <2>. QED BY <1>1, <2>1 DEF UserSupersede, Cancel, Answer
<1>7. /\ req' \in [Requests -> Serving]
      /\ PlanKnown'
      /\ \A p \in Requests : req'[p].op \in {"cancel", "resume"} =>
           req'[p].b \in Batches /\ batch'[req'[p].b].st # "none"
  BY <1>3, <1>6, RequestsStay
<1>8. TypeOK'
  BY <1>1, <1>3, <1>4, <1>5, <1>7 DEF TypeOK, Serving
<1>9. Unused' /\ Waited'
  BY <1>3, <1>4, <1>5, <1>7 DEF IndInv, Unused, Waited
<1>10. AtRest'
  BY <1>3, <1>4, <1>5 DEF IndInv, AtRest, Unfinished, InFlight
<1>11. Agreed'
  BY <1>1, <1>4, <1>5
     DEF IndInv, Agreed, Agreement, Clean, Settled, InFlight
<1>12. ASSUME NEW b \in Batches, NEW t \in Targets PROVE Row(b, t)'
  <2>1. Row(b, t)
    BY DEF IndInv, Rows
  <2>2. QueueRow(b, t)'
    BY <2>1, <1>4, <1>5 DEF Row, QueueRow, Meaning
  <2>3. Known(b, t)'
    BY <2>1, <1>4, <1>5 DEF Row, Known
  <2>4. PcRow(b, t)'
    BY <1>1, <2>1, <1>4, <1>5 DEF Row, PcRow, Meaning, Startable, InFlight
  <2>5. DataRow(b, t)'
    BY <1>1, <2>1, <1>4, <1>5 DEF Row, DataRow, Clean
  <2>. QED BY <2>2, <2>3, <2>4, <2>5 DEF Row
<1>. QED BY <1>1, <1>7, <1>8, <1>9, <1>10, <1>11, <1>12 DEF IndInv, Rows

\* Runner.Start gives a batch a scheduler and disturbs nothing.
LEMMA Starts ==
    ASSUME TypeOK, NEW b \in Batches, sched' = Started(b)
    PROVE  /\ sched' \in [Batches ->
                            [pc : {"off", "load", "loop", "close", "exit"},
                             queue : [Targets -> Unfinished \cup {"none"}]]]
           /\ \A c \in Batches :
                \/ sched'[c] = sched[c]
                \/ c = b /\ sched[c].pc = "off" /\ sched'[c].pc = "load"
<1>. DEFINE S == [pc : {"off", "load", "loop", "close", "exit"},
                  queue : [Targets -> Unfinished \cup {"none"}]]
            row == [sched[b] EXCEPT !.pc = "load"]
<1>1. sched \in [Batches -> S] /\ sched[b] \in S
  BY DEF TypeOK
<1>2. row \in S /\ row.pc = "load"
  BY <1>1
<1>3. \/ sched' = sched
      \/ sched' = [sched EXCEPT ![b] = row] /\ sched[b].pc = "off"
  BY DEF Started
<1>. HIDE DEF S, row
<1>4. sched' \in [Batches -> S]
  BY <1>1, <1>2, <1>3
<1>5. \A c \in Batches :
        \/ sched'[c] = sched[c]
        \/ c = b /\ sched[c].pc = "off" /\ sched'[c].pc = "load"
  BY <1>1, <1>2, <1>3
<1>. QED BY <1>4, <1>5 DEF S

LEMMA CreateKeeps ==
    ASSUME IndInv, NEW r \in Requests, NEW b \in Batches, Watch,
           CreateBatch(r, b)
    PROVE  IndInv'
<1>1. TypeOK /\ Sound(req[r]) /\ Sound(Idle)
      /\ raced \subseteq raced' /\ raced' \subseteq Sessions /\ Noticed'
  BY RequestsAreSound, IdleIsSound, WatchNotices, Marks DEF IndInv, Sound
<1>2. CASE UNCHANGED <<batch, task, sched>>
  BY <1>1, <1>2, ReadingKeeps DEF CreateBatch, Answer
<1>3. CASE /\ batch' =
                [batch EXCEPT ![b] = [st |-> "running", by |-> req[r].op]]
           /\ task' = [x \in Batches \X Targets |->
                         IF x[1] = b THEN req[r].plan[x[2]] ELSE task[x]]
           /\ sched' = Started(b)
  <2>1. UNCHANGED <<sess, reg, image, deploy, dflt, work, restarts, misread,
                    faults>>
        /\ batch[b].st = "none" /\ req[r].op \in {"admin", "user"}
    BY DEF CreateBatch
  <2>2. /\ batch' \in [Batches -> BatchRows]
        /\ batch'[b].st = "running"
        /\ \A c \in Batches : c # b => batch'[c] = batch[c]
    <3>1. [st |-> "running", by |-> req[r].op] \in BatchRows
      BY <2>1 DEF BatchRows
    <3>. QED BY <1>1, <1>3, <3>1 DEF TypeOK
  <2>3. /\ task' \in [Batches \X Targets -> TaskRows]
        /\ \A t \in Targets : task'[<<b, t>>] = req[r].plan[t]
        /\ \A c \in Batches, t \in Targets : c # b =>
             task'[<<c, t>>] = task[<<c, t>>]
    <3>1. ASSUME NEW x \in Batches \X Targets PROVE task'[x] \in TaskRows
      BY <1>1, <1>3 DEF TypeOK, Sound, Serving
    <3>2. task' = [x \in Batches \X Targets |-> task'[x]]
      BY <1>3
    <3>3. task' \in [Batches \X Targets -> TaskRows]
      BY <3>1, <3>2
    <3>. QED BY <1>3, <3>3
  <2>4. \A t \in Targets :
          \/ task'[<<b, t>>].st = "none"
          \/ /\ task'[<<b, t>>].st = "pending"
             /\ task'[<<b, t>>].from \in Images /\ task'[<<b, t>>].to \in Images
    BY <1>1, <2>3 DEF Sound, Planning, NoTask
  <2>5. \A t \in Targets :
          task[<<b, t>>].st = "none" /\ work[<<b, t>>].pc = "off"
    BY <2>1 DEF IndInv, Unused
  <2>6. /\ sched' \in [Batches ->
                        [pc : {"off", "load", "loop", "close", "exit"},
                         queue : [Targets -> Unfinished \cup {"none"}]]]
        /\ \A c \in Batches : c # b => sched'[c] = sched[c]
        /\ sched'[b].pc = "load"
    <3>1. sched[b].pc = "off"
      BY <2>1 DEF IndInv, Unused
    <3>2. [sched[b] EXCEPT !.pc = "load"].pc = "load"
      BY <1>1 DEF TypeOK
    <3>. QED BY <1>1, <1>3, <3>1, <3>2, Starts DEF Started, TypeOK
  <2>7. /\ req' \in [Requests -> Serving]
        /\ PlanKnown'
        /\ \A p \in Requests : req'[p].op \in {"cancel", "resume"} =>
             req'[p].b \in Batches /\ batch'[req'[p].b].st # "none"
    BY <1>1, <2>2, RequestsStay DEF CreateBatch, Answer
  <2>8. TypeOK'
    BY <1>1, <2>1, <2>2, <2>3, <2>6, <2>7 DEF TypeOK, Serving
  <2>9. Unused'
    <3>1. ASSUME NEW c \in Batches, batch'[c].st = "none"
          PROVE  /\ sched'[c].pc = "off"
                 /\ \A t \in Targets :
                      task'[<<c, t>>].st = "none" /\ work'[<<c, t>>].pc = "off"
      <4>1. c # b /\ batch[c].st = "none"
        BY <3>1, <2>2
      <4>2. /\ sched[c].pc = "off"
            /\ \A t \in Targets :
                 task[<<c, t>>].st = "none" /\ work[<<c, t>>].pc = "off"
        BY <4>1 DEF IndInv, Unused
      <4>3. sched'[c] = sched[c] /\ work' = work
        BY <4>1, <2>1, <2>6
      <4>. QED BY <4>1, <4>2, <4>3, <2>3
    <3>. QED BY <3>1, <2>7 DEF Unused
  <2>10. Waited'
    BY <2>1, <2>5, <2>6 DEF IndInv, Waited
  <2>11. AtRest'
    BY <2>1, <2>2, <2>3, <2>6 DEF IndInv, AtRest
  <2>12. Agreed'
    <3>1. \A t \in Targets : Settled(t)' => Settled(t)
      BY <2>3, <2>5 DEF Settled, InFlight
    <3>2. \A t \in Targets : Clean(t)' => Clean(t)
      BY <1>1, <2>1 DEF Clean
    <3>. QED BY <2>1, <3>1, <3>2 DEF IndInv, Agreed, Agreement
  <2>13. ASSUME NEW c \in Batches, NEW t \in Targets PROVE Row(c, t)'
    <3>0. Row(c, t)
      BY DEF IndInv, Rows
    <3>1. CASE c = b
      <4>1. work'[<<c, t>>].pc = "off" /\ sched'[c].pc # "loop"
        BY <2>1, <2>5, <2>6, <3>1
      <4>. QED BY <2>4, <3>1, <4>1
               DEF Row, QueueRow, PcRow, Known, DataRow, Applying, Restoring
    <3>2. CASE c # b
      <4>1. QueueRow(c, t)' /\ Known(c, t)'
        BY <2>1, <2>3, <2>6, <3>0, <3>2 DEF Row, QueueRow, Known
      <4>2. PcRow(c, t)'
        BY <1>1, <2>1, <2>3, <3>0, <3>2 DEF Row, PcRow
      <4>3. DataRow(c, t)'
        BY <1>1, <2>1, <2>3, <3>0, <3>2 DEF Row, DataRow, Clean
      <4>. QED BY <4>1, <4>2, <4>3 DEF Row
    <3>. QED BY <3>1, <3>2
  <2>. QED
    BY <1>1, <2>7, <2>8, <2>9, <2>10, <2>11, <2>12, <2>13 DEF IndInv, Rows
<1>. QED BY <1>2, <1>3 DEF CreateBatch

LEMMA ResumeKeeps ==
    ASSUME IndInv, NEW r \in Requests, Resume(r), Watch
    PROVE  IndInv'
<1>1. TypeOK /\ Sound(req[r]) /\ Sound(Idle)
      /\ raced \subseteq raced' /\ raced' \subseteq Sessions /\ Noticed'
  BY RequestsAreSound, IdleIsSound, WatchNotices, Marks DEF IndInv, Sound
<1>2. PICK b \in Batches : b = req[r].b /\ batch[b].st # "none"
  BY <1>1 DEF Resume, Sound
<1>3. UNCHANGED <<task, sess, reg, image, deploy, dflt, work, restarts, misread,
                  faults>>
  BY DEF Resume
<1>4. /\ batch' \in [Batches -> BatchRows]
      /\ batch'[b].st = "running"
      /\ \A c \in Batches : c # b => batch'[c] = batch[c]
  <2>. DEFINE row == [batch[b] EXCEPT !.st = "running"]
  <2>0. batch \in [Batches -> BatchRows] /\ batch[b] \in BatchRows
    BY <1>1 DEF TypeOK
  <2>1. row \in BatchRows /\ row.st = "running"
    BY <2>0 DEF BatchRows
  <2>2. batch' = [batch EXCEPT ![b] = row]
    BY <1>2 DEF Resume
  <2>. HIDE DEF row
  <2>. QED BY <2>0, <2>1, <2>2
<1>5. /\ sched' \in [Batches ->
                      [pc : {"off", "load", "loop", "close", "exit"},
                       queue : [Targets -> Unfinished \cup {"none"}]]]
      /\ \A c \in Batches :
           \/ sched'[c] = sched[c]
           \/ c = b /\ sched[c].pc = "off" /\ sched'[c].pc = "load"
  BY <1>1, <1>2, Starts DEF Resume
<1>6. /\ req' \in [Requests -> Serving]
      /\ PlanKnown'
      /\ \A p \in Requests : req'[p].op \in {"cancel", "resume"} =>
           req'[p].b \in Batches /\ batch'[req'[p].b].st # "none"
  BY <1>1, <1>4, RequestsStay DEF Resume, Answer
<1>7. TypeOK'
  BY <1>1, <1>3, <1>4, <1>5, <1>6 DEF TypeOK, Serving
<1>8. Unused'
  <2>1. ASSUME NEW c \in Batches, batch'[c].st = "none"
        PROVE  /\ sched'[c].pc = "off"
               /\ \A t \in Targets :
                    task'[<<c, t>>].st = "none" /\ work'[<<c, t>>].pc = "off"
    <3>1. c # b /\ batch[c].st = "none"
      BY <2>1, <1>4
    <3>2. /\ sched[c].pc = "off"
          /\ \A t \in Targets :
               task[<<c, t>>].st = "none" /\ work[<<c, t>>].pc = "off"
      BY <3>1 DEF IndInv, Unused
    <3>. QED BY <3>1, <3>2, <1>3, <1>5
  <2>. QED BY <2>1, <1>6 DEF Unused
<1>9. Waited'
  BY <1>3, <1>5 DEF IndInv, Waited
<1>10. AtRest'
  BY <1>3, <1>4, <1>5 DEF IndInv, AtRest
<1>11. Agreed'
  BY <1>1, <1>3 DEF IndInv, Agreed, Agreement, Clean, Settled
<1>12. ASSUME NEW c \in Batches, NEW t \in Targets PROVE Row(c, t)'
  <2>0. Row(c, t)
    BY DEF IndInv, Rows
  <2>1. QueueRow(c, t)' /\ Known(c, t)'
    BY <1>3, <1>5, <2>0 DEF Row, QueueRow, Known
  <2>2. PcRow(c, t)'
    BY <1>1, <1>3, <2>0 DEF Row, PcRow
  <2>3. DataRow(c, t)'
    BY <1>1, <1>3, <2>0 DEF Row, DataRow, Clean
  <2>. QED BY <2>1, <2>2, <2>3 DEF Row
<1>. QED BY <1>1, <1>6, <1>7, <1>8, <1>9, <1>10, <1>11, <1>12 DEF IndInv, Rows

\* Every step of a request keeps the invariant.
LEMMA RequestStepKeeps ==
    ASSUME IndInv, NEW r \in Requests, RequestStep(r), Watch
    PROVE  IndInv'
<1>1. CASE UserSupersede(r) \/ Cancel(r)
  BY <1>1, CancellingKeeps
<1>2. CASE \E b \in Batches : CreateBatch(r, b)
  BY <1>2, CreateKeeps
<1>3. CASE Resume(r)
  BY <1>3, ResumeKeeps
<1>4. CASE \/ \E ts \in SUBSET Targets, i \in Images : AdminLoad(r, ts, i)
           \/ AdminCheck(r)
           \/ \E s \in Sessions, ts \in SUBSET Targets, i \in Images :
                UserLoad(r, s, ts, i)
           \/ UserRestoring(r) \/ UserCheck(r)
           \/ \E b \in Batches : CancelLoad(r, b) \/ ResumeLoad(r, b)
           \/ ResumeCheck(r)
  BY <1>4, ReadersKeep
<1>. QED BY <1>1, <1>2, <1>3, <1>4 DEF RequestStep

----------------------------------------------------------------------------
(* Schedulers *)

\* What no scheduler touches; the rest is the scheduler's own business.
LEMMA SchedulerFrame ==
    ASSUME IndInv, NEW b \in Batches, SchedStep(b), Watch
    PROVE  /\ TypeOK
           /\ raced \subseteq raced' /\ raced' \subseteq Sessions /\ Noticed'
           /\ UNCHANGED <<task, sess, reg, image, deploy, dflt, req, restarts,
                          misread>>
           /\ PlanKnown' /\ Agreed'
           /\ \A c \in Batches, t \in Targets : Row(c, t)
           /\ \A c \in Batches, t \in Targets :
                work'[<<c, t>>] = work[<<c, t>>] =>
                  PcRow(c, t)' /\ Known(c, t)' /\ DataRow(c, t)'
<1>1. /\ TypeOK
      /\ raced \subseteq raced' /\ raced' \subseteq Sessions /\ Noticed'
      /\ \A c \in Batches, t \in Targets : Row(c, t)
  BY WatchNotices, Marks DEF IndInv, Rows
<1>2. UNCHANGED <<task, sess, reg, image, deploy, dflt, req, restarts, misread>>
  BY DEF SchedStep, SchedLoad, SchedCount, SchedClose, SchedExit, Dispatch
<1>3. PlanKnown'
  BY <1>2 DEF IndInv, PlanKnown
<1>4. Agreed'
  BY <1>1, <1>2 DEF IndInv, Agreed, Agreement, Clean, Settled
<1>5. ASSUME NEW c \in Batches, NEW t \in Targets,
             work'[<<c, t>>] = work[<<c, t>>]
      PROVE  PcRow(c, t)' /\ Known(c, t)' /\ DataRow(c, t)'
  <2>1. PcRow(c, t)'
    BY <1>1, <1>2, <1>5 DEF Row, PcRow
  <2>2. Known(c, t)'
    BY <1>1, <1>2, <1>5 DEF Row, Known
  <2>3. DataRow(c, t)'
    BY <1>1, <1>2, <1>5 DEF Row, DataRow, Clean
  <2>. QED BY <2>1, <2>2, <2>3
<1>. QED BY <1>1, <1>2, <1>3, <1>4, <1>5

\* The scheduler records of the type invariant.
Scheds == [pc : {"off", "load", "loop", "close", "exit"},
           queue : [Targets -> Unfinished \cup {"none"}]]

LEMMA SchedulerMoves ==
    ASSUME TypeOK, NEW b \in Batches, NEW row \in Scheds,
           sched' = [sched EXCEPT ![b] = row]
    PROVE  /\ sched' \in [Batches -> Scheds]
           /\ sched'[b] = row
           /\ \A c \in Batches : c # b => sched'[c] = sched[c]
  BY DEF TypeOK, Scheds

LEMMA SchedLoadKeeps ==
    ASSUME IndInv, NEW b \in Batches, SchedLoad(b), Watch
    PROVE  IndInv'
<1>1. SchedStep(b)
  BY DEF SchedStep
<1>2. TypeOK /\ sched[b].pc = "load" /\ UNCHANGED <<batch, work, faults>>
  BY DEF IndInv, SchedLoad
<1>. DEFINE row == [pc |-> "loop",
                    queue |-> [t \in Targets |->
                                 IF task[<<b, t>>].st \in Unfinished
                                 THEN task[<<b, t>>].st ELSE "none"]]
<1>3. /\ row \in Scheds /\ row.pc = "loop"
      /\ \A t \in Targets : row.queue[t] # "none" =>
           row.queue[t] = task[<<b, t>>].st /\ task[<<b, t>>].st \in Unfinished
  BY DEF Scheds
<1>4. sched' = [sched EXCEPT ![b] = row]
  BY DEF SchedLoad
<1>. HIDE DEF row
<1>5. /\ sched' \in [Batches -> Scheds]
      /\ sched'[b] = row
      /\ \A c \in Batches : c # b => sched'[c] = sched[c]
  BY <1>2, <1>3, <1>4, SchedulerMoves
<1>6. \A t \in Targets : work[<<b, t>>].pc = "off"
  BY <1>2 DEF IndInv, Waited
<1>7. TypeOK'
  BY <1>1, <1>2, <1>5, SchedulerFrame DEF TypeOK, Scheds
<1>8. Unused'
  <2>1. batch[b].st # "none"
    BY <1>2 DEF IndInv, Unused
  <2>. QED BY <2>1, <1>1, <1>2, <1>5, SchedulerFrame DEF IndInv, Unused
<1>9. Waited'
  BY <1>2, <1>5, <1>6 DEF IndInv, Waited
<1>10. AtRest'
  BY <1>1, <1>2, <1>3, <1>5, SchedulerFrame DEF IndInv, AtRest
<1>11. ASSUME NEW c \in Batches, NEW t \in Targets PROVE QueueRow(c, t)'
  <2>1. CASE c = b
    BY <2>1, <1>1, <1>2, <1>3, <1>5, <1>6, SchedulerFrame DEF QueueRow, Meaning
  <2>2. CASE c # b
    BY <2>2, <1>1, <1>2, <1>5, SchedulerFrame DEF Row, QueueRow
  <2>. QED BY <2>1, <2>2
<1>. QED BY <1>1, <1>2, <1>7, <1>8, <1>9, <1>10, <1>11, SchedulerFrame
         DEF IndInv, Rows, Row

\* SchedCount, SchedClose and SchedExit: no goroutine of the batch is left.
LEMMA SchedEndsKeep ==
    ASSUME IndInv, NEW b \in Batches, Watch,
           SchedCount(b) \/ SchedClose(b) \/ SchedExit(b)
    PROVE  IndInv'
<1>1. SchedStep(b) /\ TypeOK
  BY DEF SchedStep, IndInv
<1>2. work' = work /\ \A t \in Targets : work[<<b, t>>].pc = "off"
  BY DEF SchedCount, SchedClose, SchedExit, Busy, IndInv, Waited
<1>3. batch[b].st # "none"
  BY DEF IndInv, Unused, SchedCount, SchedClose, SchedExit
<1>4. PICK row \in Scheds :
        /\ sched' = [sched EXCEPT ![b] = row]
        /\ row.pc \in {"off", "exit", "close"}
        /\ row.pc = "close" =>
             \A t \in Targets : task[<<b, t>>].st \notin Unfinished
  <2>1. sched[b] \in Scheds
    BY <1>1 DEF TypeOK, Scheds
  <2>2. Stopped \in Scheds /\ Stopped.pc = "off"
    BY DEF Stopped, NoQueue, Scheds
  <2>3. ASSUME NEW pc \in {"exit", "close"}
        PROVE  [sched[b] EXCEPT !.pc = pc] \in Scheds
               /\ [sched[b] EXCEPT !.pc = pc].pc = pc
    BY <2>1 DEF Scheds
  <2>4. CASE SchedExit(b)
    BY <2>2, <2>4 DEF SchedExit
  <2>5. CASE SchedClose(b)
    <3>1. sched' = [sched EXCEPT ![b] = [sched[b] EXCEPT !.pc = "exit"]]
      BY <2>5 DEF SchedClose
    <3>. QED BY <2>3, <3>1
  <2>6. CASE SchedCount(b)
    <3>1. PICK pc \in {"exit", "close"} :
            /\ sched' = [sched EXCEPT ![b] = [sched[b] EXCEPT !.pc = pc]]
            /\ pc = "close" =>
                 \A t \in Targets : task[<<b, t>>].st \notin Unfinished
      BY <2>6 DEF SchedCount
    <3>. QED BY <2>3, <3>1
  <2>. QED BY <2>4, <2>5, <2>6
<1>5. /\ sched' \in [Batches -> Scheds]
      /\ sched'[b] = row
      /\ \A c \in Batches : c # b => sched'[c] = sched[c]
  BY <1>1, <1>4, SchedulerMoves
<1>6. /\ batch' \in [Batches -> BatchRows]
      /\ \A c \in Batches : c # b => batch'[c] = batch[c]
      /\ batch'[b].st \in {batch[b].st, "completed"} /\ batch'[b].st # "none"
      /\ batch'[b].st = "completed" =>
           /\ row.pc \in {"off", "exit"}
           /\ \A t \in Targets : task[<<b, t>>].st \notin Unfinished
  <2>. DEFINE done == [batch[b] EXCEPT !.st = "completed"]
  <2>0. batch \in [Batches -> BatchRows] /\ batch[b] \in BatchRows
    BY <1>1 DEF TypeOK
  <2>1. /\ batch \in [Batches -> BatchRows]
        /\ done \in BatchRows /\ done.st = "completed"
    BY <2>0 DEF BatchRows
  <2>. HIDE DEF done
  <2>2. CASE SchedClose(b)
    <3>1. \A t \in Targets : task[<<b, t>>].st \notin Unfinished
      BY <2>2 DEF SchedClose, IndInv, AtRest
    <3>2. batch' = batch \/ batch' = [batch EXCEPT ![b] = done]
      BY <2>2 DEF SchedClose, done
    <3>3. row.pc = "exit"
      <4>1. sched' = [sched EXCEPT ![b] = [sched[b] EXCEPT !.pc = "exit"]]
        BY <2>2 DEF SchedClose
      <4>. QED BY <1>1, <1>5, <4>1 DEF TypeOK
    <3>. QED BY <1>3, <2>1, <3>1, <3>2, <3>3
  <2>3. CASE SchedCount(b) \/ SchedExit(b)
    <3>1. batch' = batch
      BY <2>3 DEF SchedCount, SchedExit
    <3>2. CASE SchedCount(b)
      BY <1>3, <2>1, <3>1, <3>2 DEF SchedCount, IndInv, AtRest
    <3>3. CASE SchedExit(b)
      <4>1. row.pc = "off"
        BY <1>1, <1>5, <3>3 DEF SchedExit, TypeOK, Stopped
      <4>. QED BY <1>3, <2>1, <3>1, <4>1 DEF IndInv, AtRest
    <3>. QED BY <2>3, <3>2, <3>3
  <2>. QED BY <2>2, <2>3
<1>7. TypeOK'
  <2>1. faults' \in 0 .. MaxFaults
    BY <1>1, Counters DEF SchedCount, SchedClose, SchedExit
  <2>. QED BY <1>1, <1>2, <1>5, <1>6, <2>1, SchedulerFrame DEF TypeOK, Scheds
<1>8. Unused'
  <2>1. \A c \in Batches : batch'[c].st = "none" =>
          c # b /\ batch[c].st = "none" /\ sched'[c] = sched[c]
    BY <1>3, <1>5, <1>6
  <2>2. \A c \in Batches : batch[c].st # "none" => batch'[c].st # "none"
    BY <1>6
  <2>. QED BY <2>1, <2>2, <1>1, <1>2, SchedulerFrame DEF IndInv, Unused
<1>9. Waited'
  BY <1>2, <1>5 DEF IndInv, Waited
<1>10. AtRest'
  BY <1>1, <1>4, <1>5, <1>6, SchedulerFrame DEF IndInv, AtRest
<1>11. ASSUME NEW c \in Batches, NEW t \in Targets PROVE QueueRow(c, t)'
  BY <1>1, <1>2, <1>4, <1>5, SchedulerFrame DEF Row, QueueRow
<1>. QED BY <1>1, <1>2, <1>7, <1>8, <1>9, <1>10, <1>11, SchedulerFrame
         DEF IndInv, Rows, Row

LEMMA DispatchKeeps ==
    ASSUME IndInv, NEW b \in Batches, NEW t \in Targets, Dispatch(b, t), Watch
    PROVE  IndInv'
<1>1. SchedStep(b) /\ TypeOK
  BY DEF SchedStep, IndInv
<1>2. /\ sched[b].pc = "loop" /\ sched[b].queue[t] # "none"
      /\ batch' = batch /\ faults' = faults
  BY DEF Dispatch, IsNext
<1>3. /\ sched[b].queue[t] \in Unfinished
      /\ work[<<b, t>>].pc = "off"
      /\ task[<<b, t>>].st \in Meaning(sched[b].queue[t])
  BY <1>1, <1>2 DEF TypeOK, IndInv, Rows, Row, QueueRow
<1>4. PICK row \in Scheds :
        /\ sched' = [sched EXCEPT ![b] = row]
        /\ row.pc = "loop" /\ row.queue[t] = "none"
        /\ \A u \in Targets : u # t => row.queue[u] = sched[b].queue[u]
  <2>. DEFINE q == [sched[b].queue EXCEPT ![t] = "none"]
              row == [sched[b] EXCEPT !.queue = q]
  <2>1. sched[b] \in Scheds
    BY <1>1 DEF TypeOK, Scheds
  <2>2. /\ q \in [Targets -> Unfinished \cup {"none"}] /\ q[t] = "none"
        /\ \A u \in Targets : u # t => q[u] = sched[b].queue[u]
    BY <2>1 DEF Scheds
  <2>3. sched' = [sched EXCEPT ![b] = row]
    BY DEF Dispatch
  <2>4. row \in Scheds /\ row.pc = "loop" /\ row.queue = q
    <3>. HIDE DEF q
    <3>. QED BY <1>2, <2>1, <2>2 DEF Scheds
  <2>. HIDE DEF row, q
  <2>. QED BY <2>2, <2>3, <2>4
<1>5. /\ sched' \in [Batches -> Scheds]
      /\ sched'[b] = row
      /\ \A c \in Batches : c # b => sched'[c] = sched[c]
  BY <1>1, <1>4, SchedulerMoves
<1>6. /\ work' \in [Batches \X Targets -> [pc : Pcs, saw : TaskStates]]
      /\ \A c \in Batches, u \in Targets : <<c, u>> # <<b, t>> =>
           work'[<<c, u>>] = work[<<c, u>>]
      /\ work'[<<b, t>>] = work[<<b, t>>] \/ work'[<<b, t>>].pc = "load"
  <2>. DEFINE new == [pc |-> "load", saw |-> "none"]
  <2>1. /\ new \in [pc : Pcs, saw : TaskStates] /\ new.pc = "load"
        /\ work \in [Batches \X Targets -> [pc : Pcs, saw : TaskStates]]
    BY <1>1 DEF TypeOK, Pcs, TaskStates
  <2>2. work' = work \/ work' = [work EXCEPT ![<<b, t>>] = new]
    BY DEF Dispatch
  <2>. HIDE DEF new
  <2>. QED BY <2>1, <2>2
<1>7. TypeOK'
  BY <1>1, <1>2, <1>5, <1>6, SchedulerFrame DEF TypeOK, Scheds
<1>8. Unused'
  <2>1. batch[b].st # "none"
    BY <1>2 DEF IndInv, Unused
  <2>2. ASSUME NEW c \in Batches, batch'[c].st = "none"
        PROVE  /\ sched'[c].pc = "off"
               /\ \A u \in Targets :
                    task'[<<c, u>>].st = "none" /\ work'[<<c, u>>].pc = "off"
    <3>1. c # b /\ batch[c].st = "none" /\ sched'[c] = sched[c]
      BY <2>1, <2>2, <1>2, <1>5
    <3>2. \A u \in Targets : work'[<<c, u>>] = work[<<c, u>>]
      BY <3>1, <1>6
    <3>3. /\ sched[c].pc = "off"
          /\ \A u \in Targets :
               task[<<c, u>>].st = "none" /\ work[<<c, u>>].pc = "off"
      BY <3>1 DEF IndInv, Unused
    <3>. QED BY <3>1, <3>2, <3>3, <1>1, SchedulerFrame
  <2>. QED BY <2>2, <1>1, <1>2, SchedulerFrame DEF IndInv, Unused
<1>9. Waited'
  BY <1>4, <1>5, <1>6 DEF IndInv, Waited
<1>10. AtRest'
  BY <1>1, <1>2, <1>4, <1>5, SchedulerFrame DEF IndInv, AtRest
<1>11. ASSUME NEW c \in Batches, NEW u \in Targets PROVE Row(c, u)'
  <2>1. QueueRow(c, u)'
    BY <1>1, <1>2, <1>4, <1>5, <1>6, SchedulerFrame DEF Row, QueueRow
  <2>2. CASE work'[<<c, u>>] = work[<<c, u>>]
    BY <1>1, <2>1, <2>2, SchedulerFrame DEF Row
  <2>3. CASE c = b /\ u = t /\ work'[<<b, t>>].pc = "load"
    <3>1. task'[<<b, t>>].st \in Startable \cup {"none"}
      BY <1>1, <1>3, SchedulerFrame DEF Meaning, Startable, Unfinished, InFlight
    <3>2. PcRow(b, t)'
      BY <2>3, <3>1 DEF PcRow, Applying, Restoring
    <3>3. Known(b, t)'
      BY <1>1, <1>3, <2>3, SchedulerFrame DEF Row, Known
    <3>4. DataRow(b, t)'
      BY <2>3 DEF DataRow
    <3>. QED BY <2>1, <2>3, <3>2, <3>3, <3>4 DEF Row
  <2>. QED BY <1>6, <2>2, <2>3
<1>. QED BY <1>1, <1>7, <1>8, <1>9, <1>10, <1>11, SchedulerFrame
         DEF IndInv, Rows

\* Every step of a scheduler keeps the invariant.
LEMMA SchedStepKeeps ==
    ASSUME IndInv, NEW b \in Batches, SchedStep(b), Watch
    PROVE  IndInv'
  BY SchedLoadKeeps, SchedEndsKeep, DispatchKeeps DEF SchedStep

----------------------------------------------------------------------------
(* Sessions, and the end of the process *)

LEMMA SessionStepKeeps ==
    ASSUME IndInv, NEW s \in Sessions, SessionStep(s), Watch
    PROVE  IndInv'
<1>1. /\ TypeOK
      /\ raced \subseteq raced' /\ raced' \subseteq Sessions /\ Noticed'
  BY WatchNotices, Marks DEF IndInv
<1>2. UNCHANGED <<batch, image, dflt, sched, work, req, restarts, misread,
                  faults>>
  BY DEF SessionStep, RegistryCheck, RegistryEnable, RegistryDone, DeleteBegin,
         DeleteDeployments, DeleteRow
<1>3. /\ sess' \in [Sessions -> {"running", "deleting", "gone"}]
      /\ \A u \in Sessions : /\ sess[u] = "gone" => sess'[u] = "gone"
                             /\ sess'[u] = "running" => sess[u] = "running"
  BY <1>1 DEF SessionStep, RegistryCheck, RegistryEnable, RegistryDone,
              DeleteBegin, DeleteDeployments, DeleteRow, TypeOK
<1>4. reg' \in [Sessions -> {"idle", "counted", "enabling"}]
  BY <1>1 DEF SessionStep, RegistryCheck, RegistryEnable, RegistryDone,
              DeleteBegin, DeleteDeployments, DeleteRow, TypeOK
<1>5. /\ deploy' \in [Targets -> Images \cup {None}]
      /\ \A t \in Targets :
           sess[SessionOf[t]] = "running" => deploy'[t] = deploy[t]
  BY <1>1 DEF SessionStep, RegistryCheck, RegistryEnable, RegistryDone,
              DeleteBegin, DeleteDeployments, DeleteRow, TypeOK, TargetsOf
<1>6. /\ task' \in [Batches \X Targets -> TaskRows]
      /\ \A b \in Batches, t \in Targets :
           /\ task'[<<b, t>>].from = task[<<b, t>>].from
           /\ task'[<<b, t>>].to = task[<<b, t>>].to
           /\ \/ task'[<<b, t>>].st = task[<<b, t>>].st
              \/ task'[<<b, t>>].st = "none" /\ sess'[SessionOf[t]] = "gone"
  <2>1. CASE task' = task
    BY <1>1, <2>1 DEF TypeOK
  <2>2. CASE DeleteRow(s)
    <3>1. sess'[s] = "gone"
      BY <1>1, <2>2 DEF DeleteRow, TypeOK
    <3>2. ASSUME NEW x \in Batches \X Targets
          PROVE  /\ task'[x] \in TaskRows
                 /\ task'[x].from = task[x].from /\ task'[x].to = task[x].to
                 /\ \/ task'[x].st = task[x].st
                    \/ task'[x].st = "none" /\ SessionOf[x[2]] = s
      <4>. DEFINE row == [task[x] EXCEPT !.st = "none"]
      <4>1. task[x] \in TaskRows
        BY <1>1 DEF TypeOK
      <4>2. /\ row \in TaskRows /\ row.st = "none"
            /\ row.from = task[x].from /\ row.to = task[x].to
        BY <4>1 DEF TaskRows, TaskStates
      <4>3. \/ task'[x] = task[x]
            \/ task'[x] = row /\ SessionOf[x[2]] = s
        BY <2>2 DEF DeleteRow, TargetsOf
      <4>. HIDE DEF row
      <4>. QED BY <4>1, <4>2, <4>3
    <3>3. task' = [x \in Batches \X Targets |-> task'[x]]
      BY <2>2 DEF DeleteRow
    <3>. QED BY <3>1, <3>2, <3>3
  <2>. QED BY <2>1, <2>2
           DEF SessionStep, RegistryCheck, RegistryEnable, RegistryDone,
               DeleteBegin, DeleteDeployments
<1>7. TypeOK'
  BY <1>1, <1>2, <1>3, <1>4, <1>5, <1>6 DEF TypeOK
<1>8. PlanKnown'
  BY <1>2 DEF IndInv, PlanKnown
<1>9. Unused' /\ Waited'
  BY <1>2, <1>6 DEF IndInv, Unused, Waited
<1>10. AtRest'
  BY <1>2, <1>6 DEF IndInv, AtRest, Unfinished, InFlight
<1>11. \A t \in Targets : SessionOf[t] \in Sessions
  BY UpgradeAssumption DEF UpgradeAssumption
<1>12. \A t \in Targets : Clean(t)' => Clean(t)
  BY <1>1, <1>2, <1>3, <1>11 DEF Clean
<1>13. Agreed'
  <2>. SUFFICES ASSUME NEW t \in Targets, Clean(t)', Settled(t)'
                PROVE  deploy'[t] = image'[t]
    BY DEF Agreed, Agreement
  <2>1. Clean(t)
    BY <1>12
  <2>2. Settled(t)
    BY <1>6 DEF Settled, Clean
  <2>. QED BY <1>2, <1>5, <2>1, <2>2 DEF IndInv, Agreed, Agreement, Clean
<1>14. ASSUME NEW b \in Batches, NEW t \in Targets PROVE Row(b, t)'
  <2>1. Row(b, t)
    BY DEF IndInv, Rows
  <2>2. QueueRow(b, t)'
    <3>1. task'[<<b, t>>].st \in {task[<<b, t>>].st, "none"}
      BY <1>6
    <3>2. \A st : "none" \in Meaning(st)
      BY DEF Meaning
    <3>. QED BY <1>2, <2>1, <3>1, <3>2 DEF Row, QueueRow
  <2>3. Known(b, t)'
    BY <1>2, <1>6, <2>1 DEF Row, Known
  <2>4. PcRow(b, t)'
    BY <1>1, <1>2, <1>3, <1>6, <1>11, <2>1 DEF Row, PcRow, Meaning
  <2>5. DataRow(b, t)'
    BY <1>2, <1>5, <1>6, <1>12, <2>1 DEF Row, DataRow, Clean
  <2>. QED BY <2>2, <2>3, <2>4, <2>5 DEF Row
<1>. QED BY <1>1, <1>7, <1>8, <1>9, <1>10, <1>13, <1>14 DEF IndInv, Rows

LEMMA RestartKeeps ==
    ASSUME IndInv, Restart, Watch
    PROVE  IndInv'
<1>1. /\ TypeOK
      /\ raced \subseteq raced' /\ raced' \subseteq Sessions /\ Noticed'
  BY WatchNotices, Marks DEF IndInv
<1>2. UNCHANGED <<batch, task, sess, image, deploy, dflt, faults, misread>>
  BY DEF Restart
<1>3. /\ work' \in [Batches \X Targets -> [pc : Pcs, saw : TaskStates]]
      /\ \A b \in Batches, t \in Targets : work'[<<b, t>>].pc = "off"
  BY DEF Restart, Asleep, Pcs, TaskStates
<1>4. /\ req' \in [Requests -> Serving]
      /\ \A r \in Requests : req'[r] = Idle
  BY IdleIsSound DEF Restart
<1>5. /\ sched' \in [Batches -> Scheds]
      /\ \A b \in Batches :
           /\ sched'[b].pc \in {"off", "load"}
           /\ sched'[b].pc = "load" =>
                \/ batch[b].st = "running"
                \/ \E t \in Targets : task[<<b, t>>].st \in InFlight
  <2>. DEFINE load == [Stopped EXCEPT !.pc = "load"]
  <2>1. /\ Stopped \in Scheds /\ Stopped.pc = "off"
        /\ load \in Scheds /\ load.pc = "load"
    BY DEF Stopped, NoQueue, Scheds
  <2>2. sched' = [b \in Batches |->
                    IF \/ batch[b].st = "running"
                       \/ \E t \in Targets : task[<<b, t>>].st \in InFlight
                    THEN load ELSE Stopped]
    BY DEF Restart
  <2>. HIDE DEF load
  <2>. QED BY <2>1, <2>2
<1>6. TypeOK'
  <2>1. restarts' \in 0 .. MaxRestarts
    BY <1>1, UpgradeAssumption DEF UpgradeAssumption, Restart, TypeOK
  <2>2. reg' \in [Sessions -> {"idle", "counted", "enabling"}]
    BY <1>1 DEF Restart, TypeOK
  <2>. QED BY <1>1, <1>2, <1>3, <1>4, <1>5, <2>1, <2>2
           DEF TypeOK, Scheds, Serving
<1>7. PlanKnown'
  BY <1>4, IdleIsSound DEF PlanKnown, Planning
<1>8. Unused'
  <2>1. ASSUME NEW b \in Batches, batch'[b].st = "none"
        PROVE  /\ sched'[b].pc = "off"
               /\ \A t \in Targets :
                    task'[<<b, t>>].st = "none" /\ work'[<<b, t>>].pc = "off"
    <3>1. batch[b].st = "none" /\ \A t \in Targets : task[<<b, t>>].st = "none"
      BY <1>2, <2>1 DEF IndInv, Unused
    <3>. QED BY <1>2, <1>3, <1>5, <3>1 DEF InFlight
  <2>2. \A r \in Requests : req'[r].op \notin {"cancel", "resume"}
    BY <1>4, IdleIsSound
  <2>. QED BY <2>1, <2>2 DEF Unused
<1>9. Waited'
  BY <1>3 DEF Waited
<1>10. AtRest'
  BY <1>2, <1>5 DEF IndInv, AtRest, Unfinished
<1>11. Agreed'
  BY <1>1, <1>2 DEF IndInv, Agreed, Agreement, Clean, Settled
<1>12. ASSUME NEW b \in Batches, NEW t \in Targets PROVE Row(b, t)'
  <2>1. Row(b, t)
    BY DEF IndInv, Rows
  <2>2. QueueRow(b, t)'
    BY <1>5 DEF QueueRow
  <2>3. Known(b, t)'
    BY <1>2, <1>3, <2>1 DEF Row, Known
  <2>4. PcRow(b, t)' /\ DataRow(b, t)'
    BY <1>3 DEF PcRow, DataRow, Applying, Restoring
  <2>. QED BY <2>2, <2>3, <2>4 DEF Row
<1>. QED BY <1>1, <1>6, <1>7, <1>8, <1>9, <1>10, <1>11, <1>12 DEF IndInv, Rows

LEMMA StutterKeeps ==
    ASSUME IndInv, UNCHANGED vars
    PROVE  IndInv'
<1>1. TypeOK' /\ PlanKnown' /\ Unused' /\ Waited' /\ AtRest'
  BY DEF IndInv, vars, TypeOK, PlanKnown, Unused, Waited, AtRest
<1>2. Noticed' /\ Agreed'
  BY DEF IndInv, vars, Noticed, Overlap, BusyBatches, Agreed, Agreement, Clean,
         Settled
<1>3. Rows'
  <2>. SUFFICES ASSUME NEW b \in Batches, NEW t \in Targets PROVE Row(b, t)'
    BY DEF Rows
  <2>1. Row(b, t)
    BY DEF IndInv, Rows
  <2>2. QueueRow(b, t)' /\ Known(b, t)'
    BY <2>1 DEF Row, vars, QueueRow, Known
  <2>3. PcRow(b, t)'
    BY <2>1 DEF Row, vars, PcRow
  <2>4. DataRow(b, t)'
    BY <2>1 DEF Row, vars, DataRow, Clean
  <2>. QED BY <2>2, <2>3, <2>4 DEF Row
<1>. QED BY <1>1, <1>2, <1>3 DEF IndInv

----------------------------------------------------------------------------
(* Theorems *)

\* Rows, goroutines and requests of any size mean what the invariant says.
THEOREM UpgradeInvariant == Spec => []IndInv
<1>1. Init => IndInv
  BY InitInv
<1>2. IndInv /\ [Next]_vars => IndInv'
  <2>. SUFFICES ASSUME IndInv, [Next]_vars PROVE IndInv'
    OBVIOUS
  <2>1. CASE UNCHANGED vars
    BY <2>1, StutterKeeps
  <2>2. CASE Step /\ Watch
    BY <2>2, SchedStepKeeps, TaskStepKeeps, RequestStepKeeps, SessionStepKeeps,
       RestartKeeps DEF Step
  <2>. QED BY <2>1, <2>2 DEF Next
<1>. QED BY <1>1, <1>2, PTL DEF Spec

\* The runner and the handlers keep every row, goroutine and request within the
\* values of its type: a rollback never writes an unknown image, for one.
THEOREM UpgradeTypes == Spec => []TypeOK
<1>1. IndInv => TypeOK
  BY DEF IndInv
<1>. QED BY <1>1, UpgradeInvariant, PTL

\* Where no two changes overlapped, the image column says what the Deployment
\* runs once no task is in flight, whatever failed, was lost or was restarted.
THEOREM RecordedImages == Spec => []RecordedIsDeployed
<1>1. IndInv => RecordedIsDeployed
  BY DEF IndInv, Agreed, Agreement, Clean, Settled, RecordedIsDeployed
<1>. QED BY <1>1, UpgradeInvariant, PTL

\* finalize never completes a batch that has a task left.
THEOREM CompletedBatches == Spec => []CompletedIsDrained
<1>1. IndInv => CompletedIsDrained
  BY DEF IndInv, AtRest, CompletedIsDrained
<1>. QED BY <1>1, UpgradeInvariant, PTL

\* A step takes a rollback only to its end, or to the end of the row.
LEMMA OneWayStep ==
    ASSUME IndInv, Next, NEW b \in Batches, NEW t \in Targets,
           task[<<b, t>>].st = "rolling_back"
    PROVE  task'[<<b, t>>].st \notin {"pending", "running", "succeeded"}
<1>1. TypeOK /\ Row(b, t)
  BY Before
<1>2. CASE task'[<<b, t>>] = task[<<b, t>>]
  BY <1>2
<1>3. ASSUME NEW c \in Batches, NEW u \in Targets, TaskStep(c, u)
      PROVE  task'[<<b, t>>].st \notin {"pending", "running", "succeeded"}
  <2>1. CASE task' = task
    BY <2>1
  <2>2. ASSUME NEW st \in TaskStates, task' = WithStatus(c, u, st),
               \/ st \notin {"pending", "running", "succeeded"}
               \/ <<c, u>> # <<b, t>>
        PROVE  task'[<<b, t>>].st \notin {"pending", "running", "succeeded"}
    <3>1. /\ task[<<c, u>>].st = "none" => task'[<<c, u>>].st = "none"
          /\ task[<<c, u>>].st # "none" => task'[<<c, u>>].st = st
          /\ <<c, u>> # <<b, t>> => task'[<<b, t>>] = task[<<b, t>>]
      BY <1>1, <2>2, Statuses
    <3>2. CASE <<c, u>> # <<b, t>>
      BY <1>2, <3>1, <3>2
    <3>3. CASE <<c, u>> = <<b, t>>
      BY <2>2, <3>1, <3>3
    <3>. QED BY <3>2, <3>3
  <2>3. CASE MarkRunning(c, u)
    <3>1. <<c, u>> # <<b, t>>
      BY <1>1, <2>3 DEF Row, PcRow, MarkRunning, At, Meaning
    <3>. QED BY <2>1, <2>2, <2>3, <3>1
             DEF MarkRunning, TaskStates, Unfinished, InFlight
  <2>4. CASE Succeed(c, u)
    <3>1. <<c, u>> # <<b, t>>
      BY <1>1, <2>4 DEF Row, PcRow, Succeed, Settle, At, Applying
    <3>. QED BY <2>1, <2>2, <2>4, <3>1 DEF Succeed, Settle, TaskStates, Ended
  <2>5. CASE \/ Skip(c, u) \/ RolledBack(c, u)
             \/ RollbackLost(c, u) \/ FailTask(c, u)
    BY <2>1, <2>2, <2>5
       DEF Skip, RolledBack, RollbackLost, Settle, FailTask, TaskStates, Ended
  <2>6. CASE Undo(c, u)
    BY <2>1, <2>2, <2>6 DEF Undo, TaskStates, Unfinished, InFlight
  <2>7. CASE \/ TaskLoad(c, u) \/ SessionLoad(c, u) \/ FailBatch(c, u)
             \/ Patch(c, u) \/ Repatch(c, u) \/ Wait(c, u) \/ Rewait(c, u)
             \/ Record(c, u) \/ Rerecord(c, u)
    BY <2>1, <2>7
       DEF TaskLoad, SessionLoad, FailBatch, Patch, Repatch, SetImage, Wait,
           Rewait, WaitRollout, Record, Rerecord
  <2>. QED BY <1>3, <2>3, <2>4, <2>5, <2>6, <2>7 DEF TaskStep
<1>4. ASSUME NEW r \in Requests, RequestStep(r)
      PROVE  task'[<<b, t>>].st \notin {"pending", "running", "succeeded"}
  <2>1. CASE task' = task
    BY <2>1
  <2>2. ASSUME NEW B, Cancelling(B)
        PROVE  task'[<<b, t>>] = task[<<b, t>>]
    BY <2>2 DEF Cancelling
  <2>3. ASSUME NEW c \in Batches, CreateBatch(r, c)
        PROVE  task'[<<b, t>>] = task[<<b, t>>]
    <3>1. c # b
      BY <2>3 DEF CreateBatch, IndInv, Unused
    <3>. QED BY <2>3, <3>1 DEF CreateBatch
  <2>. QED BY <1>4, <1>2, <2>1, <2>2, <2>3
           DEF RequestStep, AdminLoad, AdminCheck, UserLoad, UserRestoring,
               UserSupersede, UserCheck, CancelLoad, ResumeLoad, Cancel,
               ResumeCheck, Resume
<1>5. ASSUME NEW s \in Sessions, SessionStep(s)
      PROVE  task'[<<b, t>>].st \notin {"pending", "running", "succeeded"}
  <2>1. CASE DeleteRow(s)
    <3>1. task[<<b, t>>] \in TaskRows
      BY <1>1 DEF TypeOK
    <3>2. [task[<<b, t>>] EXCEPT !.st = "none"].st = "none"
      BY <3>1 DEF TaskRows
    <3>3. \/ task'[<<b, t>>] = task[<<b, t>>]
          \/ task'[<<b, t>>] = [task[<<b, t>>] EXCEPT !.st = "none"]
      BY <2>1 DEF DeleteRow
    <3>. QED BY <1>2, <3>2, <3>3
  <2>. QED BY <1>5, <1>2, <2>1
           DEF SessionStep, RegistryCheck, RegistryEnable, RegistryDone,
               DeleteBegin, DeleteDeployments
<1>6. ASSUME NEW c \in Batches, SchedStep(c)
      PROVE  task'[<<b, t>>] = task[<<b, t>>]
  BY <1>6 DEF SchedStep, SchedLoad, SchedCount, SchedClose, SchedExit, Dispatch
<1>7. CASE Restart
  BY <1>2, <1>7 DEF Restart
<1>. QED BY <1>2, <1>3, <1>4, <1>5, <1>6, <1>7 DEF Next, Step

\* A saved rolling_back is never turned round: not by a second process, not by
\* a resumed batch, not by a goroutine that read the row before it was saved.
THEOREM RollbacksAreOneWay == Spec => RollbackIsOneWay
<1>1. IndInv /\ [Next]_vars =>
        [\A b \in Batches, t \in Targets :
            task[<<b, t>>].st = "rolling_back"
            => task'[<<b, t>>].st \notin
                 {"pending", "running", "succeeded"}]_vars
  BY OneWayStep
<1>. QED BY <1>1, UpgradeInvariant, PTL DEF Spec, RollbackIsOneWay

----------------------------------------------------------------------------
(* Fail-fast, for batches that work on one task at a time *)

\* A batch has at most one task goroutine.
Sole == \A b \in Batches, t \in Targets, u \in Targets :
            work[<<b, t>>].pc # "off" /\ work[<<b, u>>].pc # "off" => t = u

Waits == {"pending", "skipped"}

\* A pending task has a goroutine only while its batch runs; a skipped one only
\* as long as nothing but a cancellation stopped the batch.
Starting == \A b \in Batches, t \in Targets :
                /\ work[<<b, t>>].pc \in {"load", "session", "start"}
                /\ task[<<b, t>>].st \in Waits
                => \/ batch[b].st = "running"
                   \/ batch[b].st = "cancelled" /\ task[<<b, t>>].st = "skipped"

\* A cancellation leaves nothing pending.
Emptied == \A b \in Batches, t \in Targets :
               batch[b].st = "cancelled" => task[<<b, t>>].st # "pending"

\* A task step touches its own row only, and leaves none pending.
Frees(b, t) ==
    /\ task'[<<b, t>>].st = "pending" => task' = task
    /\ \A c \in Batches, u \in Targets : <<c, u>> # <<b, t>> =>
         task'[<<c, u>>] = task[<<c, u>>]

\* What a task step means for the starting of this and other tasks.
StartFrame(b, t) ==
    /\ work[<<b, t>>].pc # "off"
    /\ \A c \in Batches, u \in Targets : <<c, u>> # <<b, t>> =>
         work'[<<c, u>>] = work[<<c, u>>]
    /\ Frees(b, t)
    /\ work'[<<b, t>>].pc \in {"load", "session", "start"} =>
         /\ work[<<b, t>>].pc \in {"load", "session", "start"}
         /\ batch' = batch /\ task' = task
    /\ batch' = batch \/ batch' = Pausing(b)

LEMMA StartFrames ==
    ASSUME TypeOK, NEW b \in Batches, NEW t \in Targets, TaskStep(b, t)
    PROVE  StartFrame(b, t)
<1>1. ASSUME NEW st \in TaskStates \ {"pending"},
             task' = task \/ task' = WithStatus(b, t, st)
      PROVE  Frees(b, t)
  <2>1. CASE task[<<b, t>>].st # "none" /\ task' = WithStatus(b, t, st)
    <3>1. /\ task'[<<b, t>>].st = st
          /\ \A c \in Batches, u \in Targets : <<c, u>> # <<b, t>> =>
               task'[<<c, u>>] = task[<<c, u>>]
      BY <2>1, Statuses
    <3>. QED BY <3>1 DEF Frees
  <2>2. CASE task' = task
    BY <2>2 DEF Frees
  <2>3. CASE task[<<b, t>>].st = "none"
    BY <1>1, <2>2, <2>3 DEF WithStatus
  <2>. QED BY <1>1, <2>1, <2>2, <2>3
<1>2. ASSUME NEW pc \in Pcs, Goto(b, t, pc)
      PROVE  /\ work'[<<b, t>>].pc = pc
             /\ \A c \in Batches, u \in Targets : <<c, u>> # <<b, t>> =>
                  work'[<<c, u>>] = work[<<c, u>>]
  BY <1>2, Moves
<1>3. ASSUME End(b, t)
      PROVE  /\ work'[<<b, t>>].pc = "off"
             /\ \A c \in Batches, u \in Targets : <<c, u>> # <<b, t>> =>
                  work'[<<c, u>>] = work[<<c, u>>]
  BY <1>3, Ends
<1>4. ASSUME task' = task, batch' = batch, work[<<b, t>>].pc # "off",
             \/ End(b, t)
             \/ \E pc \in Pcs \ {"load", "session", "start"} : Goto(b, t, pc)
      PROVE  StartFrame(b, t)
  BY <1>2, <1>3, <1>4 DEF StartFrame, Frees
<1>5. ASSUME NEW st \in TaskStates \ {"pending"},
             task' = task \/ task' = WithStatus(b, t, st),
             batch' = batch \/ batch' = Pausing(b), work[<<b, t>>].pc # "off",
             \/ End(b, t)
             \/ \E pc \in Pcs \ {"load", "session", "start"} : Goto(b, t, pc)
      PROVE  StartFrame(b, t)
  <2>1. Frees(b, t)
    BY <1>1, <1>5
  <2>2. /\ work'[<<b, t>>].pc \notin {"load", "session", "start"}
        /\ \A c \in Batches, u \in Targets : <<c, u>> # <<b, t>> =>
             work'[<<c, u>>] = work[<<c, u>>]
    BY <1>2, <1>3, <1>5
  <2>. QED BY <1>5, <2>1, <2>2 DEF StartFrame
<1>6. CASE TaskLoad(b, t)
  <2>1. CASE End(b, t)
    BY <1>4, <1>6, <2>1 DEF TaskLoad, At
  <2>2. CASE work' = [work EXCEPT ![<<b, t>>] =
                        [pc |-> "session", saw |-> task[<<b, t>>].st]]
    <3>1. \A c \in Batches, u \in Targets : <<c, u>> # <<b, t>> =>
             work'[<<c, u>>] = work[<<c, u>>]
      BY <2>2 DEF TypeOK
    <3>. QED BY <1>6, <3>1 DEF TaskLoad, At, StartFrame, Frees
  <2>. QED BY <1>6, <2>1, <2>2 DEF TaskLoad
<1>7. CASE SessionLoad(b, t)
  <2>1. PICK pc \in Pcs : Goto(b, t, pc) \/ End(b, t)
    BY <1>7 DEF SessionLoad, Route, Pcs
  <2>2. \A c \in Batches, u \in Targets : <<c, u>> # <<b, t>> =>
           work'[<<c, u>>] = work[<<c, u>>]
    BY <1>2, <1>3, <2>1
  <2>. QED BY <1>7, <2>2 DEF SessionLoad, At, StartFrame, Frees
<1>8. CASE \/ Skip(b, t) \/ Succeed(b, t) \/ RolledBack(b, t)
           \/ RollbackLost(b, t) \/ FailTask(b, t) \/ FailBatch(b, t)
           \/ MarkRunning(b, t) \/ Undo(b, t)
  <2>1. PICK st \in TaskStates \ {"pending"} :
          task' = task \/ task' = WithStatus(b, t, st)
    BY <1>8 DEF Skip, Succeed, RolledBack, RollbackLost, Settle, FailTask,
                FailBatch, MarkRunning, Undo, TaskStates, Unfinished, InFlight,
                Ended
  <2>2. /\ batch' = batch \/ batch' = Pausing(b)
        /\ work[<<b, t>>].pc # "off"
    BY <1>8 DEF Skip, Succeed, RolledBack, RollbackLost, Settle, FailTask,
                FailBatch, MarkRunning, Undo, At
  <2>3. \/ End(b, t)
        \/ \E pc \in Pcs \ {"load", "session", "start"} : Goto(b, t, pc)
    BY <1>8 DEF Skip, Succeed, RolledBack, RollbackLost, Settle, FailTask,
                FailBatch, MarkRunning, Undo, Pcs
  <2>. QED BY <1>5, <2>1, <2>2, <2>3
<1>9. CASE \/ Patch(b, t) \/ Repatch(b, t) \/ Wait(b, t) \/ Rewait(b, t)
           \/ Record(b, t) \/ Rerecord(b, t)
  <2>1. task' = task /\ batch' = batch /\ work[<<b, t>>].pc # "off"
    BY <1>9 DEF Patch, Repatch, SetImage, Wait, Rewait, WaitRollout, Record,
                Rerecord, At
  <2>2. \E pc \in Pcs \ {"load", "session", "start"} : Goto(b, t, pc)
    BY <1>9 DEF Patch, Repatch, SetImage, Wait, Rewait, WaitRollout, Record,
                Rerecord, Pcs
  <2>. QED BY <1>4, <2>1, <2>2
<1>. QED BY <1>6, <1>7, <1>8, <1>9 DEF TaskStep

\* What StartingStep shows of every step.
StartingGoes == Sole' /\ Starting' /\ Emptied'

LEMMA StartingStep ==
    ASSUME Concurrency = 1, IsFiniteSet(Targets), IndInv,
           Sole, Starting, Emptied, Next
    PROVE  StartingGoes
<1>. USE DEF StartingGoes
<1>1. TypeOK
  BY DEF IndInv
<1>2. ASSUME work' = work, batch' = batch,
             \A b \in Batches, t \in Targets :
               task'[<<b, t>>].st \in Waits => task'[<<b, t>>] = task[<<b, t>>]
      PROVE  StartingGoes
  BY <1>2 DEF Sole, Starting, Emptied, Waits
<1>3. ASSUME NEW b \in Batches, NEW t \in Targets, TaskStep(b, t)
      PROVE  StartingGoes
  <2>1. StartFrame(b, t)
    BY <1>1, <1>3, StartFrames
  <2>2. Sole'
    BY <2>1 DEF Sole, StartFrame
  <2>3. ASSUME NEW c \in Batches, NEW u \in Targets,
               work'[<<c, u>>].pc \in {"load", "session", "start"},
               task'[<<c, u>>].st \in Waits
        PROVE  \/ batch'[c].st = "running"
               \/ batch'[c].st = "cancelled" /\ task'[<<c, u>>].st = "skipped"
    <3>1. CASE <<c, u>> = <<b, t>>
      BY <2>1, <2>3, <3>1 DEF StartFrame, Starting
    <3>2. CASE <<c, u>> # <<b, t>>
      <4>1. /\ work[<<c, u>>].pc \in {"load", "session", "start"}
            /\ task'[<<c, u>>] = task[<<c, u>>]
        BY <2>1, <2>3, <3>2 DEF StartFrame, Frees
      <4>2. c # b
        BY <2>1, <3>2, <4>1 DEF StartFrame, Sole
      <4>3. batch'[c] = batch[c]
        BY <1>1, <2>1, <4>2 DEF StartFrame, Pausing, TypeOK
      <4>. QED BY <2>3, <4>1, <4>3 DEF Starting
    <3>. QED BY <3>1, <3>2
  <2>4. ASSUME NEW c \in Batches, batch'[c].st = "cancelled"
        PROVE  batch[c].st = "cancelled"
    BY <1>1, <2>1, <2>4 DEF StartFrame, Pausing, TypeOK, BatchRows
  <2>5. Emptied'
    BY <2>1, <2>4 DEF Emptied, StartFrame, Frees
  <2>. QED BY <2>2, <2>3, <2>5 DEF Starting
<1>4. ASSUME NEW b \in Batches, NEW t \in Targets, Dispatch(b, t)
      PROVE  StartingGoes
  <2>1. batch' = batch /\ task' = task
    BY <1>4 DEF Dispatch
  <2>2. CASE work' = work
    BY <1>2, <2>1, <2>2
  <2>3. CASE /\ work' =
                  [work EXCEPT ![<<b, t>>] = [pc |-> "load", saw |-> "none"]]
             /\ sched[b].queue[t] # "pending" \/ batch[b].st = "running"
    <3>1. \A u \in Targets : work[<<b, u>>].pc = "off"
      <4>1. IsFiniteSet(Busy(b))
        BY FS_Subset DEF Busy
      <4>2. Cardinality(Busy(b)) = 0
        BY <1>4, <4>1, FS_CardinalityType DEF Dispatch
      <4>3. Busy(b) = {}
        BY <4>1, <4>2, FS_EmptySet
      <4>. QED BY <4>3 DEF Busy
    <3>2. /\ work'[<<b, t>>].pc = "load"
          /\ \A c \in Batches, u \in Targets : <<c, u>> # <<b, t>> =>
               work'[<<c, u>>] = work[<<c, u>>]
      BY <1>1, <2>3 DEF TypeOK
    <3>3. Sole'
      BY <3>1, <3>2 DEF Sole
    <3>4. task[<<b, t>>].st \in Waits => sched[b].queue[t] = "pending"
      <4>1. sched[b].queue[t] \in Unfinished
        BY <1>1, <1>4 DEF Dispatch, IsNext, TypeOK
      <4>. QED BY <1>4, <4>1
               DEF Dispatch, IsNext, IndInv, Rows, Row, QueueRow, Meaning,
                   Waits, Unfinished, InFlight
    <3>5. Starting'
      BY <2>1, <2>3, <3>2, <3>4 DEF Starting
    <3>6. Emptied'
      BY <2>1 DEF Emptied
    <3>. QED BY <3>3, <3>5, <3>6
  <2>. QED BY <1>4, <2>2, <2>3 DEF Dispatch
<1>5. ASSUME NEW b \in Batches, SchedClose(b)
      PROVE  StartingGoes
  <2>1. task' = task /\ work' = work
    BY <1>5 DEF SchedClose
  <2>2. \A t \in Targets : work[<<b, t>>].pc = "off"
    BY <1>5 DEF SchedClose, IndInv, Waited
  <2>3. \A c \in Batches : c # b => batch'[c] = batch[c]
    BY <1>1, <1>5 DEF SchedClose, TypeOK
  <2>4. batch'[b].st = "cancelled" => batch[b].st = "cancelled"
    BY <1>1, <1>5 DEF SchedClose, TypeOK, BatchRows
  <2>5. Sole' /\ Emptied'
    BY <2>1, <2>3, <2>4 DEF Sole, Emptied
  <2>6. Starting'
    BY <2>1, <2>2, <2>3 DEF Starting
  <2>. QED BY <2>5, <2>6
<1>6. ASSUME NEW r \in Requests, RequestStep(r)
      PROVE  StartingGoes
  <2>1. work' = work
    BY <1>6 DEF RequestStep, AdminLoad, AdminCheck, UserLoad, UserRestoring,
                UserSupersede, UserCheck, CreateBatch, CancelLoad, ResumeLoad,
                Cancel, ResumeCheck, Resume
  <2>2. CASE batch' = batch /\ task' = task
    BY <1>2, <2>1, <2>2
  <2>3. ASSUME NEW B, Cancelling(B) PROVE StartingGoes
    <3>1. ASSUME NEW c \in Batches, NEW u \in Targets
          PROVE  IF c \in B
                 THEN /\ batch'[c].st = "cancelled"
                      /\ task'[<<c, u>>].st = IF task[<<c, u>>].st = "pending"
                                              THEN "skipped"
                                              ELSE task[<<c, u>>].st
                 ELSE batch'[c] = batch[c] /\ task'[<<c, u>>] = task[<<c, u>>]
      <4>1. task[<<c, u>>] \in TaskRows /\ batch[c] \in BatchRows
        BY <1>1 DEF TypeOK
      <4>2. /\ [task[<<c, u>>] EXCEPT !.st = "skipped"].st = "skipped"
            /\ [batch[c] EXCEPT !.st = "cancelled"].st = "cancelled"
        BY <4>1 DEF TaskRows, BatchRows
      <4>3. /\ task'[<<c, u>>] =
                 IF c \in B /\ task[<<c, u>>].st = "pending"
                 THEN [task[<<c, u>>] EXCEPT !.st = "skipped"]
                 ELSE task[<<c, u>>]
            /\ batch'[c] = IF c \in B
                           THEN [batch[c] EXCEPT !.st = "cancelled"]
                           ELSE batch[c]
        BY <2>3 DEF Cancelling
      <4>. QED BY <4>2, <4>3
    <3>. QED BY <2>1, <3>1 DEF Sole, Starting, Emptied, Waits
  <2>4. ASSUME NEW b \in Batches, CreateBatch(r, b),
               batch' =
                 [batch EXCEPT ![b] = [st |-> "running", by |-> req[r].op]],
               task' = [x \in Batches \X Targets |->
                          IF x[1] = b THEN req[r].plan[x[2]] ELSE task[x]]
        PROVE  StartingGoes
    <3>1. batch'[b].st = "running"
      BY <1>1, <2>4 DEF TypeOK
    <3>2. \A c \in Batches, u \in Targets : c # b =>
            batch'[c] = batch[c] /\ task'[<<c, u>>] = task[<<c, u>>]
      BY <1>1, <2>4 DEF TypeOK
    <3>. QED BY <2>1, <3>1, <3>2 DEF Sole, Starting, Emptied
  <2>5. ASSUME Resume(r) PROVE StartingGoes
    <3>1. task' = task
      BY <2>5 DEF Resume
    <3>2. ASSUME NEW c \in Batches
          PROVE  batch'[c] = batch[c] \/ batch'[c].st = "running"
      <4>1. batch \in [Batches -> BatchRows] /\ batch[c] \in BatchRows
        BY <1>1 DEF TypeOK
      <4>2. [batch[c] EXCEPT !.st = "running"].st = "running"
        BY <4>1 DEF BatchRows
      <4>3. \/ batch'[c] = batch[c]
            \/ batch'[c] = [batch[c] EXCEPT !.st = "running"]
        BY <2>5, <4>1 DEF Resume
      <4>. QED BY <4>2, <4>3
    <3>3. Sole' /\ Emptied'
      BY <2>1, <3>1, <3>2 DEF Sole, Emptied
    <3>4. Starting'
      BY <2>1, <3>1, <3>2 DEF Starting
    <3>. QED BY <3>3, <3>4
  <2>6. CASE \E b \in Batches : CreateBatch(r, b)
    BY <2>2, <2>4, <2>6 DEF CreateBatch
  <2>7. CASE UserSupersede(r) \/ Cancel(r)
    BY <2>3, <2>7 DEF UserSupersede, Cancel
  <2>. QED BY <1>6, <2>2, <2>5, <2>6, <2>7
           DEF RequestStep, AdminLoad, AdminCheck, UserLoad, UserRestoring,
               UserCheck, CancelLoad, ResumeLoad, ResumeCheck
<1>7. ASSUME NEW s \in Sessions, SessionStep(s)
      PROVE  StartingGoes
  <2>1. work' = work /\ batch' = batch
    BY <1>7 DEF SessionStep, RegistryCheck, RegistryEnable, RegistryDone,
                DeleteBegin, DeleteDeployments, DeleteRow
  <2>2. CASE task' = task
    BY <1>2, <2>1, <2>2
  <2>3. CASE DeleteRow(s)
    <3>1. ASSUME NEW c \in Batches, NEW u \in Targets,
                 task'[<<c, u>>].st \in Waits
          PROVE  task'[<<c, u>>] = task[<<c, u>>]
      <4>1. task[<<c, u>>] \in TaskRows
        BY <1>1 DEF TypeOK
      <4>2. [task[<<c, u>>] EXCEPT !.st = "none"].st = "none"
        BY <4>1 DEF TaskRows
      <4>3. \/ task'[<<c, u>>] = [task[<<c, u>>] EXCEPT !.st = "none"]
            \/ task'[<<c, u>>] = task[<<c, u>>]
        BY <2>3 DEF DeleteRow
      <4>. QED BY <3>1, <4>2, <4>3 DEF Waits
    <3>. QED BY <1>2, <2>1, <3>1
  <2>. QED BY <1>7, <2>2, <2>3
           DEF SessionStep, RegistryCheck, RegistryEnable, RegistryDone,
               DeleteBegin, DeleteDeployments
<1>8. CASE Restart
  BY <1>8 DEF Restart, Asleep, Sole, Starting, Emptied
<1>9. ASSUME NEW b \in Batches, SchedLoad(b) \/ SchedCount(b) \/ SchedExit(b)
      PROVE  StartingGoes
  BY <1>2, <1>9 DEF SchedLoad, SchedCount, SchedExit
<1>. QED BY <1>3, <1>4, <1>5, <1>6, <1>7, <1>8, <1>9 DEF Next, Step, SchedStep

\* Only a goroutine past its two reads marks a row running.
LEMMA RunningStep ==
    ASSUME IndInv, Sole, Starting, Emptied, Next,
           NEW b \in Batches, NEW t \in Targets,
           task[<<b, t>>].st # "running", task'[<<b, t>>].st = "running"
    PROVE  \/ batch[b].st = "running"
           \/ /\ batch[b].st = "cancelled" /\ task[<<b, t>>].st = "skipped"
              /\ work[<<b, t>>].saw = "pending" /\ LastOf(b, t)
<1>1. TypeOK /\ Row(b, t)
  BY Before
<1>2. task'[<<b, t>>] # task[<<b, t>>]
  OBVIOUS
<1>3. ASSUME NEW c \in Batches, NEW u \in Targets, TaskStep(c, u)
      PROVE  <<c, u>> = <<b, t>> /\ MarkRunning(b, t)
  <2>1. ASSUME NEW st \in TaskStates \ {"running"}
        PROVE  task' # WithStatus(c, u, st)
    <3>. SUFFICES ASSUME task' = WithStatus(c, u, st) PROVE FALSE
      OBVIOUS
    <3>1. /\ task[<<c, u>>].st = "none" => task'[<<c, u>>].st = "none"
          /\ task[<<c, u>>].st # "none" => task'[<<c, u>>].st = st
          /\ <<c, u>> # <<b, t>> => task'[<<b, t>>] = task[<<b, t>>]
      BY <1>1, Statuses
    <3>2. CASE <<c, u>> # <<b, t>>
      BY <1>2, <3>1, <3>2
    <3>3. CASE <<c, u>> = <<b, t>>
      <4>1. c = b /\ u = t
        BY <3>3
      <4>. QED BY <3>1, <4>1
    <3>. QED BY <3>2, <3>3
  <2>2. CASE MarkRunning(c, u)
    <3>1. "running" \in TaskStates /\ task' = WithStatus(c, u, "running")
      BY <1>2, <2>2 DEF MarkRunning, TaskStates, Unfinished, InFlight
    <3>2. \A e \in Batches, v \in Targets : <<e, v>> # <<c, u>> =>
            task'[<<e, v>>] = task[<<e, v>>]
      BY <1>1, <3>1, Statuses
    <3>3. c = b /\ u = t
      BY <1>2, <3>2
    <3>. QED BY <2>2, <3>3
  <2>3. CASE \/ Skip(c, u) \/ Succeed(c, u) \/ RolledBack(c, u)
             \/ RollbackLost(c, u) \/ FailTask(c, u) \/ Undo(c, u)
    BY <1>2, <2>1, <2>3
       DEF Skip, Succeed, RolledBack, RollbackLost, Settle, FailTask, Undo,
           TaskStates, Unfinished, InFlight, Ended
  <2>4. CASE \/ TaskLoad(c, u) \/ SessionLoad(c, u) \/ FailBatch(c, u)
             \/ Patch(c, u) \/ Wait(c, u) \/ Record(c, u)
             \/ Repatch(c, u) \/ Rewait(c, u) \/ Rerecord(c, u)
    BY <1>2, <2>4
       DEF TaskLoad, SessionLoad, FailBatch, Patch, Repatch,
           SetImage, Wait, Rewait, WaitRollout, Record, Rerecord
  <2>. QED BY <1>3, <2>2, <2>3, <2>4 DEF TaskStep
<1>4. ASSUME NEW r \in Requests, RequestStep(r)
      PROVE  FALSE
  <2>1. ASSUME NEW B PROVE ~Cancelling(B)
    <3>. SUFFICES ASSUME Cancelling(B) PROVE FALSE
      OBVIOUS
    <3>1. [task[<<b, t>>] EXCEPT !.st = "skipped"].st = "skipped"
      BY <1>1 DEF TypeOK, TaskRows
    <3>2. \/ task'[<<b, t>>] = task[<<b, t>>]
          \/ task'[<<b, t>>] = [task[<<b, t>>] EXCEPT !.st = "skipped"]
      BY DEF Cancelling
    <3>. QED BY <3>1, <3>2
  <2>2. ASSUME NEW c \in Batches PROVE ~CreateBatch(r, c)
    <3>. SUFFICES ASSUME CreateBatch(r, c) PROVE FALSE
      OBVIOUS
    <3>1. req[r].plan[t].st # "running"
      BY DEF IndInv, PlanKnown, NoTask
    <3>2. task'[<<b, t>>] \in {task[<<b, t>>], req[r].plan[t]}
      BY DEF CreateBatch
    <3>. QED BY <1>2, <3>1, <3>2
  <2>3. ~UserSupersede(r) /\ ~Cancel(r)
    BY <2>1 DEF UserSupersede, Cancel
  <2>4. \/ \E ts \in SUBSET Targets, i \in Images : AdminLoad(r, ts, i)
        \/ \E s \in Sessions, ts \in SUBSET Targets, i \in Images :
             UserLoad(r, s, ts, i)
        \/ \E c \in Batches : CancelLoad(r, c) \/ ResumeLoad(r, c)
        \/ AdminCheck(r) \/ UserRestoring(r) \/ UserCheck(r)
        \/ ResumeCheck(r) \/ Resume(r)
    BY <1>4, <2>2, <2>3 DEF RequestStep
  <2>5. task' = task
    BY <2>4 DEF AdminLoad, AdminCheck, UserLoad, UserRestoring, UserCheck,
                CancelLoad, ResumeLoad, ResumeCheck, Resume
  <2>. QED BY <1>2, <2>5
<1>5. ASSUME NEW s \in Sessions, SessionStep(s)
      PROVE  FALSE
  <2>1. CASE DeleteRow(s)
    <3>1. [task[<<b, t>>] EXCEPT !.st = "none"].st = "none"
      BY <1>1 DEF TypeOK, TaskRows
    <3>2. \/ task'[<<b, t>>] = task[<<b, t>>]
          \/ task'[<<b, t>>] = [task[<<b, t>>] EXCEPT !.st = "none"]
      BY <2>1 DEF DeleteRow
    <3>. QED BY <3>1, <3>2
  <2>. QED BY <1>2, <1>5, <2>1
           DEF SessionStep, RegistryCheck, RegistryEnable, RegistryDone,
               DeleteBegin, DeleteDeployments
<1>6. ASSUME NEW c \in Batches PROVE ~SchedStep(c)
  BY <1>2 DEF SchedStep, SchedLoad, SchedCount, SchedClose, SchedExit, Dispatch
<1>7. ~Restart
  BY <1>2 DEF Restart
<1>8. MarkRunning(b, t)
  BY <1>3, <1>4, <1>5, <1>6, <1>7 DEF Next, Step
<1>9. work[<<b, t>>].pc = "start"
  BY <1>8 DEF MarkRunning, At
<1>10. task[<<b, t>>].st # "none"
  <2>. SUFFICES ASSUME task[<<b, t>>].st = "none" PROVE FALSE
    OBVIOUS
  <2>1. "running" \in TaskStates
    BY DEF TaskStates, Unfinished, InFlight
  <2>2. task' = WithStatus(b, t, "running") => task'[<<b, t>>].st = "none"
    BY <1>1, <2>1, Statuses
  <2>. QED BY <1>2, <1>8, <2>2 DEF MarkRunning
<1>11. /\ task[<<b, t>>].st \in Waits
       /\ task[<<b, t>>].st = "skipped" => work[<<b, t>>].saw = "pending"
  BY <1>1, <1>9, <1>10 DEF Row, PcRow, Meaning, Waits
<1>12. batch[b].st = "cancelled" => LastOf(b, t)
  BY <1>9 DEF LastOf, Sole, Emptied
<1>. QED BY <1>9, <1>11, <1>12 DEF Starting

\* One task at a time is what the handlers ask for (the column's default).  A
\* pause then reaches the batch before its next task is dispatched, and all a
\* cancellation between Dispatch and MarkRunning lets through is the task that
\* was dispatched: nothing of the batch starts after it.
THEOREM StoppedBatchIsNotFed ==
    ASSUME Concurrency = 1, IsFiniteSet(Targets)
    PROVE  Spec => StopsFeeding
<1>1. Init => Sole /\ Starting /\ Emptied
  BY DEF Init, Sole, Starting, Emptied, Asleep
<1>2. IndInv /\ Sole /\ Starting /\ Emptied /\ [Next]_vars =>
        Sole' /\ Starting' /\ Emptied'
  <2>1. CASE UNCHANGED vars
    BY <2>1 DEF vars, Sole, Starting, Emptied
  <2>2. CASE Next
    BY <2>2, StartingStep DEF StartingGoes
  <2>. QED BY <2>1, <2>2
<1>3. IndInv /\ Sole /\ Starting /\ Emptied /\ [Next]_vars =>
        [\A b \in Batches, t \in Targets :
            (task[<<b, t>>].st # "running" /\ task'[<<b, t>>].st = "running")
            => \/ batch[b].st = "running"
               \/ /\ batch[b].st = "cancelled" /\ task[<<b, t>>].st = "skipped"
                  /\ work[<<b, t>>].saw = "pending" /\ LastOf(b, t)]_vars
  BY RunningStep
<1>. QED BY <1>1, <1>2, <1>3, UpgradeInvariant, PTL DEF Spec, StopsFeeding

=============================================================================
