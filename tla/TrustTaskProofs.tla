--------------------------- MODULE TrustTaskProofs ---------------------------
(***************************************************************************)
(* The safety of the Trust Task endpoint for any set of documents, any     *)
(* number of executions and of troubles: a decision is final, an approved  *)
(* sign-in gives one session whatever is posted again, the document that   *)
(* took the reservation finds its answer, and one redeem waits at a time.  *)
(***************************************************************************)
EXTENDS TrustTask, FiniteSetTheorems, SequenceTheorems, TLAPS

-----------------------------------------------------------------------------
(* The inductive invariant *)

States == Open \cup Final \cup {"approved"}

Answers == {"none", "ok", "refused", "pending"}

Wallets == {d.by : d \in Docs} \cup {None}

Accounts == Bindings \cup {d.says : d \in Docs} \cup {None}

Rows ==
    [st : States, approver : Wallets, did : BOOLEAN, shown : BOOLEAN,
     binding : Accounts, poll : Docs \cup {None}, session : Nat]

Places ==
    {"idle", "load", "commit", "select", "go", "poll", "outcome", "answer"}

Executions ==
    [doc : Docs \cup {None}, pc : Places, row : Rows, says : Answers]

GuardRows ==
    [st : {"none", "executing", "completed"}, lapsed : BOOLEAN,
     answer : Answers]

SessionRows == [binding : Accounts, live : BOOLEAN]

Typed ==
    /\ flow \in Flows
    /\ guard \in [Docs -> GuardRows]
    /\ task \in [Slots -> Executions]
    /\ login \in Rows
    /\ sessions \in Seq(SessionRows)
    /\ active \subseteq Bindings
    /\ reservation \in Docs \cup {None}
    /\ troubles \in 0..MaxTroubles

\* An execution has a document, and where it answers it has an answer.
ExecutionFits(s) ==
    /\ (task[s].pc = "idle") <=> (task[s].doc = None)
    /\ task[s].pc = "answer" => task[s].says # "none"

\* A lease is of an execution; what is answered is completed.
GuardFits(d) ==
    /\ (guard[d].answer # "none") <=> (guard[d].st = "completed")
    /\ guard[d].lapsed => guard[d].st = "executing"

\* A wallet from the claim on, an identity from the proof on, the one session
\* from the redeem on.
RowFits ==
    /\ login.st = "pending" => login.approver = None
    /\ (login.st \in {"claimed", "identified", "approved", "consumed"}) =>
         login.approver # None
    /\ (login.st \in {"identified", "approved", "consumed"}) => login.did
    /\ login.st = "consumed" => (login.session = 1 /\ Len(sessions) = 1)
    /\ login.st # "consumed" => (login.session = 0 /\ Len(sessions) = 0)

\* While nothing goes wrong a document has one execution, under a live lease
\* or with its answer, and a redeem that waits holds the poll.
Undisturbed ==
    /\ \A s \in Slots : task[s].pc # "idle" =>
          /\ guard[task[s].doc].st # "none"
          /\ ~guard[task[s].doc].lapsed
    /\ \A s, t \in Slots :
          (task[s].pc # "idle" /\ task[s].doc = task[t].doc) => s = t
    /\ \A s \in Slots : task[s].pc = "poll" => login.poll = task[s].doc

IndInv ==
    /\ Typed
    /\ \A s \in Slots : ExecutionFits(s)
    /\ \A d \in Docs : GuardFits(d)
    /\ RowFits
    /\ ClaimIsAnswered
    /\ troubles = 0 => Undisturbed

-----------------------------------------------------------------------------
(* Steps of one execution *)

LEMMA NoneApart == None \notin Docs /\ \A d \in Docs : d.by # None
  BY TrustTaskAssumption

\* What no step may do to the row.
Course ==
    /\ login.st \in Final => login'.st = login.st
    /\ login.approver # None => login'.approver = login.approver
    /\ login'.st = "approved" => login.st \in {"identified", "approved"}

\* The step of an execution that goes on.
TaskGoes(s) ==
    /\ task' \in [Slots -> Executions]
    /\ \A t \in Slots \ {s} : task'[t] = task[t]
    /\ task'[s].doc = task[s].doc
    /\ task'[s].pc # "idle"
    /\ task'[s].pc = "answer" => task'[s].says # "none"

\* A row as a step may leave it, with the sessions.
RowGoes ==
    /\ login' \in Rows
    /\ sessions' \in Seq(SessionRows)
    /\ RowFits'
    /\ Course

\* Another execution's poll stays; the one begun is this execution's.
PollGoes(s) ==
    /\ login.poll \notin {None, task[s].doc} => login'.poll = login.poll
    /\ task'[s].pc = "poll" => login'.poll = task[s].doc

LEMMA Running ==
    ASSUME IndInv, NEW s \in Slots, task[s].pc # "idle"
    PROVE  task[s].doc \in Docs
  <1>1. task[s] \in Executions /\ ExecutionFits(s)
    BY DEF IndInv, Typed
  <1>. QED
    BY <1>1 DEF Executions, ExecutionFits

LEMMA GotoGoes ==
    ASSUME IndInv, NEW s \in Slots, task[s].pc # "idle",
           NEW pc \in Places \ {"idle", "answer"}, NEW row \in Rows,
           Goto(s, pc, row)
    PROVE  TaskGoes(s) /\ task'[s].pc = pc
  <1>1. task \in [Slots -> Executions]
    BY DEF IndInv, Typed
  <1>2. task' = [task EXCEPT ![s] = [task[s] EXCEPT !.pc = pc, !.row = row]]
    BY DEF Goto
  <1>. DEFINE new == [task[s] EXCEPT !.pc = pc, !.row = row]
  <1>3. new \in Executions /\ new.doc = task[s].doc /\ new.pc = pc
    BY <1>1 DEF Executions, Places
  <1>. HIDE DEF new
  <1>4. task' = [task EXCEPT ![s] = new]
    BY <1>2 DEF new
  <1>5. task' \in [Slots -> Executions] /\ task'[s] = new
    BY <1>1, <1>3, <1>4
  <1>6. \A t \in Slots \ {s} : task'[t] = task[t]
    BY <1>1, <1>4
  <1>. QED
    BY <1>3, <1>5, <1>6 DEF TaskGoes

LEMMA SaysGoes ==
    ASSUME IndInv, NEW s \in Slots, task[s].pc # "idle",
           NEW answer \in {"ok", "refused", "pending"}, Says(s, answer)
    PROVE  TaskGoes(s) /\ task'[s].pc = "answer" /\ task'[s].says = answer
  <1>1. task \in [Slots -> Executions]
    BY DEF IndInv, Typed
  <1>2. task' = [task EXCEPT ![s] =
                     [task[s] EXCEPT !.pc = "answer", !.says = answer]]
    BY DEF Says
  <1>. DEFINE new == [task[s] EXCEPT !.pc = "answer", !.says = answer]
  <1>3. /\ new \in Executions /\ new.doc = task[s].doc
        /\ new.pc = "answer" /\ new.says = answer
    BY <1>1 DEF Executions, Places, Answers
  <1>. HIDE DEF new
  <1>4. task' = [task EXCEPT ![s] = new]
    BY <1>2 DEF new
  <1>5. task' \in [Slots -> Executions] /\ task'[s] = new
    BY <1>1, <1>3, <1>4
  <1>6. \A t \in Slots \ {s} : task'[t] = task[t]
    BY <1>1, <1>4
  <1>. QED
    BY <1>3, <1>5, <1>6 DEF TaskGoes

\* An execution that goes on keeps the documents apart and its lease.
LEMMA StepOfOne ==
    ASSUME IndInv, NEW s \in Slots, task[s].pc # "idle",
           TaskGoes(s), RowGoes, PollGoes(s), UNCHANGED <<flow, guard>>,
           active' = active, reservation' = reservation,
           troubles' = troubles
    PROVE  IndInv' /\ Course
  <1>1. task[s].doc \in Docs
    BY Running
  <1>2. Typed'
    BY DEF IndInv, Typed, TaskGoes, RowGoes
  <1>3. ASSUME NEW t \in Slots PROVE ExecutionFits(t)'
    <2>1. CASE t = s
      BY <2>1, <1>1, NoneApart DEF ExecutionFits, TaskGoes
    <2>2. CASE t # s
      <3>1. task'[t] = task[t] /\ ExecutionFits(t)
        BY <2>2 DEF TaskGoes, IndInv
      <3>. QED
        BY <3>1 DEF ExecutionFits
    <2>. QED
      BY <2>1, <2>2
  <1>4. \A d \in Docs : GuardFits(d)'
    BY DEF IndInv, GuardFits
  <1>5. RowFits' /\ Course
    BY DEF RowGoes
  <1>6. ClaimIsAnswered'
    BY DEF IndInv, ClaimIsAnswered
  <1>7. ASSUME troubles' = 0 PROVE Undisturbed'
    <2>0. Undisturbed
      BY <1>7 DEF IndInv
    <2>1. \A t \in Slots : task'[t].doc = task[t].doc
      BY DEF TaskGoes
    <2>2. \A t \in Slots : task'[t].pc # "idle" => task[t].pc # "idle"
      BY DEF TaskGoes
    <2>3. ASSUME NEW t \in Slots, task'[t].pc = "poll"
          PROVE  login'.poll = task'[t].doc
      <3>1. CASE t = s
        BY <3>1, <2>1, <2>3 DEF PollGoes
      <3>2. CASE t # s
        <4>1. task'[t] = task[t] /\ task[t].pc = "poll"
          BY <3>2, <2>3 DEF TaskGoes
        <4>2. login.poll = task[t].doc /\ task[t].doc # task[s].doc
          BY <4>1, <3>2, <2>0 DEF Undisturbed
        <4>3. task[t].doc \in Docs
          BY <4>1, Running
        <4>. QED
          BY <4>1, <4>2, <4>3, NoneApart DEF PollGoes
      <3>. QED
        BY <3>1, <3>2
    <2>. QED
      BY <2>0, <2>1, <2>2, <2>3 DEF Undisturbed
  <1>. QED
    BY <1>2, <1>3, <1>4, <1>5, <1>6, <1>7 DEF IndInv

-----------------------------------------------------------------------------
(* What the steps write to the row *)

LEMMA RowStays ==
    ASSUME IndInv, UNCHANGED <<login, sessions>>
    PROVE  RowGoes
  BY DEF IndInv, Typed, RowGoes, RowFits, Course

\* Only the state changes, and not to one the row has no fields for.
LEMMA StateGoes ==
    ASSUME IndInv, NEW st \in States \ {"pending", "claimed", "consumed"},
           login' = [login EXCEPT !.st = st], sessions' = sessions,
           login.st \notin Final \/ st = login.st,
           st \in {"identified", "approved"} =>
               login.st \in {"identified", "approved"}
    PROVE  RowGoes /\ login'.poll = login.poll
  <1>1. login \in Rows /\ sessions \in Seq(SessionRows) /\ RowFits
    BY DEF IndInv, Typed
  <1>2. /\ login' \in Rows /\ login'.st = st
        /\ login'.approver = login.approver /\ login'.did = login.did
        /\ login'.session = login.session /\ login'.poll = login.poll
    BY <1>1 DEF Rows
  <1>3. RowFits'
    BY <1>1, <1>2 DEF RowFits, States, Final
  <1>. QED
    BY <1>1, <1>2, <1>3 DEF RowGoes, Course

\* A field other than those of the states changes.
LEMMA FieldGoes ==
    ASSUME IndInv, sessions' = sessions, login' \in Rows,
           login'.st = login.st, login'.approver = login.approver,
           login'.did = login.did, login'.session = login.session
    PROVE  RowGoes
  BY DEF IndInv, Typed, RowGoes, RowFits, Course

LEMMA PollField ==
    ASSUME NEW row \in Rows, NEW poll \in Docs \cup {None}, NEW new,
           new = [row EXCEPT !.poll = poll]
    PROVE  /\ new \in Rows /\ new.st = row.st /\ new.approver = row.approver
           /\ new.did = row.did /\ new.session = row.session
           /\ new.poll = poll
  BY DEF Rows

LEMMA ShownField ==
    ASSUME NEW row \in Rows, NEW new, new = [row EXCEPT !.shown = TRUE]
    PROVE  /\ new \in Rows /\ new.st = row.st /\ new.approver = row.approver
           /\ new.did = row.did /\ new.session = row.session
           /\ new.poll = row.poll
  BY DEF Rows

LEMMA BindingField ==
    ASSUME NEW row \in Rows, NEW binding \in Accounts, NEW new,
           new = [row EXCEPT !.binding = binding]
    PROVE  /\ new \in Rows /\ new.st = row.st /\ new.approver = row.approver
           /\ new.did = row.did /\ new.session = row.session
           /\ new.poll = row.poll
  BY DEF Rows

LEMMA StateField ==
    ASSUME NEW row \in Rows, NEW st \in States, NEW new,
           new = [row EXCEPT !.st = st]
    PROVE  /\ new \in Rows /\ new.st = st /\ new.approver = row.approver
           /\ new.did = row.did /\ new.session = row.session
           /\ new.poll = row.poll
  BY DEF Rows

\* An execution's step that leaves the poll and begins none.
LEMMA PollStays ==
    ASSUME NEW s \in Slots, login'.poll = login.poll, task'[s].pc # "poll"
    PROVE  PollGoes(s)
  BY DEF PollGoes

\* A refusal, or any answer that comes with an unchanged row.
LEMMA OnlySays ==
    ASSUME IndInv, NEW s \in Slots, task[s].pc # "idle",
           NEW answer \in {"ok", "refused", "pending"}, Says(s, answer),
           UNCHANGED <<flow, guard, login, sessions>>,
           active' = active, reservation' = reservation, troubles' = troubles
    PROVE  IndInv' /\ Course
  <1>1. TaskGoes(s) /\ task'[s].pc = "answer"
    BY SaysGoes
  <1>2. RowGoes
    BY RowStays
  <1>3. PollGoes(s)
    BY <1>1, PollStays
  <1>. QED
    BY <1>1, <1>2, <1>3, StepOfOne

LEMMA OnlyGoto ==
    ASSUME IndInv, NEW s \in Slots, task[s].pc # "idle",
           NEW pc \in {"load", "commit", "select", "go", "outcome"},
           NEW row \in Rows, Goto(s, pc, row),
           UNCHANGED <<flow, guard, login, sessions>>,
           active' = active, reservation' = reservation, troubles' = troubles
    PROVE  IndInv' /\ Course
  <1>1. TaskGoes(s) /\ task'[s].pc = pc
    BY GotoGoes DEF Places
  <1>2. RowGoes
    BY RowStays
  <1>3. PollGoes(s)
    BY <1>1, PollStays
  <1>. QED
    BY <1>1, <1>2, <1>3, StepOfOne

-----------------------------------------------------------------------------
(* The claim of a reservation and the sign-in's handlers *)

LEMMA StepVtaClaim ==
    ASSUME IndInv, NEW s \in Slots, VtaClaim(s)
    PROVE  IndInv' /\ Course
  <1>. DEFINE d == task[s].doc
  <1>0. task[s].pc # "idle"
    BY DEF VtaClaim, Handles
  <1>1. CASE reservation = None /\ guard[d].st = "executing"
    <2>1. d \in Docs
      BY <1>0, Running
    <2>2. guard \in [Docs -> GuardRows]
      BY DEF IndInv, Typed
    <2>. DEFINE new == [st |-> "completed", lapsed |-> FALSE, answer |-> "ok"]
    <2>3. new \in GuardRows /\ new.st = "completed" /\ ~new.lapsed
          /\ new.answer = "ok"
      BY DEF GuardRows, Answers
    <2>4. guard' = [guard EXCEPT ![d] = new] /\ reservation' = d
          /\ Says(s, "ok")
          /\ UNCHANGED <<flow, login, sessions, active, time, troubles>>
      BY <1>1 DEF VtaClaim, Recorded
    <2>. HIDE DEF new
    <2>5. guard' \in [Docs -> GuardRows] /\ guard'[d] = new
          /\ \A e \in Docs \ {d} : guard'[e] = guard[e]
      BY <2>1, <2>2, <2>3, <2>4
    <2>6. TaskGoes(s) /\ task'[s].pc = "answer"
      BY <1>0, <2>4, SaysGoes
    <2>. HIDE DEF d
    <2>7. Typed'
      BY <2>1, <2>4, <2>5, <2>6 DEF IndInv, Typed, TaskGoes
    <2>8. ASSUME NEW t \in Slots PROVE ExecutionFits(t)'
      <3>1. CASE t = s
        BY <3>1, <2>1, <2>6, NoneApart DEF ExecutionFits, TaskGoes, d
      <3>2. CASE t # s
        <4>1. task'[t] = task[t] /\ ExecutionFits(t)
          BY <3>2, <2>6 DEF TaskGoes, IndInv
        <4>. QED
          BY <4>1 DEF ExecutionFits
      <3>. QED
        BY <3>1, <3>2
    <2>9. ASSUME NEW e \in Docs PROVE GuardFits(e)'
      <3>1. CASE e = d
        BY <3>1, <2>3, <2>5 DEF GuardFits
      <3>2. CASE e # d
        BY <3>2, <2>5 DEF GuardFits, IndInv
      <3>. QED
        BY <3>1, <3>2
    <2>10. RowGoes
      BY <2>4, RowStays
    <2>11. ClaimIsAnswered'
      BY <2>3, <2>4, <2>5 DEF ClaimIsAnswered
    <2>12. ASSUME troubles' = 0 PROVE Undisturbed'
      <3>1. Undisturbed
        BY <2>4, <2>12 DEF IndInv
      <3>2. \A t \in Slots : /\ task'[t].doc = task[t].doc
                             /\ task'[t].pc # "idle" => task[t].pc # "idle"
                             /\ task'[t].pc = "poll" => task[t].pc = "poll"
        BY <1>0, <2>6 DEF TaskGoes
      <3>3. \A t \in Slots : task[t].pc # "idle" => task[t].doc \in Docs
        BY Running
      <3>4. \A t \in Slots : task'[t].pc # "idle" =>
               /\ guard'[task'[t].doc].st # "none"
               /\ ~guard'[task'[t].doc].lapsed
        BY <2>3, <2>5, <3>1, <3>2, <3>3 DEF Undisturbed
      <3>5. \A t, u \in Slots :
               (task'[t].pc # "idle" /\ task'[t].doc = task'[u].doc) => t = u
        BY <3>1, <3>2 DEF Undisturbed
      <3>6. \A t \in Slots : task'[t].pc = "poll" => login'.poll = task'[t].doc
        BY <3>1, <3>2, <2>4 DEF Undisturbed
      <3>. QED
        BY <3>4, <3>5, <3>6 DEF Undisturbed
    <2>. QED
      BY <2>7, <2>8, <2>9, <2>10, <2>11, <2>12 DEF IndInv, RowGoes
  <1>2. CASE ~(reservation = None /\ guard[d].st = "executing")
    <2>1. Says(s, "refused") /\ UNCHANGED <<reservation, guard>>
          /\ UNCHANGED <<flow, login, sessions, active, time, troubles>>
      BY <1>2 DEF VtaClaim
    <2>. QED
      BY <1>0, <2>1, OnlySays
  <1>. QED
    BY <1>1, <1>2

LEMMA StepOobClaim ==
    ASSUME IndInv, NEW s \in Slots, OobClaim(s)
    PROVE  IndInv' /\ Course
  <1>0. task[s].pc # "idle"
    BY DEF OobClaim, Handles
  <1>1. CASE login.st = "pending" /\ time.claim
    <2>1. /\ login' = [login EXCEPT !.st = "claimed", !.approver = By(s)]
          /\ Says(s, "ok")
          /\ UNCHANGED <<flow, guard, sessions, active, reservation, troubles>>
      BY <1>1 DEF OobClaim
    <2>2. TaskGoes(s) /\ task'[s].pc = "answer"
      BY <1>0, <2>1, SaysGoes
    <2>3. By(s) \in Wallets /\ By(s) # None
      BY <1>0, Running, NoneApart DEF By, Wallets
    <2>4. login \in Rows /\ RowFits /\ sessions \in Seq(SessionRows)
      BY DEF IndInv, Typed
    <2>5. /\ login' \in Rows /\ login'.st = "claimed"
          /\ login'.approver = By(s) /\ login'.session = login.session
          /\ login'.poll = login.poll
      BY <2>1, <2>3, <2>4 DEF Rows, States, Open
    <2>6. RowFits' /\ Course
      BY <1>1, <2>1, <2>3, <2>4, <2>5 DEF RowFits, Course, Final
    <2>7. RowGoes /\ PollGoes(s)
      BY <2>1, <2>2, <2>4, <2>5, <2>6, PollStays DEF RowGoes
    <2>. QED
      BY <1>0, <2>1, <2>2, <2>7, StepOfOne
  <1>2. CASE ~(login.st = "pending" /\ time.claim)
    <2>1. Says(s, "refused")
          /\ UNCHANGED <<flow, guard, login, sessions, active, reservation,
                         troubles>>
      BY <1>2 DEF OobClaim
    <2>. QED
      BY <1>0, <2>1, OnlySays
  <1>. QED
    BY <1>1, <1>2

\* A refusal that declines a request in the state it was read in.
LEMMA SaysDeclined ==
    ASSUME IndInv, NEW s \in Slots, task[s].pc # "idle",
           NEW from \in {"claimed", "identified"}, login' = Declined(from),
           Says(s, "refused"), UNCHANGED <<flow, guard, sessions>>,
           active' = active, reservation' = reservation, troubles' = troubles
    PROVE  IndInv' /\ Course
  <1>1. CASE login.st = from
    <2>1. login' = [login EXCEPT !.st = "declined"]
      BY <1>1 DEF Declined
    <2>2. RowGoes /\ login'.poll = login.poll
      BY <1>1, <2>1, StateGoes DEF States, Final, Open
    <2>3. TaskGoes(s) /\ task'[s].pc = "answer"
      BY SaysGoes
    <2>. QED
      BY <2>2, <2>3, PollStays, StepOfOne
  <1>2. CASE login.st # from
    <2>1. login' = login
      BY <1>2 DEF Declined
    <2>. QED
      BY <2>1, OnlySays
  <1>. QED
    BY <1>1, <1>2

LEMMA StepProveLoad ==
    ASSUME IndInv, NEW s \in Slots, ProveLoad(s)
    PROVE  IndInv' /\ Course
  <1>0. task[s].pc # "idle" /\ login \in Rows /\ active \subseteq Bindings
    BY DEF ProveLoad, Handles, IndInv, Typed
  <1>1. UNCHANGED <<flow, guard, sessions, active, reservation, troubles>>
    BY DEF ProveLoad
  <1>2. CASE Says(s, "refused") /\ UNCHANGED login
    BY <1>0, <1>1, <1>2, OnlySays
  <1>3. CASE login' = Declined("claimed") /\ Says(s, "refused")
    BY <1>0, <1>1, <1>3, SaysDeclined
  <1>4. CASE /\ active # {}
             /\ Goto(s, "commit", [login EXCEPT !.binding =
                          IF Cardinality(active) = 1
                          THEN CHOOSE b \in active : TRUE ELSE None])
             /\ UNCHANGED login
    <2>. DEFINE only == IF Cardinality(active) = 1
                        THEN CHOOSE b \in active : TRUE ELSE None
                row == [login EXCEPT !.binding = only]
    <2>1. only \in Accounts
      BY <1>0, <1>4 DEF Accounts
    <2>2. Goto(s, "commit", row)
      BY <1>4
    <2>. HIDE DEF only
    <2>3. row \in Rows
      BY <1>0, <2>1, BindingField
    <2>. HIDE DEF row
    <2>. QED
      BY <1>0, <1>1, <1>4, <2>2, <2>3, OnlyGoto
  <1>. QED
    BY <1>2, <1>3, <1>4 DEF ProveLoad

LEMMA StepProveCommit ==
    ASSUME IndInv, NEW s \in Slots, ProveCommit(s)
    PROVE  IndInv' /\ Course
  <1>0. /\ task[s].pc # "idle" /\ login \in Rows /\ RowFits
        /\ task[s].row \in Rows /\ sessions \in Seq(SessionRows)
    BY DEF ProveCommit, Handles, IndInv, Typed, Executions
  <1>1. UNCHANGED <<flow, guard, sessions, active, reservation, troubles>>
    BY DEF ProveCommit
  <1>2. CASE login.st = "claimed" /\ login.approver = By(s)
    <2>. DEFINE binding == IF task[s].row.binding = None THEN login.binding
                           ELSE task[s].row.binding
    <2>1. binding \in Accounts
      BY <1>0 DEF Rows
    <2>2. /\ login' = [login EXCEPT !.st = "identified", !.did = TRUE,
                                    !.binding = binding]
          /\ Says(s, "ok")
      BY <1>2 DEF ProveCommit
    <2>. HIDE DEF binding
    <2>3. /\ login' \in Rows /\ login'.st = "identified" /\ login'.did
          /\ login'.approver = login.approver
          /\ login'.session = login.session /\ login'.poll = login.poll
      BY <1>0, <2>1, <2>2 DEF Rows, States, Open
    <2>4. RowFits' /\ Course
      BY <1>0, <1>1, <1>2, <2>3 DEF RowFits, Course, Final
    <2>5. TaskGoes(s) /\ task'[s].pc = "answer"
      BY <1>0, <2>2, SaysGoes
    <2>6. RowGoes /\ PollGoes(s)
      BY <1>0, <1>1, <2>3, <2>4, <2>5, PollStays DEF RowGoes
    <2>. QED
      BY <1>0, <1>1, <2>5, <2>6, StepOfOne
  <1>3. CASE ~(login.st = "claimed" /\ login.approver = By(s))
    <2>1. Says(s, "refused") /\ UNCHANGED login
      BY <1>3 DEF ProveCommit
    <2>. QED
      BY <1>0, <1>1, <2>1, OnlySays
  <1>. QED
    BY <1>2, <1>3

LEMMA StepRespondLoad ==
    ASSUME IndInv, NEW s \in Slots, RespondLoad(s)
    PROVE  IndInv' /\ Course
  <1>0. task[s].pc # "idle" /\ login \in Rows
    BY DEF RespondLoad, Handles, IndInv, Typed
  <1>1. UNCHANGED <<flow, guard, sessions, active, reservation, troubles>>
    BY DEF RespondLoad
  <1>2. CASE Says(s, "refused") /\ UNCHANGED login
    BY <1>0, <1>1, <1>2, OnlySays
  <1>3. CASE login' = Declined("identified") /\ Says(s, "refused")
    BY <1>0, <1>1, <1>3, SaysDeclined
  <1>4. CASE Goto(s, "commit", login) /\ UNCHANGED login
    BY <1>0, <1>1, <1>4, OnlyGoto
  <1>. QED
    BY <1>2, <1>3, <1>4 DEF RespondLoad

LEMMA StepRespondCommit ==
    ASSUME IndInv, NEW s \in Slots, RespondCommit(s)
    PROVE  IndInv' /\ Course
  <1>0. task[s].pc # "idle" /\ login \in Rows
    BY DEF RespondCommit, Handles, IndInv, Typed
  <1>1. UNCHANGED <<flow, guard, sessions, active, reservation, troubles>>
    BY DEF RespondCommit
  <1>2. CASE login.st = "identified"
    <2>1. PICK st \in {"approved", "declined"} :
             login' = [login EXCEPT !.st = st] /\ Says(s, "ok")
      BY <1>2 DEF RespondCommit, Decision
    <2>2. RowGoes /\ login'.poll = login.poll
      BY <1>1, <1>2, <2>1, StateGoes DEF States, Final, Open
    <2>3. TaskGoes(s) /\ task'[s].pc = "answer"
      BY <1>0, <2>1, SaysGoes
    <2>. QED
      BY <1>0, <1>1, <2>2, <2>3, PollStays, StepOfOne
  <1>3. CASE login.st # "identified"
    <2>1. Says(s, "refused") /\ UNCHANGED login
      BY <1>3 DEF RespondCommit
    <2>. QED
      BY <1>0, <1>1, <2>1, OnlySays
  <1>. QED
    BY <1>2, <1>3

-----------------------------------------------------------------------------
(* The redeem and its poll *)

LEMMA StepRedeemLoad ==
    ASSUME IndInv, NEW s \in Slots, RedeemLoad(s)
    PROVE  IndInv' /\ Course
  <1>0. task[s].pc # "idle" /\ login \in Rows
    BY DEF RedeemLoad, Handles, IndInv, Typed
  <1>1. UNCHANGED <<flow, guard, login, sessions, active, reservation,
                    troubles>>
    BY DEF RedeemLoad, db
  <1>2. CASE Says(s, "refused")
    BY <1>0, <1>1, <1>2, OnlySays
  <1>3. CASE \E pc \in {"go", "select"} : Goto(s, pc, login)
    BY <1>0, <1>1, <1>3, OnlyGoto
  <1>. QED
    BY <1>2, <1>3 DEF RedeemLoad

LEMMA StepRedeemSelect ==
    ASSUME IndInv, NEW s \in Slots, RedeemSelect(s)
    PROVE  IndInv' /\ Course
  <1>. DEFINE pick == task[s].doc.says
  <1>0. /\ task[s].pc # "idle" /\ login \in Rows /\ task[s].row \in Rows
    BY DEF RedeemSelect, Handles, IndInv, Typed, Executions
  <1>1. UNCHANGED <<flow, guard, sessions, active, reservation, troubles>>
    BY DEF RedeemSelect
  <1>2. CASE login.st \in {"identified", "approved"}
    <2>1. pick \in Accounts
      BY <1>0, Running DEF Accounts
    <2>. DEFINE row == [task[s].row EXCEPT !.binding = pick]
    <2>2. login' = [login EXCEPT !.binding = pick] /\ Goto(s, "go", row)
      BY <1>2 DEF RedeemSelect
    <2>. HIDE DEF pick
    <2>3. row \in Rows
      BY <1>0, <2>1, BindingField
    <2>. HIDE DEF row
    <2>4. /\ login' \in Rows /\ login'.st = login.st
          /\ login'.approver = login.approver /\ login'.did = login.did
          /\ login'.session = login.session /\ login'.poll = login.poll
      BY <1>0, <2>1, <2>2, BindingField
    <2>5. RowGoes
      BY <1>1, <2>4, FieldGoes
    <2>6. TaskGoes(s) /\ task'[s].pc = "go"
      BY <1>0, <2>2, <2>3, GotoGoes DEF Places
    <2>. QED
      BY <1>0, <1>1, <2>4, <2>5, <2>6, PollStays, StepOfOne
  <1>3. CASE login.st \notin {"identified", "approved"}
    <2>1. Says(s, "refused") /\ UNCHANGED login
      BY <1>3 DEF RedeemSelect
    <2>. QED
      BY <1>0, <1>1, <2>1, OnlySays
  <1>. QED
    BY <1>2, <1>3

\* The row expires, or was no longer open, and the redeem answers it expired.
LEMMA GotoExpired ==
    ASSUME IndInv, NEW s \in Slots, task[s].pc # "idle", NEW known \in Rows,
           login' = Expired,
           Goto(s, "outcome", [known EXCEPT !.st = "expired"]),
           UNCHANGED <<flow, guard, sessions>>,
           active' = active, reservation' = reservation, troubles' = troubles
    PROVE  IndInv' /\ Course
  <1>. DEFINE row == [known EXCEPT !.st = "expired"]
  <1>1. row \in Rows
    BY StateField DEF States, Final
  <1>. HIDE DEF row
  <1>2. TaskGoes(s) /\ task'[s].pc = "outcome"
    BY <1>1, GotoGoes DEF Places, row
  <1>3. RowGoes /\ login'.poll = login.poll
    <2>1. CASE login.st \in Open
      <3>1. login' = [login EXCEPT !.st = "expired"]
        BY <2>1 DEF Expired
      <3>. QED
        BY <2>1, <3>1, StateGoes DEF States, Final, Open
    <2>2. CASE login.st \notin Open
      BY <2>2, RowStays DEF Expired
    <2>. QED
      BY <2>1, <2>2
  <1>. QED
    BY <1>2, <1>3, PollStays, StepOfOne

LEMMA StepRedeemGo ==
    ASSUME IndInv, NEW s \in Slots, RedeemGo(s)
    PROVE  IndInv' /\ Course
  <1>. DEFINE row == task[s].row
  <1>0. /\ task[s].pc # "idle" /\ login \in Rows /\ row \in Rows
    BY DEF RedeemGo, Handles, IndInv, Typed, Executions
  <1>1. UNCHANGED <<flow, guard, sessions, active, reservation, troubles>>
    BY DEF RedeemGo
  <1>2. CASE /\ login' = Expired
             /\ Goto(s, "outcome", [row EXCEPT !.st = "expired"])
    BY <1>0, <1>1, <1>2, GotoExpired
  <1>3. CASE \E known \in {row, login} :
                 Goto(s, "outcome", known) /\ UNCHANGED login
    BY <1>0, <1>1, <1>3, OnlyGoto
  <1>4. CASE Says(s, "pending") /\ UNCHANGED login
    BY <1>0, <1>1, <1>4, OnlySays
  <1>5. CASE /\ login.poll = None
             /\ login' = [login EXCEPT !.poll = task[s].doc]
             /\ Goto(s, "poll", row)
    <2>1. task[s].doc \in Docs
      BY <1>0, Running
    <2>2. /\ login' \in Rows /\ login'.st = login.st
          /\ login'.approver = login.approver /\ login'.did = login.did
          /\ login'.session = login.session /\ login'.poll = task[s].doc
      BY <1>0, <1>5, <2>1, PollField
    <2>3. RowGoes
      BY <1>1, <2>2, FieldGoes
    <2>4. TaskGoes(s)
      BY <1>0, <1>5, GotoGoes DEF Places
    <2>5. PollGoes(s)
      BY <1>5, <2>2 DEF PollGoes
    <2>. QED
      BY <1>0, <1>1, <2>3, <2>4, <2>5, StepOfOne
  <1>. QED
    BY <1>2, <1>3, <1>4, <1>5 DEF RedeemGo

LEMMA StepPollTick ==
    ASSUME IndInv, NEW s \in Slots, PollTick(s)
    PROVE  IndInv' /\ Course
  <1>0. task[s].pc # "idle" /\ login \in Rows
    BY DEF PollTick, Handles, IndInv, Typed
  <1>1. UNCHANGED <<flow, guard, sessions, active, reservation, troubles>>
    BY DEF PollTick
  <1>2. CASE /\ login' = Expired
             /\ Goto(s, "outcome", [login EXCEPT !.st = "expired"])
    BY <1>0, <1>1, <1>2, GotoExpired
  <1>3. CASE Goto(s, "outcome", login) /\ UNCHANGED login
    BY <1>0, <1>1, <1>3, OnlyGoto
  <1>. QED
    BY <1>2, <1>3 DEF PollTick

LEMMA StepPollEnds ==
    ASSUME IndInv, NEW s \in Slots, PollEnds(s)
    PROVE  IndInv' /\ Course
  <1>0. task[s].pc # "idle"
    BY DEF PollEnds, Handles
  <1>. QED
    BY <1>0, OnlySays DEF PollEnds, db

\* The poll of this document is given up.
LEMMA UnpolledGoes ==
    ASSUME IndInv, NEW d \in Docs, login' = Unpolled(d),
           sessions' = sessions
    PROVE  /\ RowGoes
           /\ login.poll # d => login'.poll = login.poll
  <1>0. login \in Rows
    BY DEF IndInv, Typed
  <1>1. CASE login.poll = d
    <2>1. login' = [login EXCEPT !.poll = None]
      BY <1>1 DEF Unpolled
    <2>2. /\ login' \in Rows /\ login'.st = login.st
          /\ login'.approver = login.approver /\ login'.did = login.did
          /\ login'.session = login.session
      BY <1>0, <2>1, PollField
    <2>. QED
      BY <1>1, <2>2, FieldGoes
  <1>2. CASE login.poll # d
    BY <1>2, RowStays DEF Unpolled
  <1>. QED
    BY <1>1, <1>2

LEMMA StepReleasePoll ==
    ASSUME IndInv, NEW s \in Slots, ReleasePoll(s)
    PROVE  IndInv' /\ Course
  <1>0. task[s].pc # "idle" /\ task[s].pc = "answer"
        /\ task \in [Slots -> Executions]
    BY DEF ReleasePoll, Handles, IndInv, Typed
  <1>1. UNCHANGED <<flow, guard, task, sessions, active, reservation, troubles>>
    BY DEF ReleasePoll
  <1>2. task[s].doc \in Docs /\ ExecutionFits(s)
    BY <1>0, Running DEF IndInv
  <1>3. /\ RowGoes
        /\ login.poll # task[s].doc => login'.poll = login.poll
    BY <1>1, <1>2, UnpolledGoes DEF ReleasePoll
  <1>4. TaskGoes(s)
    BY <1>0, <1>1, <1>2 DEF TaskGoes, ExecutionFits
  <1>5. PollGoes(s)
    BY <1>0, <1>1, <1>3 DEF PollGoes
  <1>. QED
    BY <1>0, <1>1, <1>3, <1>4, <1>5, StepOfOne

LEMMA StepRedeemOutcome ==
    ASSUME IndInv, NEW s \in Slots, RedeemOutcome(s)
    PROVE  IndInv' /\ Course
  <1>0. task[s].pc # "idle" /\ login \in Rows
    BY DEF RedeemOutcome, Handles, IndInv, Typed
  <1>1. UNCHANGED <<flow, guard, sessions, active, reservation, troubles>>
    BY DEF RedeemOutcome
  <1>2. PICK answer \in {"ok", "refused", "pending"} : Says(s, answer)
    BY DEF RedeemOutcome
  <1>3. TaskGoes(s) /\ task'[s].pc = "answer"
    BY <1>0, <1>2, SaysGoes
  <1>4. login' = login \/ login' = [login EXCEPT !.shown = TRUE]
    BY DEF RedeemOutcome
  <1>5. RowGoes /\ login'.poll = login.poll
    <2>1. CASE login' = login
      BY <1>1, <2>1, RowStays
    <2>2. CASE login' = [login EXCEPT !.shown = TRUE]
      <3>1. /\ login' \in Rows /\ login'.st = login.st
            /\ login'.approver = login.approver /\ login'.did = login.did
            /\ login'.session = login.session /\ login'.poll = login.poll
        BY <1>0, <2>2, ShownField
      <3>. QED
        BY <1>1, <3>1, FieldGoes
    <2>. QED
      BY <1>4, <2>1, <2>2
  <1>. QED
    BY <1>0, <1>1, <1>3, <1>5, PollStays, StepOfOne

LEMMA StepRedeemApproved ==
    ASSUME IndInv, NEW s \in Slots, RedeemApproved(s)
    PROVE  IndInv' /\ Course
  <1>0. /\ task[s].pc # "idle" /\ login \in Rows /\ RowFits
        /\ task[s].row \in Rows /\ sessions \in Seq(SessionRows)
    BY DEF RedeemApproved, Handles, IndInv, Typed, Executions
  <1>1. UNCHANGED <<flow, guard, active, reservation, troubles>>
    BY DEF RedeemApproved
  <1>2. CASE login.st = "approved" /\ NewSession(task[s].row.binding)
             /\ Says(s, "ok")
    <2>. DEFINE new == [binding |-> task[s].row.binding, live |-> TRUE]
    <2>1. new \in SessionRows
      BY <1>0 DEF SessionRows, Rows
    <2>2. /\ sessions' = Append(sessions, new)
          /\ login' = [login EXCEPT !.st = "consumed",
                                    !.session = Len(sessions) + 1]
      BY <1>2 DEF NewSession
    <2>. HIDE DEF new
    <2>3. sessions' \in Seq(SessionRows) /\ Len(sessions') = Len(sessions) + 1
      BY <1>0, <2>1, <2>2
    <2>4. Len(sessions) = 0
      BY <1>0, <1>2 DEF RowFits
    <2>5. login' = [login EXCEPT !.st = "consumed", !.session = 1]
      BY <2>2, <2>4
    <2>6. /\ login' \in Rows /\ login'.st = "consumed" /\ login'.session = 1
          /\ login'.approver = login.approver /\ login'.did = login.did
          /\ login'.poll = login.poll
      BY <1>0, <2>5 DEF Rows, States, Final
    <2>7. RowFits' /\ Course
      BY <1>0, <1>2, <2>3, <2>4, <2>6 DEF RowFits, Course, Final
    <2>8. TaskGoes(s) /\ task'[s].pc = "answer"
      BY <1>0, <1>2, SaysGoes
    <2>9. RowGoes /\ PollGoes(s)
      BY <2>3, <2>6, <2>7, <2>8, PollStays DEF RowGoes
    <2>. QED
      BY <1>0, <1>1, <2>8, <2>9, StepOfOne
  <1>3. CASE /\ \E answer \in {"ok", "refused"} : Says(s, answer)
             /\ UNCHANGED <<sessions, login>>
    BY <1>0, <1>1, <1>3, OnlySays
  <1>. QED
    BY <1>2, <1>3 DEF RedeemApproved

LEMMA StepCancelLoad ==
    ASSUME IndInv, NEW s \in Slots, CancelLoad(s)
    PROVE  IndInv' /\ Course
  <1>0. task[s].pc # "idle" /\ login \in Rows
    BY DEF CancelLoad, Handles, IndInv, Typed
  <1>1. UNCHANGED <<flow, guard, login, sessions, active, reservation,
                    troubles>>
    BY DEF CancelLoad, db
  <1>2. CASE \E answer \in {"ok", "refused"} : Says(s, answer)
    BY <1>0, <1>1, <1>2, OnlySays
  <1>3. CASE Goto(s, "commit", login)
    BY <1>0, <1>1, <1>3, OnlyGoto
  <1>. QED
    BY <1>2, <1>3 DEF CancelLoad

LEMMA StepCancelCommit ==
    ASSUME IndInv, NEW s \in Slots, CancelCommit(s)
    PROVE  IndInv' /\ Course
  <1>0. task[s].pc # "idle" /\ login \in Rows
    BY DEF CancelCommit, Handles, IndInv, Typed
  <1>1. UNCHANGED <<flow, guard, sessions, active, reservation, troubles>>
    BY DEF CancelCommit
  <1>2. CASE login.st \in Open \cup {"approved"}
    <2>1. login' = [login EXCEPT !.st = "cancelled"] /\ Says(s, "ok")
      BY <1>2 DEF CancelCommit
    <2>2. RowGoes /\ login'.poll = login.poll
      BY <1>1, <1>2, <2>1, StateGoes DEF States, Final, Open
    <2>3. TaskGoes(s) /\ task'[s].pc = "answer"
      BY <1>0, <2>1, SaysGoes
    <2>. QED
      BY <1>0, <1>1, <2>2, <2>3, PollStays, StepOfOne
  <1>3. CASE login.st \notin Open \cup {"approved"}
    <2>1. Says(s, "refused") /\ UNCHANGED login
      BY <1>3 DEF CancelCommit
    <2>. QED
      BY <1>0, <1>1, <2>1, OnlySays
  <1>. QED
    BY <1>2, <1>3

-----------------------------------------------------------------------------
(* The end of an execution *)

\* What the replay guard writes for document d: what it has answered stays.
GuardGoes(d) ==
    /\ guard' \in [Docs -> GuardRows]
    /\ \A e \in Docs \ {d} : guard'[e] = guard[e]
    /\ (guard'[d].answer # "none") <=> (guard'[d].st = "completed")
    /\ guard'[d].lapsed => guard'[d].st = "executing"
    /\ guard[d].st = "completed" => guard'[d] = guard[d]

LEMMA GuardWrite ==
    ASSUME IndInv, NEW d \in Docs, NEW new \in GuardRows,
           guard' = [guard EXCEPT ![d] = new],
           (new.answer # "none") <=> (new.st = "completed"),
           new.lapsed => new.st = "executing",
           guard[d].st = "completed" => new = guard[d]
    PROVE  GuardGoes(d) /\ guard'[d] = new
  <1>1. guard \in [Docs -> GuardRows]
    BY DEF IndInv, Typed
  <1>2. guard' \in [Docs -> GuardRows] /\ guard'[d] = new
    BY <1>1
  <1>. QED
    BY <1>1, <1>2 DEF GuardGoes

LEMMA RecordedGoes ==
    ASSUME IndInv, NEW d \in Docs, NEW answer \in Answers \ {"none"},
           guard' = [guard EXCEPT ![d] = Recorded(d, answer)]
    PROVE  GuardGoes(d)
  <1>1. guard[d] \in GuardRows /\ GuardFits(d)
    BY DEF IndInv, Typed
  <1>2. CASE guard[d].st = "executing"
    <2>. DEFINE new == [st |-> "completed", lapsed |-> FALSE,
                        answer |-> answer]
    <2>1. guard' = [guard EXCEPT ![d] = new]
      BY <1>2 DEF Recorded
    <2>2. /\ new \in GuardRows /\ new.st = "completed" /\ ~new.lapsed
          /\ new.answer = answer
      BY DEF GuardRows
    <2>. HIDE DEF new
    <2>. QED
      BY <1>2, <2>1, <2>2, GuardWrite
  <1>3. CASE guard[d].st # "executing"
    <2>1. guard' = [guard EXCEPT ![d] = guard[d]]
      BY <1>3 DEF Recorded
    <2>. QED
      BY <1>1, <2>1, GuardWrite DEF GuardFits
  <1>. QED
    BY <1>2, <1>3

LEMMA ReleasedGoes ==
    ASSUME IndInv, NEW d \in Docs,
           guard' = [guard EXCEPT ![d] = Released(d)]
    PROVE  GuardGoes(d)
  <1>1. guard[d] \in GuardRows /\ GuardFits(d)
    BY DEF IndInv, Typed
  <1>2. CASE guard[d].st = "executing"
    <2>1. guard' = [guard EXCEPT ![d] = Unclaimed]
      BY <1>2 DEF Released
    <2>2. /\ Unclaimed \in GuardRows /\ Unclaimed.st = "none"
          /\ ~Unclaimed.lapsed /\ Unclaimed.answer = "none"
      BY DEF GuardRows, Answers, Unclaimed
    <2>. QED
      BY <1>2, <2>1, <2>2, GuardWrite
  <1>3. CASE guard[d].st # "executing"
    <2>1. guard' = [guard EXCEPT ![d] = guard[d]]
      BY <1>3 DEF Released
    <2>. QED
      BY <1>1, <2>1, GuardWrite DEF GuardFits
  <1>. QED
    BY <1>2, <1>3

\* The answer on record is one of a completed document: it stays.
LEMMA ClaimStays ==
    ASSUME IndInv, NEW d \in Docs, GuardGoes(d), reservation' = reservation
    PROVE  ClaimIsAnswered' /\ \A e \in Docs : GuardFits(e)'
  <1>1. ASSUME NEW e \in Docs PROVE GuardFits(e)'
    <2>1. CASE e = d
      BY <2>1 DEF GuardGoes, GuardFits
    <2>2. CASE e # d
      <3>1. guard'[e] = guard[e] /\ GuardFits(e)
        BY <2>2 DEF GuardGoes, IndInv
      <3>. QED
        BY <3>1 DEF GuardFits
    <2>. QED
      BY <2>1, <2>2
  <1>2. ASSUME reservation # None
        PROVE  guard'[reservation].answer = "ok"
    <2>1. reservation \in Docs /\ guard[reservation].answer = "ok"
      BY <1>2 DEF IndInv, Typed, ClaimIsAnswered
    <2>2. guard[reservation].st = "completed"
      BY <2>1 DEF IndInv, GuardFits
    <2>. QED
      BY <2>1, <2>2 DEF GuardGoes
  <1>. QED
    BY <1>1, <1>2 DEF ClaimIsAnswered

LEMMA FreeFits ==
    /\ Free \in Executions /\ Free.doc = None /\ Free.pc = "idle"
    /\ Free.says = "none"
  <1>1. Request \in Rows
    BY DEF Request, Rows, States, Open, Wallets, Accounts
  <1>. QED
    BY <1>1 DEF Free, Executions, Places, Answers

LEMMA Ends ==
    ASSUME IndInv, NEW s \in Slots, task[s].pc # "idle",
           task' = [task EXCEPT ![s] = Free], GuardGoes(task[s].doc), RowGoes,
           flow' = flow, active' = active, reservation' = reservation,
           troubles' \in 0..MaxTroubles,
           troubles' = 0 => (troubles = 0 /\ login' = login)
    PROVE  IndInv' /\ Course
  <1>. DEFINE d == task[s].doc
  <1>1. task \in [Slots -> Executions] /\ d \in Docs
    BY Running DEF IndInv, Typed
  <1>2. task' \in [Slots -> Executions] /\ task'[s] = Free
        /\ \A t \in Slots \ {s} : task'[t] = task[t]
    BY <1>1, FreeFits
  <1>3. GuardGoes(d)
    OBVIOUS
  <1>. HIDE DEF d
  <1>4. Typed'
    BY <1>2, <1>3 DEF IndInv, Typed, GuardGoes, RowGoes
  <1>5. ASSUME NEW t \in Slots PROVE ExecutionFits(t)'
    <2>1. CASE t = s
      BY <2>1, <1>2, FreeFits DEF ExecutionFits
    <2>2. CASE t # s
      <3>1. task'[t] = task[t] /\ ExecutionFits(t)
        BY <2>2, <1>2 DEF IndInv
      <3>. QED
        BY <3>1 DEF ExecutionFits
    <2>. QED
      BY <2>1, <2>2
  <1>6. ClaimIsAnswered' /\ \A e \in Docs : GuardFits(e)'
    BY <1>1, <1>3, ClaimStays
  <1>7. RowFits' /\ Course
    BY DEF RowGoes
  <1>8. ASSUME troubles' = 0 PROVE Undisturbed'
    <2>0. Undisturbed /\ login' = login
      BY <1>8 DEF IndInv
    <2>1. ASSUME NEW t \in Slots, task'[t].pc # "idle"
          PROVE  /\ task'[t] = task[t] /\ t # s /\ task[t].doc \in Docs
                 /\ guard'[task[t].doc] = guard[task[t].doc]
      <3>1. t # s
        BY <2>1, <1>2, FreeFits
      <3>2. task'[t] = task[t]
        BY <3>1, <1>2
      <3>3. task[t].doc \in Docs
        BY <2>1, <3>2, Running
      <3>4. task[t].doc # d
        BY <2>0, <2>1, <3>1, <3>2 DEF Undisturbed, d
      <3>. QED
        BY <3>1, <3>2, <3>3, <3>4, <1>3 DEF GuardGoes
    <2>2. \A t \in Slots : task'[t].pc # "idle" =>
             /\ guard'[task'[t].doc].st # "none"
             /\ ~guard'[task'[t].doc].lapsed
      BY <2>0, <2>1 DEF Undisturbed
    <2>3. ASSUME NEW t \in Slots, NEW u \in Slots,
                 task'[t].pc # "idle", task'[t].doc = task'[u].doc
          PROVE  t = u
      <3>1. task'[t] = task[t] /\ task[t].doc \in Docs
        BY <2>1, <2>3
      <3>2. u # s
        BY <2>3, <3>1, <1>2, FreeFits, NoneApart
      <3>3. task'[u] = task[u]
        BY <3>2, <1>2
      <3>. QED
        BY <2>0, <2>3, <3>1, <3>3 DEF Undisturbed
    <2>4. \A t \in Slots : task'[t].pc = "poll" => login'.poll = task'[t].doc
      BY <2>0, <2>1 DEF Undisturbed
    <2>. QED
      BY <2>2, <2>3, <2>4 DEF Undisturbed
  <1>. QED
    BY <1>4, <1>5, <1>6, <1>7, <1>8 DEF IndInv

LEMMA StepAnswer ==
    ASSUME IndInv, NEW s \in Slots, Answer(s)
    PROVE  IndInv' /\ Course
  <1>0. /\ task[s].pc # "idle" /\ task[s].pc = "answer"
        /\ task[s] \in Executions /\ ExecutionFits(s)
        /\ troubles \in 0..MaxTroubles
    BY DEF Answer, IndInv, Typed
  <1>1. task[s].doc \in Docs /\ task[s].says \in Answers \ {"none"}
    BY <1>0, Running DEF ExecutionFits, Executions
  <1>2. /\ task' = [task EXCEPT ![s] = Free]
        /\ UNCHANGED <<flow, login, sessions, active, reservation, troubles>>
    BY DEF Answer, db
  <1>3. GuardGoes(task[s].doc)
    BY <1>1, RecordedGoes, ReleasedGoes DEF Answer
  <1>4. RowGoes
    BY <1>2, RowStays
  <1>. QED
    BY <1>0, <1>2, <1>3, <1>4, Ends

LEMMA TroubleCounts ==
    ASSUME IndInv, Trouble
    PROVE  troubles' \in 0..MaxTroubles /\ troubles' # 0
  BY TrustTaskAssumption DEF IndInv, Typed, Trouble

LEMMA StepDie ==
    ASSUME IndInv, NEW s \in Slots, Die(s)
    PROVE  IndInv' /\ Course
  <1>. DEFINE d == task[s].doc
  <1>0. /\ task[s].pc # "idle" /\ guard \in [Docs -> GuardRows]
    BY DEF Die, IndInv, Typed
  <1>1. d \in Docs /\ GuardFits(d)
    BY <1>0, Running DEF IndInv
  <1>2. /\ task' = [task EXCEPT ![s] = Free]
        /\ UNCHANGED <<flow, sessions, active, reservation>>
        /\ troubles' \in 0..MaxTroubles /\ troubles' # 0
    BY TroubleCounts DEF Die
  <1>3. CASE UNCHANGED <<guard, login>>
    <2>1. GuardGoes(d)
      BY <1>0, <1>1, <1>3 DEF GuardGoes, GuardFits
    <2>2. RowGoes
      BY <1>2, <1>3, RowStays
    <2>. QED
      BY <1>0, <1>2, <2>1, <2>2, Ends
  <1>4. CASE guard' = [guard EXCEPT ![d] = Released(d)] /\ login' = Unpolled(d)
    <2>1. GuardGoes(d)
      BY <1>1, <1>4, ReleasedGoes
    <2>2. RowGoes
      BY <1>1, <1>2, <1>4, UnpolledGoes
    <2>. QED
      BY <1>0, <1>2, <2>1, <2>2, Ends
  <1>. QED
    BY <1>3, <1>4 DEF Die

-----------------------------------------------------------------------------
(* The guard and the surroundings *)

LEMMA StepClaim ==
    ASSUME IndInv, NEW s \in Slots, NEW d \in Docs, Claim(s, d)
    PROVE  IndInv' /\ Course
  <1>. DEFINE new == [guard[d] EXCEPT !.st = "executing", !.lapsed = FALSE]
              run == [Free EXCEPT !.doc = d, !.pc = "load"]
  <1>1. /\ task[s].pc = "idle" /\ task \in [Slots -> Executions]
        /\ guard \in [Docs -> GuardRows] /\ GuardFits(d)
        /\ guard[d].st \in {"none", "executing"}
        /\ guard[d].st = "none" \/ guard[d].lapsed
        /\ UNCHANGED <<flow, login, sessions, active, reservation, troubles>>
    BY DEF Claim, IndInv, Typed, db
  <1>2. guard' = [guard EXCEPT ![d] = new]
    BY <1>1 DEF Claim, GuardRows
  <1>3. /\ new \in GuardRows /\ new.st = "executing" /\ ~new.lapsed
        /\ new.answer = guard[d].answer
    BY <1>1 DEF GuardRows
  <1>4. new.answer = "none"
    BY <1>1, <1>3 DEF GuardFits
  <1>. HIDE DEF new
  <1>5. GuardGoes(d) /\ guard'[d] = new
    BY <1>1, <1>2, <1>3, <1>4, GuardWrite
  <1>6. run \in Executions /\ run.doc = d /\ run.pc = "load"
        /\ run.says = "none"
    BY FreeFits DEF Executions, Places
  <1>7. task' = [task EXCEPT ![s] = run]
    BY DEF Claim, Execute
  <1>. HIDE DEF run
  <1>8. task' \in [Slots -> Executions] /\ task'[s] = run
        /\ \A t \in Slots \ {s} : task'[t] = task[t]
    BY <1>1, <1>6, <1>7
  <1>9. Typed'
    BY <1>1, <1>5, <1>8 DEF IndInv, Typed, GuardGoes
  <1>10. ASSUME NEW t \in Slots PROVE ExecutionFits(t)'
    <2>1. CASE t = s
      BY <2>1, <1>6, <1>8, NoneApart DEF ExecutionFits
    <2>2. CASE t # s
      <3>1. task'[t] = task[t] /\ ExecutionFits(t)
        BY <2>2, <1>8 DEF IndInv
      <3>. QED
        BY <3>1 DEF ExecutionFits
    <2>. QED
      BY <2>1, <2>2
  <1>11. ClaimIsAnswered' /\ \A e \in Docs : GuardFits(e)'
    BY <1>1, <1>5, ClaimStays
  <1>12. RowFits' /\ Course
    BY <1>1, RowStays DEF RowGoes
  <1>13. ASSUME troubles' = 0 PROVE Undisturbed'
    <2>0. Undisturbed
      BY <1>1, <1>13 DEF IndInv
    <2>1. ASSUME NEW t \in Slots, t # s, task[t].pc # "idle"
          PROVE  /\ task[t].doc \in Docs /\ task[t].doc # d
                 /\ guard'[task[t].doc] = guard[task[t].doc]
      <3>1. task[t].doc \in Docs
        BY <2>1, Running
      <3>2. task[t].doc # d
        BY <1>1, <2>0, <2>1 DEF Undisturbed
      <3>. QED
        BY <3>1, <3>2, <1>5 DEF GuardGoes
    <2>2. ASSUME NEW t \in Slots, t # s, task[t].pc = "idle"
          PROVE  task[t].doc = None
      BY <2>2 DEF IndInv, ExecutionFits
    <2>3. ASSUME NEW t \in Slots, task'[t].pc # "idle"
          PROVE  /\ guard'[task'[t].doc].st # "none"
                 /\ ~guard'[task'[t].doc].lapsed
      <3>1. CASE t = s
        BY <3>1, <1>3, <1>5, <1>6, <1>8
      <3>2. CASE t # s
        BY <3>2, <2>0, <2>1, <2>3, <1>8 DEF Undisturbed
      <3>. QED
        BY <3>1, <3>2
    <2>4. ASSUME NEW t \in Slots, NEW u \in Slots,
                 task'[t].pc # "idle", task'[t].doc = task'[u].doc
          PROVE  t = u
      <3>1. CASE t = s /\ u # s
        <4>1. task[u].doc = d
          BY <3>1, <2>4, <1>6, <1>8
        <4>. QED
          BY <3>1, <4>1, <2>1, <2>2, NoneApart
      <3>2. CASE t # s /\ u = s
        <4>1. task[t].doc = d /\ task[t].pc # "idle"
          BY <3>2, <2>4, <1>6, <1>8
        <4>. QED
          BY <3>2, <4>1, <2>1
      <3>3. CASE t # s /\ u # s
        BY <3>3, <2>0, <2>4, <1>8 DEF Undisturbed
      <3>. QED
        BY <3>1, <3>2, <3>3
    <2>5. ASSUME NEW t \in Slots, task'[t].pc = "poll"
          PROVE  login'.poll = task'[t].doc
      <3>1. t # s
        BY <2>5, <1>6, <1>8
      <3>. QED
        BY <3>1, <2>0, <2>5, <1>1, <1>8 DEF Undisturbed
    <2>. QED
      BY <2>3, <2>4, <2>5 DEF Undisturbed
  <1>. QED
    BY <1>9, <1>10, <1>11, <1>12, <1>13 DEF IndInv

\* Steps that start and end no execution.
LEMMA Around ==
    ASSUME IndInv, RowGoes, UNCHANGED <<flow, task, guard, reservation>>,
           active' \subseteq Bindings, troubles' \in 0..MaxTroubles,
           troubles' = 0 =>
               /\ troubles = 0
               /\ \A s \in Slots : task[s].pc = "poll" =>
                                       login'.poll = login.poll
    PROVE  IndInv' /\ Course
  <1>1. Typed'
    BY DEF IndInv, Typed, RowGoes
  <1>2. \A s \in Slots : ExecutionFits(s)'
    BY DEF IndInv, ExecutionFits
  <1>3. \A d \in Docs : GuardFits(d)'
    BY DEF IndInv, GuardFits
  <1>4. ClaimIsAnswered'
    BY DEF IndInv, ClaimIsAnswered
  <1>5. troubles' = 0 => Undisturbed'
    BY DEF IndInv, Undisturbed
  <1>. QED
    BY <1>1, <1>2, <1>3, <1>4, <1>5 DEF IndInv, RowGoes

LEMMA StepLeaseLapses ==
    ASSUME IndInv, NEW d \in Docs, LeaseLapses(d)
    PROVE  IndInv' /\ Course
  <1>. DEFINE new == [guard[d] EXCEPT !.lapsed = TRUE]
  <1>1. /\ guard \in [Docs -> GuardRows] /\ GuardFits(d)
        /\ guard[d].st = "executing"
        /\ UNCHANGED <<flow, task, login, sessions, active, reservation>>
    BY DEF LeaseLapses, IndInv, Typed, db
  <1>2. guard' = [guard EXCEPT ![d] = new]
    BY DEF LeaseLapses
  <1>3. /\ new \in GuardRows /\ new.st = "executing"
        /\ new.answer = guard[d].answer
    BY <1>1 DEF GuardRows
  <1>4. new.answer = "none"
    BY <1>1, <1>3 DEF GuardFits
  <1>. HIDE DEF new
  <1>5. GuardGoes(d)
    BY <1>1, <1>2, <1>3, <1>4, GuardWrite
  <1>6. /\ troubles' \in 0..MaxTroubles
        /\ troubles' = 0 => (troubles = 0 /\ ~Executed(d))
    <2>1. CASE Executed(d)
      BY <2>1, TroubleCounts DEF LeaseLapses
    <2>2. CASE ~Executed(d)
      BY <2>2 DEF LeaseLapses, IndInv, Typed
    <2>. QED
      BY <2>1, <2>2
  <1>7. Typed'
    BY <1>1, <1>5, <1>6 DEF IndInv, Typed, GuardGoes
  <1>8. \A s \in Slots : ExecutionFits(s)'
    BY <1>1 DEF IndInv, ExecutionFits
  <1>9. ClaimIsAnswered' /\ \A e \in Docs : GuardFits(e)'
    BY <1>1, <1>5, ClaimStays
  <1>10. RowFits' /\ Course
    BY <1>1, RowStays DEF RowGoes
  <1>11. ASSUME troubles' = 0 PROVE Undisturbed'
    <2>0. Undisturbed /\ ~Executed(d)
      BY <1>6, <1>11 DEF IndInv
    <2>1. ASSUME NEW s \in Slots, task[s].pc # "idle"
          PROVE  guard'[task[s].doc] = guard[task[s].doc]
      <3>1. task[s].doc \in Docs
        BY <2>1, Running
      <3>2. task[s].doc # d
        BY <2>0 DEF Executed
      <3>. QED
        BY <3>1, <3>2, <1>5 DEF GuardGoes
    <2>. QED
      BY <1>1, <2>0, <2>1 DEF Undisturbed
  <1>. QED
    BY <1>7, <1>8, <1>9, <1>10, <1>11 DEF IndInv

LEMMA StepRevokeBinding ==
    ASSUME IndInv, NEW b \in Bindings, RevokeBinding(b)
    PROVE  IndInv' /\ Course
  <1>1. login \in Rows /\ sessions \in Seq(SessionRows) /\ RowFits
        /\ active \subseteq Bindings
    BY DEF IndInv, Typed
  <1>. DEFINE ended(i) ==
                  IF sessions[i].binding = b
                  THEN [sessions[i] EXCEPT !.live = FALSE] ELSE sessions[i]
  <1>2. ASSUME NEW i \in 1..Len(sessions) PROVE ended(i) \in SessionRows
    <2>1. sessions[i] \in SessionRows
      BY <1>1
    <2>. QED
      BY <2>1 DEF SessionRows
  <1>3. sessions' = [i \in 1..Len(sessions) |-> ended(i)]
    BY DEF RevokeBinding
  <1>. HIDE DEF ended
  <1>4. Len(sessions) \in Nat
    BY <1>1
  <1>5. sessions' \in Seq(SessionRows) /\ Len(sessions') = Len(sessions)
    BY <1>2, <1>3, <1>4
  <1>6. /\ UNCHANGED <<flow, guard, task, login, reservation>>
        /\ active' \subseteq Bindings
        /\ troubles' \in 0..MaxTroubles /\ troubles' # 0
    BY <1>1, TroubleCounts DEF RevokeBinding
  <1>7. RowGoes
    BY <1>1, <1>5, <1>6 DEF RowGoes, RowFits, Course
  <1>. QED
    BY <1>6, <1>7, Around

LEMMA StepCloses ==
    ASSUME IndInv, NEW w \in {"claim", "decision"}, Closes(w)
    PROVE  IndInv' /\ Course
  <1>1. /\ UNCHANGED <<flow, guard, task, login, sessions, active, reservation>>
        /\ active' \subseteq Bindings
        /\ troubles' \in 0..MaxTroubles /\ troubles' # 0
    BY TroubleCounts DEF Closes, db, IndInv, Typed
  <1>. QED
    BY <1>1, RowStays, Around

LEMMA StepPollLapses ==
    ASSUME IndInv, PollLapses
    PROVE  IndInv' /\ Course
  <1>1. /\ login \in Rows /\ login.poll # None
        /\ login' = Unpolled(login.poll)
        /\ UNCHANGED <<flow, guard, task, sessions, active, reservation>>
        /\ active' \subseteq Bindings
    BY DEF PollLapses, IndInv, Typed
  <1>2. login.poll \in Docs
    BY <1>1 DEF Rows
  <1>3. RowGoes
    BY <1>1, <1>2, UnpolledGoes
  <1>. DEFINE Used == \E s \in Slots :
                         /\ task[s].doc = login.poll
                         /\ task[s].pc \in {"poll", "outcome", "answer"}
  <1>4. CASE Used
    <2>1. troubles' \in 0..MaxTroubles /\ troubles' # 0
      BY <1>4, TroubleCounts DEF PollLapses
    <2>. QED
      BY <1>1, <1>3, <2>1, Around
  <1>5. CASE ~Used
    <2>1. troubles' = troubles /\ troubles \in 0..MaxTroubles
      BY <1>5 DEF PollLapses, IndInv, Typed
    <2>2. troubles = 0 => \A s \in Slots : task[s].pc # "poll"
      BY <1>5 DEF IndInv, Undisturbed
    <2>. QED
      BY <1>1, <1>3, <2>1, <2>2, Around
  <1>. QED
    BY <1>4, <1>5

-----------------------------------------------------------------------------
(* The theorems *)

LEMMA Initially == Init => IndInv
  <1>. SUFFICES ASSUME Init PROVE IndInv
    OBVIOUS
  <1>0. Request \in Rows /\ Unclaimed \in GuardRows
    BY FreeFits DEF Free, Executions, Unclaimed, GuardRows, Answers
  <1>1. guard = [d \in Docs |-> Unclaimed] /\ task = [s \in Slots |-> Free]
        /\ login = Request /\ sessions = <<>> /\ active = Bindings
        /\ reservation = None /\ troubles = 0 /\ flow \in Flows
    BY DEF Init, Unclaimed
  <1>2. Typed
    BY <1>0, <1>1, FreeFits, TrustTaskAssumption DEF Typed
  <1>3. \A s \in Slots : ExecutionFits(s)
    BY <1>1, FreeFits DEF ExecutionFits
  <1>4. \A d \in Docs : GuardFits(d)
    BY <1>1 DEF GuardFits, Unclaimed
  <1>5. RowFits
    BY <1>1 DEF RowFits, Request
  <1>6. ClaimIsAnswered
    BY <1>1 DEF ClaimIsAnswered
  <1>7. Undisturbed
    BY <1>1, FreeFits DEF Undisturbed
  <1>. QED
    BY <1>2, <1>3, <1>4, <1>5, <1>6, <1>7 DEF IndInv

LEMMA IndInvInductive == IndInv /\ [Next]_vars => IndInv' /\ Course
  <1>. SUFFICES ASSUME IndInv, [Next]_vars PROVE IndInv' /\ Course
    OBVIOUS
  <1>1. CASE UNCHANGED vars
    <2>1. /\ UNCHANGED <<flow, task, guard, login, sessions, active,
                         reservation, troubles>>
          /\ active \subseteq Bindings /\ troubles \in 0..MaxTroubles
      BY <1>1 DEF vars, db, IndInv, Typed
    <2>. QED
      BY <2>1, RowStays, Around
  <1>2. ASSUME NEW s \in Slots, RunStep(s) PROVE IndInv' /\ Course
    <2>1. CASE VtaClaim(s)
      BY <2>1, StepVtaClaim
    <2>2. CASE OobClaim(s)
      BY <2>2, StepOobClaim
    <2>3. CASE ProveLoad(s)
      BY <2>3, StepProveLoad
    <2>4. CASE ProveCommit(s)
      BY <2>4, StepProveCommit
    <2>5. CASE RespondLoad(s)
      BY <2>5, StepRespondLoad
    <2>6. CASE RespondCommit(s)
      BY <2>6, StepRespondCommit
    <2>7. CASE RedeemLoad(s)
      BY <2>7, StepRedeemLoad
    <2>8. CASE RedeemSelect(s)
      BY <2>8, StepRedeemSelect
    <2>9. CASE RedeemGo(s)
      BY <2>9, StepRedeemGo
    <2>10. CASE PollTick(s)
      BY <2>10, StepPollTick
    <2>11. CASE PollEnds(s)
      BY <2>11, StepPollEnds
    <2>12. CASE ReleasePoll(s)
      BY <2>12, StepReleasePoll
    <2>13. CASE RedeemOutcome(s)
      BY <2>13, StepRedeemOutcome
    <2>14. CASE RedeemApproved(s)
      BY <2>14, StepRedeemApproved
    <2>15. CASE CancelLoad(s)
      BY <2>15, StepCancelLoad
    <2>16. CASE CancelCommit(s)
      BY <2>16, StepCancelCommit
    <2>17. CASE Answer(s)
      BY <2>17, StepAnswer
    <2>. QED
      BY <1>2, <2>1, <2>2, <2>3, <2>4, <2>5, <2>6, <2>7, <2>8, <2>9, <2>10,
         <2>11, <2>12, <2>13, <2>14, <2>15, <2>16, <2>17 DEF RunStep
  <1>3. ASSUME NEW s \in Slots, Die(s) PROVE IndInv' /\ Course
    BY <1>3, StepDie
  <1>4. ASSUME NEW s \in Slots, NEW d \in Docs, Claim(s, d)
        PROVE  IndInv' /\ Course
    BY <1>4, StepClaim
  <1>5. ASSUME NEW d \in Docs, LeaseLapses(d) PROVE IndInv' /\ Course
    BY <1>5, StepLeaseLapses
  <1>6. ASSUME NEW b \in Bindings, RevokeBinding(b) PROVE IndInv' /\ Course
    BY <1>6, StepRevokeBinding
  <1>7. ASSUME NEW w \in {"claim", "decision"}, Closes(w)
        PROVE  IndInv' /\ Course
    BY <1>7, StepCloses
  <1>8. CASE PollLapses
    BY <1>8, StepPollLapses
  <1>. QED
    BY <1>1, <1>2, <1>3, <1>4, <1>5, <1>6, <1>7, <1>8 DEF Next

LEMMA Invariance == Spec => []IndInv
  <1>1. IndInv /\ [Next]_vars => IndInv'
    BY IndInvInductive
  <1>. QED
    BY Initially, <1>1, PTL DEF Spec

\* The row's fields go with its state, and what is answered is completed, for
\* every set of documents (trust_task_oob.go).
THEOREM TrustTaskTypes == Spec => []TypeOK
  <1>1. IndInv => TypeOK
    <2>. SUFFICES ASSUME IndInv PROVE TypeOK
      OBVIOUS
    <2>1. /\ login \in Rows /\ RowFits /\ Len(sessions) \in Nat
          /\ \A d \in Docs : guard[d] \in GuardRows /\ GuardFits(d)
          /\ flow \in Flows /\ active \subseteq Bindings
          /\ reservation \in Docs \cup {None} /\ troubles \in 0..MaxTroubles
      BY DEF IndInv, Typed
    <2>2. \A d \in Docs :
             /\ guard[d].st \in {"none", "executing", "completed"}
             /\ (guard[d].answer # "none") <=> (guard[d].st = "completed")
      BY <2>1 DEF GuardFits, GuardRows
    <2>3. login.st \in Open \cup Final \cup {"approved"}
      BY <2>1 DEF Rows, States
    <2>4. (login.session = 0) <=> (login.st # "consumed")
      BY <2>1 DEF RowFits
    <2>5. login.st = "consumed" => login.session \in 1..Len(sessions)
      <3>1. ASSUME login.st = "consumed"
            PROVE  login.session = 1 /\ Len(sessions) = 1
        BY <2>1, <3>1 DEF RowFits
      <3>2. 1 \in 1..1
        OBVIOUS
      <3>. QED
        BY <3>1, <3>2, Zenon
    <2>. QED
      BY <2>1, <2>2, <2>3, <2>4, <2>5 DEF TypeOK, RowFits
  <1>. QED
    BY <1>1, Invariance, PTL

\* Two executions that wait while nothing went wrong are the same one.
LEMMA PollIsOne == IndInv => OnePoll
  <1>. DEFINE P == {s \in Slots : task[s].pc = "poll"}
  <1>. SUFFICES ASSUME IndInv, troubles = 0 PROVE Cardinality(P) <= 1
    BY DEF OnePoll
  <1>1. \A s, t \in P : s = t
    BY DEF IndInv, Undisturbed
  <1>2. CASE P = {}
    BY <1>2, FS_EmptySet
  <1>3. CASE P # {}
    <2>1. PICK s \in P : TRUE
      BY <1>3
    <2>2. P = {s}
      BY <1>1, <2>1
    <2>. HIDE DEF P
    <2>3. Cardinality(P) = 1
      BY <2>2, FS_Singleton
    <2>. QED
      BY <2>3
  <1>. QED
    BY <1>2, <1>3

\* However often and from however many executions an approved request is
\* redeemed, there is one session; and one redeem holds the poll while no
\* execution dies or outlives its lease (redeemApproved, trust_task_oob.go:527;
\* AcquireRedeemPoll, walletauth/store.go:14).
THEOREM OneRedeem == Spec => []RedeemsShare
  <1>1. IndInv => OneWalletSession
    <2>. SUFFICES ASSUME IndInv PROVE Len(sessions) <= 1
      BY DEF OneWalletSession
    <2>1. RowFits
      BY DEF IndInv
    <2>2. Len(sessions) = 0 \/ Len(sessions) = 1
      BY <2>1 DEF RowFits
    <2>3. \A n : n = 0 \/ n = 1 => n <= 1
      OBVIOUS
    <2>. QED
      BY <2>2, <2>3, Zenon
  <1>2. IndInv => RedeemsShare
    BY <1>1, PollIsOne DEF RedeemsShare
  <1>. QED
    BY <1>2, Invariance, PTL

\* The document that took the reservation has its answer recorded with it
\* (ClaimAndRecord, connection/store.go:262).
THEOREM ClaimantIsTold == Spec => []ClaimIsAnswered
  <1>1. IndInv => ClaimIsAnswered
    BY DEF IndInv
  <1>. QED
    BY <1>1, Invariance, PTL

\* No handler, whenever it read the row, reopens an ended request, replaces
\* the wallet that claimed it or approves what was not identified
\* (trust_task_oob.go:348, :396, :606).
THEOREM RequestsEndOnce == Spec => DecisionIsFinal
  <1>1. IndInv /\ [Next]_vars =>
          [/\ login.st \in Final => login'.st = login.st
           /\ login.approver # None => login'.approver = login.approver
           /\ login'.st = "approved" =>
                login.st \in {"identified", "approved"}]_vars
    BY IndInvInductive DEF Course
  <1>. QED
    BY <1>1, Invariance, PTL DEF Spec, DecisionIsFinal

=============================================================================
