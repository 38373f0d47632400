----------------------------- MODULE TrustTask -----------------------------
(***************************************************************************)
(* The documents a wallet and a browser post to the Trust Task endpoint:   *)
(* the replay guard in front of every handler, the claim of a reservation, *)
(* and the out-of-band sign-in (claim, prove, respond, redeem, cancel) with *)
(* its long poll.  A document may be posted again, at the same time or     *)
(* after its execution died; the guard's row, the request's row and the    *)
(* reservation's row are all that outlives an execution.                   *)
(***************************************************************************)
EXTENDS Naturals, Sequences, FiniteSets

CONSTANTS
    Flows,        \* sets of documents [kind, by, says] posted together
    Bindings,     \* the Farm accounts linked to the login identity
    Slots,        \* concurrent executions
    MaxTroubles,  \* deaths, outlived leases, revocations, closed windows
    None

Docs == UNION Flows

ASSUME TrustTaskAssumption ==
    /\ MaxTroubles \in Nat /\ Slots # {}
    /\ None \notin Docs /\ \A d \in Docs : d.by # None

VARIABLES
    flow,         \* the documents of this behaviour
    guard,        \* trust_task_executions: state, lease run out, answer
    task,         \* the executions: document, step, the row as they read it
    login,        \* the row of the sign-in request
    sessions,     \* the wallet sessions in the order they were created
    active,       \* the bindings that are not revoked
    time,         \* which of the request's two windows are still open
    reservation,  \* None, or the document that claimed it
    troubles

db == <<login, sessions, active, reservation>>
vars == <<flow, guard, task, db, time, troubles>>

Open == {"pending", "claimed", "identified"}       \* walletRedeemPending
Final == {"declined", "cancelled", "expired", "consumed"}

\* The row: did, the wallet's identity is known; shown, the match number was
\* delivered; poll, the document holding the poll; session, index of its own.
Request == [st |-> "pending", approver |-> None, did |-> FALSE, shown |-> FALSE,
            binding |-> None, poll |-> None, session |-> 0]
Free == [doc |-> None, pc |-> "idle", row |-> Request, says |-> "none"]

Init ==
    /\ flow \in Flows
    /\ guard = [d \in Docs |-> [st |-> "none", lapsed |-> FALSE,
                                answer |-> "none"]]
    /\ task = [s \in Slots |-> Free]
    /\ login = Request /\ sessions = <<>> /\ active = Bindings
    /\ time = [claim |-> TRUE, decision |-> TRUE]
    /\ reservation = None /\ troubles = 0

-----------------------------------------------------------------------------
(* The replay guard.                                                       *)

Execute(s, d) ==
    task' = [task EXCEPT ![s] = [Free EXCEPT !.doc = d, !.pc = "load"]]

\* Claim for a document: it is executed when it is new, or when the lease of
\* its execution ran out; any other duplicate gets the recorded answer, or 202.
Claim(s, d) ==
    /\ d \in flow /\ task[s].pc = "idle"
    /\ \/ guard[d].st = "none"
       \/ guard[d].st = "executing" /\ guard[d].lapsed
    /\ guard' = [guard EXCEPT ![d].st = "executing", ![d].lapsed = FALSE]
    /\ Execute(s, d)
    /\ UNCHANGED <<flow, db, time, troubles>>

\* What RecordResponse does to the row: only an active execution takes it.
Recorded(d, answer) ==
    IF guard[d].st = "executing"
    THEN [st |-> "completed", lapsed |-> FALSE, answer |-> answer]
    ELSE guard[d]

Unclaimed == [st |-> "none", lapsed |-> FALSE, answer |-> "none"]

\* Release: for a retryable refusal the document may be tried again.
Released(d) == IF guard[d].st = "executing" THEN Unclaimed ELSE guard[d]

\* ConsumeInbound after its handler: the answer is recorded, a retryable one
\* may be released instead, and it is sent whether or not the row took it.
Answer(s) ==
    LET d == task[s].doc IN
    /\ task[s].pc = "answer" /\ login.poll # d
    /\ \/ guard' = [guard EXCEPT ![d] = Recorded(d, task[s].says)]
       \/ /\ task[s].says = "pending"
          /\ guard' = [guard EXCEPT ![d] = Released(d)]
    /\ task' = [task EXCEPT ![s] = Free]
    /\ UNCHANGED <<flow, db, time, troubles>>

Trouble == troubles < MaxTroubles /\ troubles' = troubles + 1

\* ReleaseRedeemPoll.
Unpolled(d) == IF login.poll = d THEN [login EXCEPT !.poll = None] ELSE login

\* The process ends, or the handler returns an error (a database call, the
\* client gone): no answer.  After an error the document may be released.
Die(s) ==
    LET d == task[s].doc IN
    /\ task[s].pc # "idle" /\ Trouble
    /\ task' = [task EXCEPT ![s] = Free]
    /\ \/ UNCHANGED <<guard, login>>
       \/ guard' = [guard EXCEPT ![d] = Released(d)] /\ login' = Unpolled(d)
    /\ UNCHANGED <<flow, sessions, active, reservation, time>>

Executed(d) == \E s \in Slots : task[s].doc = d

\* Half a minute after it began.
LeaseLapses(d) ==
    /\ guard[d].st = "executing" /\ ~guard[d].lapsed
    /\ guard' = [guard EXCEPT ![d].lapsed = TRUE]
    /\ IF Executed(d) THEN Trouble ELSE UNCHANGED troubles
    /\ UNCHANGED <<flow, task, db, time>>

-----------------------------------------------------------------------------
(* The handlers.                                                           *)

\* This execution goes on with the row as it knows it.
Goto(s, pc, row) == task' = [task EXCEPT ![s].pc = pc, ![s].row = row]
Says(s, answer) ==
    task' = [task EXCEPT ![s].pc = "answer", ![s].says = answer]
Handles(s, kind, pc) == task[s].pc = pc /\ task[s].doc.kind = kind
By(s) == task[s].doc.by

\* A slip: the answer is left to RecordResponse.
VtaClaimSlip(s) ==
    /\ Handles(s, "vta_claim", "load")
    /\ IF reservation = None
       THEN /\ reservation' = task[s].doc
            /\ Says(s, "ok")
       ELSE /\ Says(s, "refused")
            /\ UNCHANGED reservation
    /\ UNCHANGED <<flow, guard, login, sessions, active, time>>
    /\ UNCHANGED troubles

\* consumeClaim, ClaimAndRecord: the reservation and the answer in one
\* transaction.
VtaClaim(s) ==
    LET d == task[s].doc IN
    /\ Handles(s, "vta_claim", "load")
    /\ IF reservation = None /\ guard[d].st = "executing"
       THEN /\ reservation' = d
            /\ guard' = [guard EXCEPT ![d] = Recorded(d, "ok")]
            /\ Says(s, "ok")
       ELSE /\ Says(s, "refused")
            /\ UNCHANGED <<reservation, guard>>
    /\ UNCHANGED <<flow, login, sessions, active, time, troubles>>

\* oobClaim, in one transaction; the expiry it writes is rolled back with the
\* refusal.
OobClaim(s) ==
    /\ Handles(s, "claim", "load")
    /\ IF login.st = "pending" /\ time.claim
       THEN /\ login' = [login EXCEPT !.st = "claimed", !.approver = By(s)]
            /\ Says(s, "ok")
       ELSE Says(s, "refused") /\ UNCHANGED login
    /\ UNCHANGED <<flow, guard, sessions, active, reservation, time>>
    /\ UNCHANGED troubles

\* The identity or the grant inside the document is valid and made for this
\* request.
Carried(s) == task[s].doc.says # "invalid"

\* declineWalletRequest.
Declined(from) ==
    IF login.st = from THEN [login EXCEPT !.st = "declined"] ELSE login

\* oobProve up to its last update: an invalid identity, one without a binding
\* or the wrong number declines the request.
ProveLoad(s) ==
    /\ Handles(s, "prove", "load")
    /\ \/ /\ login.approver # By(s) \/ login.st # "claimed" \/ ~time.decision
          /\ Says(s, "refused") /\ UNCHANGED login
       \/ /\ login.approver = By(s) /\ login.st = "claimed" /\ time.decision
          /\ IF ~Carried(s) \/ active = {} \/ task[s].doc.says = "wrong"
             THEN /\ login' = Declined("claimed") /\ Says(s, "refused")
             ELSE /\ Goto(s, "commit", [login EXCEPT !.binding =
                          IF Cardinality(active) = 1
                          THEN CHOOSE b \in active : TRUE ELSE None])
                  /\ UNCHANGED login
    /\ UNCHANGED <<flow, guard, sessions, active, reservation, time>>
    /\ UNCHANGED troubles

\* The update of oobProve, for a row still claimed by this wallet.
ProveCommit(s) ==
    /\ Handles(s, "prove", "commit")
    /\ IF login.st = "claimed" /\ login.approver = By(s)
       THEN /\ login' = [login EXCEPT !.st = "identified", !.did = TRUE,
                             !.binding = IF task[s].row.binding = None THEN @
                                         ELSE task[s].row.binding]
            /\ Says(s, "ok")
       ELSE Says(s, "refused") /\ UNCHANGED login
    /\ UNCHANGED <<flow, guard, sessions, active, reservation, time>>
    /\ UNCHANGED troubles

Linked(row) == IF row.binding = None THEN active # {}
               ELSE row.binding \in active

\* oobRespond up to its last update: a grant that is invalid or for another
\* request, or the approval of an account unlinked meanwhile, declines it.
RespondLoad(s) ==
    LET mine == /\ login.approver = By(s) /\ login.did
                /\ login.st = "identified" /\ time.decision
        good == Carried(s) /\ (task[s].doc.says = "approve" => Linked(login))
    IN
    /\ Handles(s, "respond", "load")
    /\ \/ ~mine /\ Says(s, "refused") /\ UNCHANGED login
       \/ /\ mine /\ ~good
          /\ login' = Declined("identified") /\ Says(s, "refused")
       \/ /\ mine /\ good
          /\ Goto(s, "commit", login) /\ UNCHANGED login
    /\ UNCHANGED <<flow, guard, sessions, active, reservation, time>>
    /\ UNCHANGED troubles

Decision(says) == IF says = "approve" THEN "approved" ELSE "declined"

\* A slip: the decision is written whatever became of the request.
RespondCommitSlip(s) ==
    /\ Handles(s, "respond", "commit")
    /\ login' = [login EXCEPT !.st = Decision(task[s].doc.says)]
    /\ Says(s, "ok")
    /\ UNCHANGED <<flow, guard, sessions, active, reservation, time>>
    /\ UNCHANGED troubles

RespondCommit(s) ==
    /\ Handles(s, "respond", "commit")
    /\ IF login.st = "identified"
       THEN /\ login' = [login EXCEPT !.st = Decision(task[s].doc.says)]
            /\ Says(s, "ok")
       ELSE Says(s, "refused") /\ UNCHANGED login
    /\ UNCHANGED <<flow, guard, sessions, active, reservation, time>>
    /\ UNCHANGED troubles

\* oobRedeem reads the row and checks the account chosen with it: the one
\* already redeemed, or an active one while the choice is still open.
RedeemLoad(s) ==
    LET pick == task[s].doc.says
        same == login.st = "consumed" /\ login.binding = pick
        open == /\ login.did /\ login.st \in {"identified", "approved"}
                /\ pick \in active
    IN
    /\ Handles(s, "redeem", "load")
    /\ \/ (pick = None \/ same) /\ Goto(s, "go", login)
       \/ pick # None /\ ~same /\ open /\ Goto(s, "select", login)
       \/ pick # None /\ ~same /\ ~open /\ Says(s, "refused")
    /\ UNCHANGED <<flow, guard, db, time, troubles>>

\* The account is written while the request is identified or approved.
RedeemSelect(s) ==
    LET pick == task[s].doc.says IN
    /\ Handles(s, "redeem", "select")
    /\ IF login.st \in {"identified", "approved"}
       THEN /\ login' = [login EXCEPT !.binding = pick]
            /\ Goto(s, "go", [task[s].row EXCEPT !.binding = pick])
       ELSE Says(s, "refused") /\ UNCHANGED login
    /\ UNCHANGED <<flow, guard, sessions, active, reservation, time>>
    /\ UNCHANGED troubles

\* A window of this row has closed.
Late(row) == \/ row.st = "pending" /\ ~time.claim
             \/ row.st \in {"claimed", "identified"} /\ ~time.decision

\* A slip: it expires whatever its state has become.
ExpiredSlip == [login EXCEPT !.st = "expired"]

\* What is written then.
Expired == IF login.st \in Open THEN [login EXCEPT !.st = "expired"] ELSE login

\* The redeem is held: not for an account to choose or a number to show.
Held(row) == /\ row.st \in Open /\ ~Late(row)
             /\ ~(row.st = "identified" /\ row.binding = None)
             /\ row.approver = None \/ row.shown

\* A slip: the poll is taken over whoever holds it.
RedeemGoSlip(s) ==
    LET row == task[s].row IN
    /\ Handles(s, "redeem", "go")
    /\ \/ /\ Late(row) /\ login' = Expired
          /\ Goto(s, "outcome", [row EXCEPT !.st = "expired"])
       \/ /\ ~Late(row) /\ ~Held(row)
          /\ Goto(s, "outcome", row) /\ UNCHANGED login
       \/ /\ Held(row) /\ login.st \in Open
          /\ login' = [login EXCEPT !.poll = task[s].doc]
          /\ Goto(s, "poll", row)
       \/ /\ Held(row) /\ login.st \notin Open
          /\ Goto(s, "outcome", login) /\ UNCHANGED login
    /\ UNCHANGED <<flow, guard, sessions, active, reservation, time>>
    /\ UNCHANGED troubles

\* The row read goes on as expired, or waits as the only poll, or is told that
\* another one waits; without a reason to wait it is answered.
RedeemGo(s) ==
    LET row == task[s].row IN
    /\ Handles(s, "redeem", "go")
    /\ \/ /\ Late(row) /\ login' = Expired
          /\ Goto(s, "outcome", [row EXCEPT !.st = "expired"])
       \/ /\ ~Late(row) /\ ~Held(row)
          /\ Goto(s, "outcome", row) /\ UNCHANGED login
       \/ /\ Held(row) /\ login.st \in Open /\ login.poll = None
          /\ login' = [login EXCEPT !.poll = task[s].doc]
          /\ Goto(s, "poll", row)
       \/ /\ Held(row) /\ login.st \in Open /\ login.poll # None
          /\ Says(s, "pending") /\ UNCHANGED login
       \/ /\ Held(row) /\ login.st \notin Open
          /\ Goto(s, "outcome", login) /\ UNCHANGED login
    /\ UNCHANGED <<flow, guard, sessions, active, reservation, time>>
    /\ UNCHANGED troubles

\* A tick of the poll that finds the row late, or in another state.
PollTick(s) ==
    /\ Handles(s, "redeem", "poll")
    /\ \/ /\ Late(login) /\ login' = Expired
          /\ Goto(s, "outcome", [login EXCEPT !.st = "expired"])
       \/ /\ ~Late(login) /\ login.st # task[s].row.st
          /\ Goto(s, "outcome", login) /\ UNCHANGED login
    /\ UNCHANGED <<flow, guard, sessions, active, reservation, time>>
    /\ UNCHANGED troubles

\* Its timer.
PollEnds(s) ==
    /\ Handles(s, "redeem", "poll")
    /\ Says(s, "pending")
    /\ UNCHANGED <<flow, guard, db, time, troubles>>

\* When oobRedeem returns.
ReleasePoll(s) ==
    /\ Handles(s, "redeem", "answer") /\ login.poll = task[s].doc
    /\ login' = Unpolled(task[s].doc)
    /\ UNCHANGED <<flow, guard, task, sessions, active, reservation, time>>
    /\ UNCHANGED troubles

\* The poll's lease runs out; one in use only when its execution is slow.
PollLapses ==
    /\ login.poll # None /\ login' = Unpolled(login.poll)
    /\ IF \E s \in Slots : /\ task[s].doc = login.poll
                           /\ task[s].pc \in {"poll", "outcome", "answer"}
       THEN Trouble ELSE UNCHANGED troubles
    /\ UNCHANGED <<flow, guard, task, sessions, active, reservation, time>>

\* What a row that is not redeemable answers: the match number once, the
\* accounts to choose from, or the end of the request.
RedeemOutcome(s) ==
    LET row == task[s].row
        choose == row.st \in {"identified", "approved"} /\ row.binding = None
    IN
    /\ Handles(s, "redeem", "outcome")
    /\ row.st \in Open \cup {"declined", "cancelled", "expired"} \/ choose
    /\ login' = IF row.st \in Open /\ row.approver # None
                THEN [login EXCEPT !.shown = TRUE] ELSE login
    /\ Says(s, IF choose /\ active = {} THEN "refused"
               ELSE IF choose \/ row.st \in Open THEN "pending"
               ELSE "refused")
    /\ UNCHANGED <<flow, guard, sessions, active, reservation, time>>
    /\ UNCHANGED troubles

NewSession(binding) ==
    /\ sessions' = Append(sessions, [binding |-> binding, live |-> TRUE])
    /\ login' = [login EXCEPT !.st = "consumed",
                              !.session = Len(sessions) + 1]

\* A slip: it goes by the row as it was read.
RedeemApprovedSlip(s) ==
    LET row == task[s].row
        linked == row.binding \in active
        again == login.st = "consumed" /\ sessions[login.session].live
    IN
    /\ Handles(s, "redeem", "outcome")
    /\ row.st \in {"approved", "consumed"} /\ row.binding # None
    /\ \/ /\ linked /\ row.st = "approved"
          /\ NewSession(row.binding) /\ Says(s, "ok")
       \/ /\ linked /\ row.st # "approved" /\ again
          /\ Says(s, "ok") /\ UNCHANGED <<sessions, login>>
       \/ /\ ~linked \/ (row.st # "approved" /\ ~again)
          /\ Says(s, "refused") /\ UNCHANGED <<sessions, login>>
    /\ UNCHANGED <<flow, guard, active, reservation, time>>
    /\ UNCHANGED troubles

\* redeemApproved, in one transaction on the locked row: the first redeem
\* creates the session, a later one gets the same session.
RedeemApproved(s) ==
    LET row == task[s].row
        linked == row.binding \in active
        again == login.st = "consumed" /\ sessions[login.session].live
    IN
    /\ Handles(s, "redeem", "outcome")
    /\ row.st \in {"approved", "consumed"} /\ row.binding # None
    /\ \/ /\ linked /\ login.st = "approved"
          /\ NewSession(row.binding) /\ Says(s, "ok")
       \/ /\ linked /\ again
          /\ Says(s, "ok") /\ UNCHANGED <<sessions, login>>
       \/ /\ ~linked \/ (login.st # "approved" /\ ~again)
          /\ Says(s, "refused") /\ UNCHANGED <<sessions, login>>
    /\ UNCHANGED <<flow, guard, active, reservation, time>>
    /\ UNCHANGED troubles

\* oobCancel, by the browser that started the request or by its wallet.
CancelLoad(s) ==
    /\ Handles(s, "cancel", "load")
    /\ \/ By(s) \notin {"starter", login.approver} /\ Says(s, "refused")
       \/ /\ By(s) \in {"starter", login.approver}
          /\ IF login.st = "cancelled" THEN Says(s, "ok")
             ELSE Goto(s, "commit", login)
    /\ UNCHANGED <<flow, guard, db, time, troubles>>

CancelCommit(s) ==
    /\ Handles(s, "cancel", "commit")
    /\ IF login.st \in Open \cup {"approved"}
       THEN login' = [login EXCEPT !.st = "cancelled"] /\ Says(s, "ok")
       ELSE Says(s, "refused") /\ UNCHANGED login
    /\ UNCHANGED <<flow, guard, sessions, active, reservation, time>>
    /\ UNCHANGED troubles

\* RevokeBinding: the account is unlinked and its sessions end with it.
RevokeBinding(b) ==
    /\ b \in active /\ active' = active \ {b}
    /\ sessions' = [i \in 1..Len(sessions) |->
                      IF sessions[i].binding = b
                      THEN [sessions[i] EXCEPT !.live = FALSE] ELSE sessions[i]]
    /\ Trouble /\ UNCHANGED <<flow, guard, task, login, reservation, time>>

\* Two minutes after the request, and two after its claim.
Closes(w) ==
    /\ time[w] /\ (w = "decision" => login.approver # None)
    /\ Trouble /\ time' = [time EXCEPT ![w] = FALSE]
    /\ UNCHANGED <<flow, guard, task, db>>

RunStep(s) ==
    \/ VtaClaim(s)
    \/ OobClaim(s)
    \/ ProveLoad(s) \/ ProveCommit(s)
    \/ RespondLoad(s) \/ RespondCommit(s)
    \/ RedeemLoad(s) \/ RedeemSelect(s) \/ RedeemGo(s)
    \/ PollTick(s) \/ PollEnds(s) \/ ReleasePoll(s)
    \/ RedeemOutcome(s) \/ RedeemApproved(s)
    \/ CancelLoad(s) \/ CancelCommit(s)
    \/ Answer(s)

Next ==
    \/ \E s \in Slots : RunStep(s) \/ Die(s)
    \/ \E s \in Slots, d \in Docs : Claim(s, d)
    \/ \E d \in Docs : LeaseLapses(d)
    \/ \E b \in Bindings : RevokeBinding(b)
    \/ \E w \in {"claim", "decision"} : Closes(w)
    \/ PollLapses

Spec == Init /\ [][Next]_vars

-----------------------------------------------------------------------------
(* Properties.                                                             *)

\* The row's fields go with its state: a claimed request has a wallet, an
\* identified one an identity, a consumed one a session.
TypeOK ==
    /\ flow \in Flows
    /\ \A d \in Docs : /\ guard[d].st \in {"none", "executing", "completed"}
                       /\ (guard[d].answer # "none") <=>
                             (guard[d].st = "completed")
    /\ login.st \in Open \cup Final \cup {"approved"}
    /\ (login.st \in {"claimed", "identified", "approved", "consumed"}) =>
         login.approver # None
    /\ (login.st \in {"identified", "approved", "consumed"}) => login.did
    /\ (login.session = 0) <=> (login.st # "consumed")
    /\ login.st = "consumed" => login.session \in 1..Len(sessions)
    /\ active \subseteq Bindings
    /\ reservation \in Docs \cup {None}
    /\ troubles \in 0..MaxTroubles

\* However many redeems of one approved request run, at once or again after a
\* lost answer, they share one session (redeemApproved, trust_task_oob.go:527).
OneWalletSession == Len(sessions) <= 1

\* A request that ended stays as it ended, the key of the wallet that claimed
\* it is never replaced, and only an identified request is approved: handlers
\* that read the row earlier write it only where its state still allows
\* (trust_task_oob.go:348, :396, :606).
DecisionIsFinal ==
    [][/\ login.st \in Final => login'.st = login.st
       /\ login.approver # None => login'.approver = login.approver
       /\ login'.st = "approved" =>
            login.st \in {"identified", "approved"}]_vars

\* The document that took the reservation has its answer on record, whatever
\* became of its execution: sent again it is told it succeeded, never that the
\* reservation is taken (ClaimAndRecord, connection/store.go:262).  The
\* documents of a sign-in have no such promise: their answers are recorded
\* after the commit.
ClaimIsAnswered ==
    reservation # None => guard[reservation].answer = "ok"

\* Only one redeem waits on a request at a time, unless a slow one outlived
\* its lease (AcquireRedeemPoll, walletauth/store.go:14).
OnePoll ==
    troubles = 0 =>
        Cardinality({s \in Slots : task[s].pc = "poll"}) <= 1

\* Redeems share what there is one of: the session and the poll.
RedeemsShare == OneWalletSession /\ OnePoll

\* A redeem that succeeded set a cookie the middleware accepts: it names the
\* account of the session it carries (trust_task_oob.go:375).
SameCookie ==
    \A s \in Slots :
        /\ Handles(s, "redeem", "answer") /\ task[s].says = "ok"
        => sessions[login.session].binding = task[s].row.binding
=============================================================================
