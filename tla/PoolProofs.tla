----------------------------- MODULE PoolProofs -----------------------------
(***************************************************************************)
(* The safety of the pool for any number of batches, members, claims,      *)
(* browsers, workers, process ends and failing answers: no session has two *)
(* holders, a confirmed one never becomes inventory again, cleanup is      *)
(* final and complete, and the sessions that were admitted fit into the    *)
(* cluster.                                                                *)
(***************************************************************************)
EXTENDS Pool, CapacityProofs

----------------------------------------------------------------------------
(* The inductive invariant *)

MemberRows ==
    [st : Statuses, batch : Batches \cup {None}, admin : Claims \cup {None},
     did : BOOLEAN, record : BOOLEAN, cur : Claims \cup {None}, pod : BOOLEAN]

ClaimRows ==
    [st : {"none", "gone", "lapsed", "rejected"} \cup Active \cup Confirmed,
     m : Members \cup {None}, late : BOOLEAN, by : Browsers \cup {None}]

RunPlaces == {"idle", "prepare", "record", "build", "setup", "job", "publish",
              "publish_new", "check", "park", "error", "stop", "delete", "drop"}

ActRows == [pc : {"idle", "loaded", "activate", "ready", "release"},
            cancelled : BOOLEAN]

DelPlaces == {"idle", "wait", "delete", "drop"}

\* Inventory has no administrator; a member that was ever offered, and so
\* every claimed one, has its DNS record saved.
RowFits(m) ==
    /\ member[m].st = "none" => member[m].admin = None /\ member[m].cur = None
    /\ member[m].st = "gone" => member[m].admin = None /\ member[m].cur = None
    /\ member[m].st # "none" => member[m].batch \in Batches
    /\ member[m].st \in Inventory => member[m].admin = None
    /\ member[m].st \in {"provisioning", "running"} => member[m].admin # None
    /\ member[m].st = "pool_waiting" => member[m].record
    /\ member[m].admin # None =>
           /\ member[m].record
           /\ member[m].cur = member[m].admin
           /\ conn[member[m].admin].st \in Confirmed
    /\ member[m].cur # None => conn[member[m].cur].m = m

\* An active claim is the latest of its member, an unconfirmed one is of a
\* waiting member and a confirmed one names the administrator.
ClaimFits(c) ==
    /\ conn[c].m = None <=> conn[c].st \in {"none", "gone"}
    /\ conn[c].m # None =>
           /\ member[conn[c].m].cur # None
           /\ conn[c].st \in Active => member[conn[c].m].cur = c
           /\ conn[c].st \in {"open", "claimed"} =>
                  member[conn[c].m].st = "pool_waiting"
           /\ conn[c].st \in Confirmed => member[conn[c].m].admin = c

\* What the runner's worker may meet where it is: it builds unclaimed
\* members, except that a kick can be taken after the claim it did not wait
\* for; it cleans unclaimed ones and drops no record it knows.
RunFits(m) ==
    /\ run[m] \in {"record", "setup", "job", "publish", "publish_new"} =>
           member[m].st \in Building
    /\ run[m] = "park" => member[m].st = "pool_prepared"
    /\ run[m] = "check" => /\ member[m].st \in Building \cup {"failed", "deleting"}
                           /\ member[m].admin = None
    /\ run[m] \in {"prepare", "build"} =>
           \/ member[m].st \in Building \cup {"gone"}
           \/ member[m].admin # None
    /\ run[m] = "error" =>
           \/ member[m].st \in Building \cup {"failed", "deleting", "gone"}
           \/ member[m].admin # None
    /\ run[m] \in {"build", "setup", "job", "publish", "publish_new", "check",
                   "park"} => member[m].record
    /\ run[m] \in {"stop", "delete", "drop"} =>
           member[m].st = "deleting" /\ member[m].admin = None
    /\ run[m] = "drop" => (member[m].record => m \notin dns)

\* Activation and the owner's deletion work on claimed members.
OwnerFits(m) ==
    /\ act[m].pc # "idle" => member[m].admin # None \/ member[m].st = "gone"
    /\ del[m] # "idle" => member[m].admin # None
    /\ del[m] = "drop" => m \notin dns
    /\ m \in dns => (member[m].st = "gone" => ~member[m].record)

\* The members of a cleaned batch are unclaimed and on their way out.
Drained(b) ==
    \A m \in Members :
        (member[m].batch = b /\ member[m].st \notin {"none", "gone"}) =>
            /\ batch[b].cleanup =>
                   member[m].st = "deleting" /\ member[m].admin = None
            /\ batch[b].st # "gone"

IndInv ==
    /\ TypeOK
    /\ \A m \in Members : RowFits(m) /\ RunFits(m) /\ OwnerFits(m)
    /\ \A c \in Claims : ClaimFits(c)
    /\ \A b \in Batches : Drained(b)
    /\ OneClaimPerBrowser

----------------------------------------------------------------------------
(* Steps that concern one member *)

LEMMA NoneApart == None \notin Members \cup Claims \cup Batches \cup Browsers
  BY PoolAssumption

LEMMA Typed ==
    ASSUME TypeOK
    PROVE  /\ member \in [Members -> MemberRows] /\ conn \in [Claims -> ClaimRows]
           /\ run \in [Members -> RunPlaces] /\ act \in [Members -> ActRows]
           /\ del \in [Members -> DelPlaces]
           /\ dns \subseteq Members /\ kicks \subseteq Members
           /\ req \in [Requests -> [held : BOOLEAN, cap : 0..MaxSessions]]
           /\ raced \in BOOLEAN
           /\ crashes \in 0..farm.crashes /\ faults \in 0..farm.faults
  BY DEF TypeOK, MemberRows, ClaimRows, RunPlaces, ActRows, DelPlaces

\* What no step of the program may do to a member.
Course ==
    \A m \in Members :
        /\ member[m].admin # None =>
               \/ member'[m].st = "gone"
               \/ member'[m].admin = member[m].admin
                  /\ member'[m].st \notin Inventory
        /\ (member[m].st = "deleting" /\ member[m].admin = None) =>
               member'[m].st \in {"deleting", "gone"}

\* Only member m's row is written, and of it neither batch nor claims.
OnlyRow(m) ==
    /\ member' \in [Members -> MemberRows]
    /\ \A n \in Members \ {m} : member'[n] = member[n]
    /\ member'[m].batch = member[m].batch
    /\ member'[m].admin = member[m].admin
    /\ member'[m].cur = member[m].cur

\* The bookkeeping of the runner, the workers and the requests stays in its
\* types and is left alone for the other members.
OnlyWork(m) ==
    /\ run' \in [Members -> RunPlaces]
    /\ act' \in [Members -> ActRows]
    /\ del' \in [Members -> DelPlaces]
    /\ dns' \subseteq Members /\ kicks' \subseteq Members
    /\ \A n \in Members \ {m} :
          /\ run'[n] = run[n] /\ act'[n] = act[n] /\ del'[n] = del[n]
          /\ n \in dns' <=> n \in dns
    /\ req' \in [Requests -> [held : BOOLEAN, cap : 0..MaxSessions]]
    /\ raced' \in BOOLEAN
    /\ crashes' \in 0..farm.crashes /\ faults' \in 0..farm.faults
    /\ farm' = farm

\* The statuses a worker or an operator may give member m.
StatusFits(m) ==
    /\ member'[m].st = "none" <=> member[m].st = "none"
    /\ member'[m].st = "gone" <=> member[m].st = "gone"
    /\ member[m].st = "pool_waiting" => member'[m].st = "pool_waiting"
    /\ member'[m].st = "pool_waiting" => member'[m].record
    /\ member'[m].st \in Inventory => member[m].admin = None
    /\ member'[m].st \in {"provisioning", "running"} => member[m].admin # None
    /\ (member[m].st = "deleting" /\ member[m].admin = None) =>
           member'[m].st = "deleting"
    /\ member[m].record => member'[m].record

\* How a claim goes on as long as its session does.
ClaimGoes(c) ==
    /\ conn'[c].m = conn[c].m /\ conn'[c].by = conn[c].by
    /\ \/ conn'[c].st = conn[c].st
       \/ conn[c].st = "open" /\ conn'[c].st = "claimed"
       \/ /\ conn[c].st \in {"open", "claimed"}
          /\ conn'[c].st \in {"lapsed", "rejected"}
       \/ conn[c].st = "provisioning" /\ conn'[c].st \in {"released", "cancelled"}

LEMMA OneMemberAndClaims ==
    ASSUME IndInv, NEW m \in Members, OnlyRow(m), OnlyWork(m), StatusFits(m),
           UNCHANGED batch,
           conn' \in [Claims -> ClaimRows],
           \A c \in Claims : ClaimGoes(c),
           RunFits(m)', OwnerFits(m)'
    PROVE  IndInv' /\ Course
<1>1. TypeOK'
  BY DEF IndInv, TypeOK, OnlyRow, OnlyWork, MemberRows, ClaimRows, RunPlaces,
         ActRows, DelPlaces
<1>2. ASSUME NEW n \in Members PROVE RowFits(n)'
  <2>1. /\ RowFits(n)
        /\ member'[n].cur = member[n].cur /\ member'[n].admin = member[n].admin
        /\ member[n].cur \in Claims \cup {None} /\ member[n].admin \in Claims \cup {None}
    BY Typed DEF IndInv, OnlyRow, MemberRows
  <2>2. /\ member'[n].cur # None => conn'[member'[n].cur].m = n
        /\ member'[n].admin # None =>
              /\ member'[n].cur = member'[n].admin
              /\ conn'[member'[n].admin].st \in Confirmed
    BY <2>1 DEF RowFits, ClaimGoes, Confirmed
  <2>3. CASE n = m
    BY <2>1, <2>2, <2>3 DEF RowFits, OnlyRow, StatusFits
  <2>4. CASE n # m
    BY <2>1, <2>2, <2>4 DEF RowFits, OnlyRow
  <2>. QED BY <2>3, <2>4
<1>3. ASSUME NEW n \in Members PROVE RunFits(n)' /\ OwnerFits(n)'
  <2>1. CASE n # m
    BY <2>1 DEF IndInv, RunFits, OwnerFits, OnlyRow, OnlyWork
  <2>. QED BY <2>1
<1>4. ASSUME NEW c \in Claims PROVE ClaimFits(c)'
  <2>1. conn \in [Claims -> ClaimRows]
    BY Typed DEF IndInv
  <2>2. conn[c].m \in Members \/ conn[c].m = None
    BY <2>1 DEF ClaimRows
  <2>3. /\ conn'[c].m = None <=> conn'[c].st \in {"none", "gone"}
    BY DEF IndInv, ClaimFits, ClaimGoes, Active
  <2>4. ASSUME conn[c].m \in Members
        PROVE  /\ member'[conn[c].m].cur = member[conn[c].m].cur
               /\ member'[conn[c].m].admin = member[conn[c].m].admin
               /\ member[conn[c].m].st = "pool_waiting" =>
                      member'[conn[c].m].st = "pool_waiting"
    BY <2>4 DEF OnlyRow, StatusFits
  <2>. QED BY <2>2, <2>3, <2>4 DEF IndInv, ClaimFits, ClaimGoes, Active, Confirmed
<1>5. ASSUME NEW b \in Batches PROVE Drained(b)'
  <2>1. ASSUME NEW n \in Members, member'[n].batch = b,
               member'[n].st \notin {"none", "gone"}
        PROVE  /\ batch[b].cleanup =>
                      member'[n].st = "deleting" /\ member'[n].admin = None
               /\ batch[b].st # "gone"
    BY <2>1 DEF IndInv, Drained, OnlyRow, StatusFits
  <2>. QED BY <2>1 DEF Drained
<1>6. OneClaimPerBrowser'
  BY DEF IndInv, OneClaimPerBrowser, ClaimGoes
<1>7. Course
  <2>1. ASSUME NEW n \in Members \ {m} PROVE member'[n] = member[n]
    BY <2>1 DEF OnlyRow
  <2>. QED BY <1>2, <2>1 DEF IndInv, Course, OnlyRow, StatusFits, RowFits
<1>. QED BY <1>1, <1>2, <1>3, <1>4, <1>5, <1>6, <1>7 DEF IndInv

LEMMA OneMember ==
    ASSUME IndInv, NEW m \in Members, OnlyRow(m), OnlyWork(m), StatusFits(m),
           UNCHANGED <<batch, conn>>,
           RunFits(m)', OwnerFits(m)'
    PROVE  IndInv' /\ Course
<1>1. conn' \in [Claims -> ClaimRows] /\ \A c \in Claims : ClaimGoes(c)
  BY Typed DEF IndInv, ClaimGoes
<1>. QED BY <1>1, OneMemberAndClaims

\* A row keeps its shape whichever field is written.
LEMMA RowMoves ==
    ASSUME NEW row \in MemberRows, NEW st \in Statuses
    PROVE  /\ [row EXCEPT !.st = st] \in MemberRows
           /\ [row EXCEPT !.st = st].st = st
           /\ [row EXCEPT !.st = st].batch = row.batch
           /\ [row EXCEPT !.st = st].admin = row.admin
           /\ [row EXCEPT !.st = st].cur = row.cur
           /\ [row EXCEPT !.st = st].record = row.record
  BY DEF MemberRows

LEMMA RecordMoves ==
    ASSUME NEW row \in MemberRows
    PROVE  /\ [row EXCEPT !.record = TRUE] \in MemberRows
           /\ [row EXCEPT !.record = TRUE].record = TRUE
           /\ [row EXCEPT !.record = TRUE].st = row.st
           /\ [row EXCEPT !.record = TRUE].batch = row.batch
           /\ [row EXCEPT !.record = TRUE].admin = row.admin
           /\ [row EXCEPT !.record = TRUE].cur = row.cur
  BY DEF MemberRows

LEMMA DidMoves ==
    ASSUME NEW row \in MemberRows
    PROVE  /\ [row EXCEPT !.did = TRUE] \in MemberRows
           /\ [row EXCEPT !.did = TRUE].record = row.record
           /\ [row EXCEPT !.did = TRUE].st = row.st
           /\ [row EXCEPT !.did = TRUE].batch = row.batch
           /\ [row EXCEPT !.did = TRUE].admin = row.admin
           /\ [row EXCEPT !.did = TRUE].cur = row.cur
  BY DEF MemberRows

LEMMA PodMoves ==
    ASSUME NEW row \in MemberRows
    PROVE  /\ [row EXCEPT !.pod = TRUE] \in MemberRows
           /\ [row EXCEPT !.pod = TRUE].record = row.record
           /\ [row EXCEPT !.pod = TRUE].st = row.st
           /\ [row EXCEPT !.pod = TRUE].batch = row.batch
           /\ [row EXCEPT !.pod = TRUE].admin = row.admin
           /\ [row EXCEPT !.pod = TRUE].cur = row.cur
  BY DEF MemberRows

LEMMA SetMoves ==
    ASSUME member \in [Members -> MemberRows], NEW m \in Members,
           NEW st \in Statuses, Set(m, st)
    PROVE  /\ OnlyRow(m)
           /\ member'[m].st = st /\ member'[m].record = member[m].record
<1>1. member' = [member EXCEPT ![m] = [member[m] EXCEPT !.st = st]]
  BY DEF Set
<1>. QED BY <1>1, RowMoves DEF OnlyRow

LEMMA WriteMoves ==
    ASSUME member \in [Members -> MemberRows], NEW m \in Members,
           NEW st \in Statuses, Write(m, st)
    PROVE  /\ OnlyRow(m)
           /\ member[m].st # "gone" => member'[m].st = st
           /\ member[m].st = "gone" => member'[m].st = "gone"
           /\ member'[m].record = member[m].record
<1>. DEFINE new == IF member[m].st = "gone" THEN "gone" ELSE st
<1>1. new \in Statuses
  BY DEF Statuses
<1>2. member' = [member EXCEPT ![m] = [member[m] EXCEPT !.st = new]]
  BY DEF Write
<1>. HIDE DEF new
<1>3. OnlyRow(m) /\ member'[m].st = new /\ member'[m].record = member[m].record
  BY <1>1, <1>2, RowMoves DEF OnlyRow
<1>. QED BY <1>3 DEF new

\* A step that leaves every row alone.
LEMMA RowKept ==
    ASSUME IndInv, NEW m \in Members, UNCHANGED member
    PROVE  OnlyRow(m) /\ StatusFits(m)
  BY Typed DEF IndInv, OnlyRow, StatusFits, RowFits

----------------------------------------------------------------------------
(* The runner, the activation worker and the owner's deletion *)

LEMMA Counted ==
    ASSUME IndInv, Fault
    PROVE  faults' \in 0..farm.faults
<1>1. farm.faults \in Nat /\ faults \in 0..farm.faults
  BY PoolAssumption DEF IndInv, TypeOK
<1>. QED BY <1>1 DEF Fault

\* The worker of member m goes on; the other workers do not.
LEMMA RunnerMoves ==
    ASSUME IndInv, NEW m \in Members, NEW pc \in RunPlaces, Go(m, pc),
           UNCHANGED <<farm, act, del, req, crashes>>,
           raced' \in BOOLEAN,
           dns' \subseteq Members, kicks' \subseteq Members,
           \A n \in Members \ {m} : n \in dns' <=> n \in dns,
           faults' = faults \/ Fault
    PROVE  OnlyWork(m) /\ run'[m] = pc
<1>1. faults' \in 0..farm.faults
  BY Counted, Typed DEF IndInv
<1>. QED BY <1>1, Typed DEF IndInv, OnlyWork, Go

\* A step of the runner that leaves the row alone.
LEMMA RunnerKeeps ==
    ASSUME IndInv, NEW m \in Members,
           Reconcile(m) \/ DropKick(m) \/ RunOne(m) \/ Prepare(m) \/ Build(m)
           \/ Check(m) \/ CleanupDelete(m)
    PROVE  IndInv' /\ Course
<1>1. UNCHANGED <<batch, member, conn>>
  BY DEF Reconcile, DropKick, RunOne, Prepare, Build, Check, CleanupDelete, rows
<1>2. OnlyRow(m) /\ StatusFits(m)
  BY <1>1, RowKept
<1>3. RowFits(m) /\ RunFits(m) /\ OwnerFits(m)
  BY DEF IndInv
<1>4. OwnerFits(m)' /\ RunFits(m)' /\ OnlyWork(m) => IndInv' /\ Course
  BY <1>1, <1>2, OneMember
<1>5. CASE Reconcile(m) \/ DropKick(m)
  <2>1. OnlyWork(m)
    BY <1>5, Typed DEF IndInv, Reconcile, DropKick, OnlyWork, workers, bounds
  <2>2. OwnerFits(m)' /\ RunFits(m)'
    BY <1>1, <1>3, <1>5 DEF Reconcile, DropKick, OwnerFits, RunFits, workers
  <2>. QED BY <1>4, <2>1, <2>2
<1>6. CASE RunOne(m)
  <2>1. PICK pc \in {"idle", "prepare", "stop"} :
          /\ Go(m, pc)
          /\ pc = "stop" => member[m].st = "deleting" /\ member[m].admin = None
          /\ pc = "prepare" => member[m].st \notin
                 {"deleting", "pool_waiting", "running", "failed", "none", "gone"}
    BY <1>6 DEF RunOne, Go, Unclaimed
  <2>2. /\ UNCHANGED <<farm, act, del, req, crashes, dns, faults, raced>>
        /\ kicks' \subseteq Members /\ pc \in RunPlaces
    BY <1>6, <2>1, Typed DEF RunOne, bounds, IndInv, RunPlaces
  <2>3. OnlyWork(m) /\ run'[m] = pc
    BY <2>1, <2>2, Typed, RunnerMoves DEF IndInv
  <2>4. member[m].st \in Building \cup {"provisioning"} \/ pc # "prepare"
    BY <2>1, Typed DEF IndInv, MemberRows, Statuses, Inventory
  <2>5. OwnerFits(m)' /\ RunFits(m)'
    BY <1>1, <1>3, <2>1, <2>2, <2>3, <2>4 DEF OwnerFits, RunFits, RowFits
  <2>. QED BY <1>4, <2>3, <2>5
<1>7. CASE Prepare(m)
  <2>1. PICK pc \in {"error", "build", "record"} :
          /\ Go(m, pc)
          /\ pc = "build" => member[m].record
          /\ pc = "record" => /\ member[m].st \notin {"deleting", "gone"}
                              /\ ~member[m].record
          /\ dns' = dns \/ (dns' = dns \cup {m} /\ ~member[m].record)
          /\ faults' = faults \/ Fault
          /\ run[m] = "prepare"
    BY <1>7 DEF Prepare, At
  <2>2. /\ UNCHANGED <<farm, act, del, req, crashes, kicks, raced>>
        /\ pc \in RunPlaces
    BY <1>7, <2>1 DEF Prepare, RunPlaces
  <2>3. OnlyWork(m) /\ run'[m] = pc
    BY <2>1, <2>2, Typed, RunnerMoves DEF IndInv
  <2>4. OwnerFits(m)' /\ RunFits(m)'
    BY <1>1, <1>3, <2>1, <2>2, <2>3 DEF OwnerFits, RunFits, RowFits
  <2>. QED BY <1>4, <2>3, <2>4
<1>8. CASE Build(m)
  <2>1. PICK pc \in {"error", "idle", "publish", "setup"} :
          /\ Go(m, pc)
          /\ pc \in {"publish", "setup"} => /\ member[m].admin = None
                                           /\ member[m].st # "gone"
          /\ run[m] = "build"
    BY <1>8 DEF Build, At
  <2>2. /\ UNCHANGED <<farm, act, del, req, crashes, dns, faults, kicks, raced>>
        /\ pc \in RunPlaces
    BY <1>8, <2>1 DEF Build, RunPlaces, bounds
  <2>3. OnlyWork(m) /\ run'[m] = pc
    BY <2>1, <2>2, Typed, RunnerMoves DEF IndInv
  <2>4. OwnerFits(m)' /\ RunFits(m)'
    BY <1>1, <1>3, <2>1, <2>2, <2>3 DEF OwnerFits, RunFits, RowFits
  <2>. QED BY <1>4, <2>3, <2>4
<1>9. CASE Check(m)
  <2>1. PICK pc \in {"error", "park"} :
          /\ Go(m, pc)
          /\ pc = "park" => member[m].st = "pool_prepared"
          /\ run[m] = "check"
          /\ faults' = faults \/ Fault
    BY <1>9 DEF Check, At
  <2>2. /\ UNCHANGED <<farm, act, del, req, crashes, dns, kicks, raced>>
        /\ pc \in RunPlaces
    BY <1>9, <2>1 DEF Check, RunPlaces
  <2>3. OnlyWork(m) /\ run'[m] = pc
    BY <2>1, <2>2, Typed, RunnerMoves DEF IndInv
  <2>4. OwnerFits(m)' /\ RunFits(m)'
    BY <1>1, <1>3, <2>1, <2>2, <2>3 DEF OwnerFits, RunFits, RowFits
  <2>. QED BY <1>4, <2>3, <2>4
<1>10. CASE CleanupDelete(m)
  <2>1. PICK pc \in {"drop", "idle"} :
          /\ Go(m, pc)
          /\ dns' = dns \/ dns' = dns \ {m}
          /\ pc = "drop" => (member[m].record => m \notin dns')
          /\ run[m] = "delete"
          /\ faults' = faults \/ Fault
    BY <1>10 DEF CleanupDelete, DeleteRecord, At
  <2>2. /\ UNCHANGED <<farm, act, del, req, crashes, kicks, raced>>
        /\ pc \in RunPlaces
    BY <1>10, <2>1 DEF CleanupDelete, RunPlaces
  <2>3. OnlyWork(m) /\ run'[m] = pc
    BY <2>1, <2>2, Typed, RunnerMoves DEF IndInv
  <2>4. OwnerFits(m)' /\ RunFits(m)'
    BY <1>1, <1>3, <2>1, <2>2, <2>3 DEF OwnerFits, RunFits, RowFits
  <2>. QED BY <1>4, <2>3, <2>4
<1>. QED BY <1>5, <1>6, <1>7, <1>8, <1>9, <1>10

\* A step of the runner that writes the row of the member it builds.
LEMMA BuilderKeeps ==
    ASSUME IndInv, NEW m \in Members,
           SaveRecord(m) \/ Setup(m) \/ SetupJob(m) \/ Publish(m) \/ Park(m)
           \/ RecordBuildError(m)
    PROVE  IndInv' /\ Course
<1>1. member \in [Members -> MemberRows] /\ dns \subseteq Members
      /\ kicks \subseteq Members /\ raced \in BOOLEAN
  BY Typed DEF IndInv
<1>2. RowFits(m) /\ RunFits(m) /\ OwnerFits(m)
  BY DEF IndInv
<1>3. UNCHANGED <<farm, batch, conn, dns, kicks, act, del, req, raced, crashes>>
  BY DEF SaveRecord, Setup, SetupJob, Publish, Park, RecordBuildError, bounds
\* What each of them writes, and where it goes.
<1>4. ASSUME NEW pc \in RunPlaces, Go(m, pc), faults' = faults \/ Fault,
             OnlyRow(m), StatusFits(m), RunFits(m)',
             member[m].st = "gone" => member'[m].record = member[m].record
      PROVE  IndInv' /\ Course
  <2>1. OnlyWork(m)
    BY <1>1, <1>3, <1>4, RunnerMoves
  <2>2. OwnerFits(m)'
    BY <1>2, <1>3, <1>4 DEF OwnerFits, OnlyRow, StatusFits, RowFits
  <2>. QED BY <1>3, <1>4, <2>1, <2>2, OneMember
<1>5. /\ run[m] \in {"record", "setup", "job", "publish", "publish_new", "park"} =>
             member[m].st \in Building /\ member[m].admin = None
      /\ "idle" \in RunPlaces /\ "check" \in RunPlaces /\ "error" \in RunPlaces
      /\ "build" \in RunPlaces /\ "job" \in RunPlaces /\ "publish_new" \in RunPlaces
  BY <1>2 DEF RunFits, RowFits, Building, Inventory, RunPlaces
<1>6. /\ Building \subseteq Statuses /\ {"failed", "pool_waiting"} \subseteq Statuses
      /\ Building \subseteq Inventory /\ "failed" \notin Inventory
      /\ Building \cap {"none", "gone", "pool_waiting", "deleting", "failed",
                        "provisioning", "running"} = {}
      /\ {"vta_setup_running", "pool_publishing", "pool_prepared"} \subseteq Building
  BY DEF Statuses, Inventory, Building
\* A status written to a member that is being built.
<1>7. ASSUME member[m].st \in Building, member[m].admin = None,
             OnlyRow(m), member[m].record => member'[m].record,
             \/ member'[m].st \in Building \cup {"failed"}
             \/ member'[m].st = "pool_waiting" /\ member'[m].record
      PROVE  StatusFits(m) /\ member[m].st # "gone"
  BY <1>6, <1>7, NoneApart DEF StatusFits
<1>8. CASE SaveRecord(m)
  <2>1. /\ run[m] = "record" /\ Go(m, "build")
        /\ member' = [member EXCEPT ![m] = [member[m] EXCEPT !.record = TRUE]]
    BY <1>5, <1>6, <1>8 DEF SaveRecord, At
  <2>2. /\ OnlyRow(m) /\ member'[m].st = member[m].st /\ member'[m].record
        /\ run'[m] = "build"
    BY <1>1, <2>1, RecordMoves, Typed DEF OnlyRow, IndInv, Go
  <2>3. RunFits(m)'
    BY <1>5, <2>1, <2>2 DEF RunFits
  <2>4. faults' = faults
    BY <1>8 DEF SaveRecord, bounds
  <2>. QED BY <1>4, <1>5, <1>7, <2>1, <2>2, <2>3, <2>4
<1>9. CASE Setup(m)
  <2>1. PICK st \in {"vta_setup_running", "failed"}, pc \in {"job", "check"} :
          /\ run[m] = "setup" /\ Go(m, pc) /\ Write(m, st)
          /\ pc = "job" => st = "vta_setup_running"
          /\ faults' = faults \/ Fault
    BY <1>9 DEF Setup, At
  <2>2. /\ OnlyRow(m) /\ member'[m].st = st /\ member'[m].record = member[m].record
        /\ run'[m] = pc
    BY <1>1, <1>5, <1>6, <2>1, WriteMoves, Typed DEF IndInv, Go
  <2>3. RunFits(m)'
    BY <1>2, <1>5, <1>6, <2>1, <2>2 DEF RunFits, OnlyRow
  <2>. QED BY <1>4, <1>5, <1>6, <1>7, <2>1, <2>2, <2>3
<1>10. CASE SetupJob(m) /\ Go(m, "publish_new")
  <2>1. /\ run[m] = "job" /\ UNCHANGED faults
        /\ member' = [member EXCEPT ![m].did = TRUE,
                          ![m].st = IF @ = "gone" THEN @ ELSE "pool_publishing"]
    BY <1>10, Typed DEF SetupJob, At, Go, IndInv, RunPlaces
  <2>. DEFINE row == [member[m] EXCEPT !.did = TRUE]
  <2>2. row \in MemberRows /\ row.st = member[m].st /\ row.record = member[m].record
        /\ row.batch = member[m].batch /\ row.admin = member[m].admin
        /\ row.cur = member[m].cur
    BY <1>1, DidMoves
  <2>3. member' = [member EXCEPT ![m] = [row EXCEPT !.st =
                     IF row.st = "gone" THEN row.st ELSE "pool_publishing"]]
    BY <1>1, <2>1
  <2>. HIDE DEF row
  <2>4. member' = [member EXCEPT ![m] = [row EXCEPT !.st = "pool_publishing"]]
    BY <1>5, <1>6, <2>1, <2>2, <2>3
  <2>5. /\ OnlyRow(m) /\ member'[m].st = "pool_publishing"
        /\ member'[m].record = member[m].record
    BY <1>1, <1>6, <2>2, <2>4, RowMoves DEF OnlyRow
  <2>6. run'[m] = "publish_new"
    BY <1>10, Typed DEF IndInv, Go
  <2>7. RunFits(m)'
    BY <1>2, <1>6, <2>1, <2>5, <2>6 DEF RunFits
  <2>. QED BY <1>4, <1>5, <1>6, <1>7, <1>10, <2>1, <2>5, <2>7
<1>11. CASE SetupJob(m) /\ ~Go(m, "publish_new")
  <2>1. run[m] = "job" /\ Go(m, "check") /\ Write(m, "failed") /\ Fault
    BY <1>11 DEF SetupJob, At
  <2>2. /\ OnlyRow(m) /\ member'[m].st = "failed"
        /\ member'[m].record = member[m].record /\ run'[m] = "check"
    BY <1>1, <1>5, <1>6, <2>1, WriteMoves, Typed DEF IndInv, Go
  <2>3. RunFits(m)'
    BY <1>2, <1>5, <1>6, <2>1, <2>2 DEF RunFits, OnlyRow
  <2>. QED BY <1>4, <1>5, <1>6, <1>7, <2>1, <2>2, <2>3
<1>12. CASE Publish(m)
  <2>1. run[m] \in {"publish", "publish_new"}
    BY <1>12 DEF Publish
  <2>2. CASE UNCHANGED faults
    <3>1. Go(m, "check") /\ Set(m, "pool_prepared")
      BY <1>5, <1>6, <1>12, <2>1, <2>2, Typed DEF Publish, Fault, IndInv
    <3>2. /\ OnlyRow(m) /\ member'[m].st = "pool_prepared"
          /\ member'[m].record = member[m].record /\ run'[m] = "check"
      BY <1>1, <1>6, <3>1, SetMoves, Typed DEF IndInv, Go
    <3>3. RunFits(m)'
      BY <1>2, <1>5, <1>6, <2>1, <3>2 DEF RunFits, OnlyRow
    <3>. QED BY <1>4, <1>5, <1>6, <1>7, <2>1, <2>2, <3>1, <3>2, <3>3
  <2>3. CASE Fault /\ run[m] = "publish" /\ Go(m, "error") /\ UNCHANGED member
    <3>1. run'[m] = "error" /\ OnlyRow(m) /\ StatusFits(m)
      BY <2>3, RowKept, Typed DEF IndInv, Go
    <3>2. RunFits(m)'
      BY <1>5, <2>3, <3>1 DEF RunFits
    <3>. QED BY <1>4, <1>5, <2>3, <3>1, <3>2
  <2>4. CASE Fault /\ run[m] = "publish_new" /\ Go(m, "check") /\ Write(m, "failed")
    <3>1. /\ OnlyRow(m) /\ member'[m].st = "failed"
          /\ member'[m].record = member[m].record /\ run'[m] = "check"
      BY <1>1, <1>5, <1>6, <2>4, WriteMoves, Typed DEF IndInv, Go
    <3>2. RunFits(m)'
      BY <1>2, <1>5, <1>6, <2>4, <3>1 DEF RunFits, OnlyRow
    <3>. QED BY <1>4, <1>5, <1>6, <1>7, <2>4, <3>1, <3>2
  <2>. QED BY <1>12, <2>1, <2>2, <2>3, <2>4 DEF Publish
<1>13. CASE Park(m)
  <2>1. run[m] = "park" /\ Go(m, "idle") /\ Write(m, "pool_waiting") /\ faults' = faults
    BY <1>13 DEF Park, At, bounds
  <2>2. /\ OnlyRow(m) /\ member'[m].st = "pool_waiting"
        /\ member'[m].record = member[m].record /\ run'[m] = "idle"
    BY <1>1, <1>5, <1>6, <2>1, WriteMoves, Typed DEF IndInv, Go
  <2>3. member[m].record
    BY <1>2, <2>1 DEF RunFits
  <2>4. RunFits(m)'
    BY <2>2 DEF RunFits
  <2>. QED BY <1>4, <1>5, <1>6, <1>7, <2>1, <2>2, <2>3, <2>4
<1>14. CASE RecordBuildError(m)
  <2>1. /\ run[m] = "error" /\ Go(m, "idle") /\ faults' = faults
        /\ \/ UNCHANGED member
           \/ Set(m, "failed") /\ member[m].st \notin {"deleting", "gone"}
    BY <1>14 DEF RecordBuildError, At, bounds
  <2>2. run'[m] = "idle" /\ RunFits(m)'
    <3>1. run'[m] = "idle"
      BY <2>1, Typed DEF IndInv, Go
    <3>. QED BY <3>1 DEF RunFits
  <2>3. CASE UNCHANGED member
    <3>1. OnlyRow(m) /\ StatusFits(m)
      BY <2>3, RowKept
    <3>. QED BY <1>4, <1>5, <2>1, <2>2, <2>3, <3>1
  <2>4. CASE Set(m, "failed") /\ member[m].st \notin {"deleting", "gone"}
    <3>1. OnlyRow(m) /\ member'[m].st = "failed" /\ member'[m].record = member[m].record
      BY <1>1, <1>6, <2>4, SetMoves
    <3>2. member[m].st # "none" /\ member[m].st # "pool_waiting"
      BY <1>2, <1>6, <2>1, NoneApart DEF RunFits, RowFits, Inventory
    <3>3. StatusFits(m)
      BY <1>6, <2>4, <3>1, <3>2 DEF StatusFits
    <3>. QED BY <1>4, <1>5, <2>1, <2>2, <2>4, <3>1, <3>3
  <2>. QED BY <2>1, <2>3, <2>4
<1>. QED BY <1>8, <1>9, <1>10, <1>11, <1>12, <1>13, <1>14

LEMMA ActGoes ==
    ASSUME act \in [Members -> ActRows], NEW m \in Members,
           NEW pc \in {"idle", "loaded", "activate", "ready", "release"},
           \/ ActGo(m, pc)
           \/ act' = [act EXCEPT ![m] = [pc |-> pc, cancelled |-> FALSE]]
    PROVE  /\ act' \in [Members -> ActRows] /\ act'[m].pc = pc
           /\ \A n \in Members \ {m} : act'[n] = act[n]
<1>1. PICK on \in BOOLEAN : act' = [act EXCEPT ![m] = [pc |-> pc, cancelled |-> on]]
  BY DEF ActGo
<1>2. [pc |-> pc, cancelled |-> on] \in ActRows
  BY DEF ActRows
<1>. QED BY <1>1, <1>2

\* A step of the activation worker, or of the operator who restarts it,
\* gives a claimed member any status but one of the inventory.
LEMMA ActivationKeeps ==
    ASSUME IndInv, NEW m \in Members,
           RetryActivation(m) \/ TakeActivation(m) \/ StartActivation(m)
           \/ Activate(m) \/ FinishActivation(m)
    PROVE  IndInv' /\ Course
<1>1. member \in [Members -> MemberRows] /\ act \in [Members -> ActRows]
  BY Typed DEF IndInv
<1>2. RowFits(m) /\ RunFits(m) /\ OwnerFits(m)
  BY DEF IndInv
<1>3. UNCHANGED <<farm, batch, conn, dns, kicks, run, del, req, crashes>>
  BY DEF RetryActivation, TakeActivation, StartActivation, Activate,
         FinishActivation, rows, workers, bounds
<1>4. {"provisioning", "running", "failed"} \subseteq Statuses
      /\ {"provisioning", "running", "failed", "none", "gone", "deleting"}
            \cap Inventory = {}
  BY DEF Statuses, Inventory, Building
\* Whatever it writes is written to a claimed member, or to none.
<1>5. ASSUME member[m].admin # None \/ member[m].st = "gone",
             \/ UNCHANGED member
             \/ /\ OnlyRow(m) /\ member'[m].record = member[m].record
                /\ \/ member'[m].st \in {"provisioning", "running", "failed"}
                         /\ member[m].st # "gone"
                   \/ member'[m].st = member[m].st,
             NEW pc \in {"idle", "loaded", "activate", "ready", "release"},
             act'[m].pc = pc, act' \in [Members -> ActRows],
             \A n \in Members \ {m} : act'[n] = act[n],
             raced' \in BOOLEAN,
             faults' = faults \/ Fault
      PROVE  IndInv' /\ Course
  <2>1. faults' \in 0..farm.faults
    BY <1>5, Counted, Typed DEF IndInv
  <2>2. OnlyWork(m)
    BY <1>3, <1>5, <2>1, Typed DEF OnlyWork, IndInv
  <2>3. member[m].st # "none" /\ member[m].st # "pool_waiting"
    BY <1>2, <1>5, NoneApart DEF RowFits, Inventory
  <2>4. OnlyRow(m) /\ StatusFits(m)
    <3>1. CASE UNCHANGED member
      BY <3>1, RowKept
    <3>2. CASE ~UNCHANGED member
      BY <1>2, <1>4, <1>5, <2>3, <3>2 DEF StatusFits, RowFits, OnlyRow, Inventory
    <3>. QED BY <3>1, <3>2
  <2>5. RunFits(m)'
    <3>1. CASE member[m].admin # None
      <4>1. run[m] \in {"idle", "prepare", "build", "error"}
        BY <1>2, <3>1, Typed DEF IndInv, RunPlaces, RunFits, RowFits, Inventory,
                                 Building
      <4>. QED BY <1>2, <1>3, <2>4, <3>1, <4>1 DEF RunFits, OnlyRow, StatusFits
    <3>2. CASE member[m].admin = None
      <4>1. member[m].st = "gone" /\ member'[m].st = "gone"
        BY <1>5, <3>2, <2>4 DEF StatusFits
      <4>. QED BY <1>2, <1>3, <2>4, <3>2, <4>1 DEF RunFits, OnlyRow, StatusFits
    <3>. QED BY <3>1, <3>2
  <2>6. OwnerFits(m)'
    BY <1>2, <1>3, <1>5, <2>4 DEF OwnerFits, RowFits, OnlyRow, StatusFits
  <2>. QED BY <1>3, <2>2, <2>4, <2>5, <2>6, OneMember
<1>6. ASSUME NEW st \in {"provisioning", "running", "failed"}, Write(m, st)
      PROVE  /\ OnlyRow(m) /\ member'[m].record = member[m].record
             /\ \/ member'[m].st = st /\ member[m].st # "gone"
                \/ member'[m].st = member[m].st
  BY <1>1, <1>4, <1>6, WriteMoves
<1>7. act[m].pc # "idle" => member[m].admin # None \/ member[m].st = "gone"
  BY <1>2 DEF OwnerFits
<1>8. raced \in BOOLEAN /\ act[m].pc \in {"idle", "loaded", "activate", "ready", "release"}
  BY <1>1, Typed DEF IndInv, ActRows
<1>9. CASE RetryActivation(m)
  <2>1. /\ OnlyRow(m) /\ member'[m].record = member[m].record
        /\ member'[m].st = "provisioning" /\ member[m].st = "failed"
        /\ member[m].admin # None
    BY <1>1, <1>4, <1>9, SetMoves DEF RetryActivation
  <2>2. UNCHANGED <<act, raced, faults>>
    BY <1>9 DEF RetryActivation, workers, bounds
  <2>. QED BY <1>1, <1>5, <1>8, <2>1, <2>2
<1>10. CASE TakeActivation(m)
  <2>1. /\ UNCHANGED <<member, raced, faults>> /\ member[m].admin # None
        /\ act' = [act EXCEPT ![m] = [pc |-> "loaded", cancelled |-> FALSE]]
    BY <1>10 DEF TakeActivation, rows, bounds
  <2>. QED BY <1>1, <1>5, <1>8, <2>1, ActGoes
<1>11. CASE StartActivation(m)
  <2>1. /\ act[m].pc = "loaded" /\ Write(m, "provisioning") /\ ActGo(m, "activate")
        /\ UNCHANGED <<raced, faults>>
    BY <1>11 DEF StartActivation, bounds
  <2>. QED BY <1>1, <1>5, <1>6, <1>7, <1>8, <2>1, ActGoes
<1>12. CASE Activate(m)
  <2>1. act[m].pc = "activate" /\ UNCHANGED raced
    BY <1>12 DEF Activate
  <2>2. CASE /\ member' = [member EXCEPT ![m].pod = TRUE]
             /\ ActGo(m, "ready") /\ UNCHANGED faults
    <3>1. /\ OnlyRow(m) /\ member'[m].record = member[m].record
          /\ member'[m].st = member[m].st
      BY <1>1, <2>2, PodMoves DEF OnlyRow
    <3>. QED BY <1>1, <1>5, <1>7, <1>8, <2>1, <2>2, <3>1, ActGoes
  <2>3. CASE /\ Write(m, "failed") \/ UNCHANGED member
             /\ ActGo(m, "idle") /\ (UNCHANGED faults \/ Fault)
    BY <1>1, <1>5, <1>6, <1>7, <1>8, <2>1, <2>3, ActGoes
  <2>. QED BY <1>12, <2>2, <2>3 DEF Activate
<1>13. CASE FinishActivation(m)
  <2>1. act[m].pc = "ready"
    BY <1>13 DEF FinishActivation
  <2>2. CASE /\ Write(m, "running") /\ ActGo(m, "release") /\ UNCHANGED faults
             /\ raced' = (raced \/ \E r \in Requests : req[r].held)
    <3>1. raced' \in BOOLEAN
      BY <2>2
    <3>. QED BY <1>1, <1>5, <1>6, <1>7, <1>8, <2>1, <2>2, <3>1, ActGoes
  <2>3. CASE /\ Write(m, "failed") \/ UNCHANGED member
             /\ ActGo(m, "idle") /\ (UNCHANGED faults \/ Fault) /\ UNCHANGED raced
    BY <1>1, <1>5, <1>6, <1>7, <1>8, <2>1, <2>3, ActGoes
  <2>. QED BY <1>13, <2>2, <2>3 DEF FinishActivation
<1>. QED BY <1>9, <1>10, <1>11, <1>12, <1>13

\* The operator's retry of a build, and the waiting of an owner's deletion.
LEMMA RetryBuildKeeps ==
    ASSUME IndInv, NEW m \in Members, RetryBuild(m)
    PROVE  IndInv' /\ Course
<1>1. /\ run[m] = "idle" /\ member[m].st = "failed" /\ member[m].admin = None
      /\ Set(m, "pool_creating")
      /\ UNCHANGED <<farm, batch, conn, dns, workers, req, raced, bounds>>
      /\ kicks' \in {kicks, kicks \cup {m}}
  BY DEF RetryBuild, Kick
<1>2. "pool_creating" \in Statuses /\ "pool_creating" # "pool_waiting"
  BY DEF Statuses, Inventory, Building
<1>3. OnlyRow(m) /\ member'[m].st = "pool_creating" /\ member'[m].record = member[m].record
  BY <1>1, <1>2, SetMoves, Typed DEF IndInv
<1>4. StatusFits(m)
  BY <1>1, <1>3 DEF StatusFits
<1>5. OnlyWork(m)
  BY <1>1, Typed DEF OnlyWork, IndInv, workers, bounds
<1>6. RunFits(m)'
  BY <1>1 DEF RunFits, workers
<1>7. OwnerFits(m)'
  BY <1>1, <1>3 DEF IndInv, OwnerFits, workers, OnlyRow
<1>. QED BY <1>1, <1>3, <1>4, <1>5, <1>6, <1>7, OneMember

LEMMA OwnerKeeps ==
    ASSUME IndInv, NEW m \in Members, OwnerWait(m) \/ OwnerDeleteRecord(m)
    PROVE  IndInv' /\ Course
<1>1. /\ UNCHANGED <<farm, batch, member, conn, kicks, run, act, req, raced, crashes>>
      /\ faults' = faults \/ Fault
      /\ del[m] # "idle"
  BY DEF OwnerWait, OwnerDeleteRecord, DeleteRecord, rows, bounds
<1>2. PICK pc \in {"idle", "delete", "drop"} :
         /\ del' = [del EXCEPT ![m] = pc]
         /\ dns' = dns \/ dns' = dns \ {m}
         /\ pc = "drop" => (member[m].record => m \notin dns')
  BY DEF OwnerWait, OwnerDeleteRecord, DeleteRecord
<1>3. OnlyRow(m) /\ StatusFits(m)
  BY <1>1, RowKept
<1>4. faults' \in 0..farm.faults
  BY <1>1, Counted, Typed DEF IndInv
<1>5. OnlyWork(m) /\ del'[m] = pc
  BY <1>1, <1>2, <1>4, Typed DEF OnlyWork, IndInv, DelPlaces
<1>6. RunFits(m)'
  BY <1>1, <1>2 DEF IndInv, RunFits
<1>7. OwnerFits(m)'
  BY <1>1, <1>2, <1>5 DEF IndInv, OwnerFits, RowFits
<1>. QED BY <1>1, <1>3, <1>5, <1>6, <1>7, OneMember

----------------------------------------------------------------------------
(* Claims *)

ClaimStates == {"none", "gone", "lapsed", "rejected"} \cup Active \cup Confirmed

\* A row keeps its shape whichever field is written.
LEMMA ClaimMoves ==
    ASSUME NEW row \in ClaimRows, NEW st \in ClaimStates
    PROVE  /\ [row EXCEPT !.st = st] \in ClaimRows
           /\ [row EXCEPT !.st = st].st = st
           /\ [row EXCEPT !.st = st].m = row.m
           /\ [row EXCEPT !.st = st].by = row.by
           /\ [row EXCEPT !.late = TRUE] \in ClaimRows
           /\ [row EXCEPT !.late = TRUE].st = row.st
           /\ [row EXCEPT !.late = TRUE].m = row.m
           /\ [row EXCEPT !.late = TRUE].by = row.by
  BY DEF ClaimRows, ClaimStates

LEMMA ClaimWritten ==
    ASSUME NEW row \in ClaimRows, NEW st \in ClaimStates, NEW new,
           new = [row EXCEPT !.st = st]
    PROVE  new \in ClaimRows /\ new.st = st /\ new.m = row.m /\ new.by = row.by
  BY DEF ClaimRows, ClaimStates

LEMMA ClaimsGo ==
    ASSUME IndInv,
           UNCHANGED <<farm, batch, member, dns, kicks, run, del, req, raced,
                       crashes, faults>>,
           act' \in [Members -> ActRows],
           \A m \in Members : act'[m].pc \in {act[m].pc, "idle"},
           conn' \in [Claims -> ClaimRows],
           \A c \in Claims : ClaimGoes(c)
    PROVE  IndInv' /\ Course
<1>1. TypeOK'
  BY DEF IndInv, TypeOK, ClaimRows, ActRows
<1>2. ASSUME NEW m \in Members PROVE RowFits(m)'
  <2>1. /\ member[m].admin \in Claims \cup {None} /\ member[m].cur \in Claims \cup {None}
    BY Typed DEF IndInv, MemberRows
  <2>. QED BY <2>1 DEF IndInv, RowFits, ClaimGoes, Confirmed
<1>3. ASSUME NEW m \in Members PROVE RunFits(m)' /\ OwnerFits(m)'
  BY DEF IndInv, RunFits, OwnerFits
<1>4. ASSUME NEW c \in Claims PROVE ClaimFits(c)'
  BY DEF IndInv, ClaimFits, ClaimGoes, Active, Confirmed
<1>5. ASSUME NEW b \in Batches PROVE Drained(b)'
  BY DEF IndInv, Drained
<1>6. OneClaimPerBrowser'
  BY DEF IndInv, OneClaimPerBrowser, ClaimGoes
<1>7. Course
  BY DEF IndInv, Course, RowFits
<1>. QED BY <1>1, <1>2, <1>3, <1>4, <1>5, <1>6, <1>7 DEF IndInv

LEMMA ClaimStepsKeep ==
    ASSUME IndInv, NEW c \in Claims, Claim(c) \/ Expire(c) \/ Reject(c) \/ View(c)
    PROVE  IndInv' /\ Course
<1>1. UNCHANGED <<farm, batch, member, dns, kicks, run, act, del, req, raced,
                  crashes, faults>>
  BY DEF Claim, Expire, Reject, View, workers, bounds
<1>2. PICK st \in ClaimStates :
        /\ \/ conn' = [conn EXCEPT ![c].st = st]
           \/ conn' = [conn EXCEPT ![c].late = TRUE] /\ st = conn[c].st
        /\ \/ st = conn[c].st
           \/ conn[c].st = "open" /\ st = "claimed"
           \/ /\ conn[c].st \in {"open", "claimed"}
              /\ st \in {"lapsed", "rejected"}
           \/ conn[c].st = "provisioning" /\ st = "released"
  BY DEF Claim, Expire, Reject, View, ClaimStates, Active, Confirmed
<1>3. conn \in [Claims -> ClaimRows] /\ act \in [Members -> ActRows]
  BY Typed DEF IndInv
<1>4. PICK row \in ClaimRows :
        /\ conn' = [conn EXCEPT ![c] = row]
        /\ row.st = st /\ row.m = conn[c].m /\ row.by = conn[c].by
  <2>1. CASE conn' = [conn EXCEPT ![c].st = st]
    <3>. DEFINE row == [conn[c] EXCEPT !.st = st]
    <3>1. row \in ClaimRows /\ row.st = st /\ row.m = conn[c].m /\ row.by = conn[c].by
      BY <1>3, ClaimWritten
    <3>2. conn' = [conn EXCEPT ![c] = row]
      BY <2>1
    <3>. HIDE DEF row
    <3>. QED BY <3>1, <3>2
  <2>2. CASE conn' = [conn EXCEPT ![c].late = TRUE] /\ st = conn[c].st
    BY <1>3, <2>2, ClaimMoves
  <2>. QED BY <1>2, <2>1, <2>2
<1>5. conn' \in [Claims -> ClaimRows] /\ \A d \in Claims : ClaimGoes(d)
  BY <1>2, <1>3, <1>4 DEF ClaimGoes
<1>. QED BY <1>1, <1>3, <1>5, ClaimsGo

LEMMA ReleaseKeeps ==
    ASSUME IndInv, NEW m \in Members, ReleaseClaim(m)
    PROVE  IndInv' /\ Course
<1>1. /\ conn \in [Claims -> ClaimRows] /\ act \in [Members -> ActRows]
      /\ "released" \in ClaimStates
  BY Typed DEF IndInv, ClaimStates, Confirmed
<1>2. UNCHANGED <<farm, batch, member, dns, kicks, run, del, req, raced, crashes,
                  faults>>
  BY DEF ReleaseClaim, bounds
<1>3. act' \in [Members -> ActRows] /\ \A n \in Members : act'[n].pc \in {act[n].pc, "idle"}
  BY <1>1, ActGoes DEF ReleaseClaim
<1>4. conn' = [c \in Claims |->
         IF c = member[m].cur /\ conn[c].st = "provisioning"
         THEN [conn[c] EXCEPT !.st = "released"] ELSE conn[c]]
  BY DEF ReleaseClaim
<1>5. ASSUME NEW c \in Claims PROVE conn'[c] \in ClaimRows /\ ClaimGoes(c)
  BY <1>1, <1>4, ClaimMoves DEF ClaimGoes
<1>6. conn' = [c \in Claims |-> conn'[c]]
  BY <1>4
<1>7. conn' \in [Claims -> ClaimRows]
  BY <1>5, <1>6
<1>. QED BY <1>2, <1>3, <1>5, <1>7, ClaimsGo

\* The confirmed claim is the latest of a waiting member, which nobody works
\* on and whose record is saved.
LEMMA ConfirmKeeps ==
    ASSUME IndInv, NEW c \in Claims, Confirm(c)
    PROVE  IndInv' /\ Course
<1>1. /\ conn \in [Claims -> ClaimRows] /\ member \in [Members -> MemberRows]
      /\ "provisioning" \in ClaimStates /\ "provisioning" \in Statuses
  BY Typed DEF IndInv, ClaimStates, Confirmed, Statuses
<1>2. conn[c].st = "claimed" /\ "claimed" \in Active /\ ClaimFits(c)
  BY DEF Confirm, Active, IndInv
<1>3. PICK m \in Members : m = conn[c].m
  BY <1>1, <1>2 DEF ClaimFits, ClaimRows
<1>4. /\ member[m].st = "pool_waiting" /\ member[m].cur = c /\ member[m].admin = None
      /\ member[m].record /\ member[m].batch \in Batches
  <2>1. member[m].st = "pool_waiting" /\ member[m].cur = c
    BY <1>2, <1>3, NoneApart DEF ClaimFits
  <2>. QED BY <2>1 DEF IndInv, RowFits, Inventory
<1>5. run[m] = "idle" /\ act[m].pc = "idle" /\ del[m] = "idle"
  <2>1. RunFits(m) /\ OwnerFits(m) /\ run[m] \in RunPlaces
    BY Typed DEF IndInv
  <2>. QED BY <1>4, <2>1 DEF RunFits, OwnerFits, RunPlaces, Building
<1>6. UNCHANGED <<farm, batch, dns, kicks, run, act, del, req, raced, crashes, faults>>
  BY DEF Confirm, workers, bounds
<1>7. /\ conn' \in [Claims -> ClaimRows]
      /\ conn'[c].st = "provisioning" /\ conn'[c].m = m /\ conn'[c].by = conn[c].by
      /\ \A d \in Claims \ {c} : conn'[d] = conn[d]
  <2>1. conn' = [conn EXCEPT ![c] = [conn[c] EXCEPT !.st = "provisioning"]]
    BY DEF Confirm
  <2>2. conn'[c] = [conn[c] EXCEPT !.st = "provisioning"]
    BY <1>1, <2>1
  <2>3. /\ conn'[c] \in ClaimRows /\ conn'[c].st = "provisioning"
        /\ conn'[c].m = m /\ conn'[c].by = conn[c].by
    BY <1>1, <1>3, <2>2, ClaimWritten
  <2>4. conn' = [conn EXCEPT ![c] = conn'[c]]
    BY <2>1, <2>2
  <2>. QED BY <1>1, <2>3, <2>4
<1>8. /\ member' \in [Members -> MemberRows]
      /\ member'[m].st = "provisioning" /\ member'[m].admin = c
      /\ member'[m].cur = c /\ member'[m].record /\ member'[m].batch = member[m].batch
      /\ \A n \in Members \ {m} : member'[n] = member[n]
  <2>. DEFINE row == [member[m] EXCEPT !.st = "provisioning"]
  <2>1. row \in MemberRows /\ row.st = "provisioning" /\ row.batch = member[m].batch
        /\ row.cur = member[m].cur /\ row.record = member[m].record
    BY <1>1, RowMoves
  <2>2. member' = [member EXCEPT ![m] = [row EXCEPT !.admin = c]]
    BY <1>1, <1>3 DEF Confirm
  <2>. HIDE DEF row
  <2>3. [row EXCEPT !.admin = c] \in MemberRows
    BY <2>1 DEF MemberRows
  <2>. QED BY <1>1, <1>4, <2>1, <2>2, <2>3 DEF MemberRows
<1>9. TypeOK'
  BY <1>6, <1>7, <1>8 DEF IndInv, TypeOK, ClaimRows, MemberRows
<1>10. ASSUME NEW n \in Members PROVE RowFits(n)'
  <2>1. CASE n = m
    BY <1>4, <1>7, <1>8, <2>1, NoneApart DEF RowFits, Inventory, Building, Confirmed
  <2>2. CASE n # m
    <3>1. member[n].admin # None => member[n].admin # c
      BY <1>1, <1>2, <2>2 DEF IndInv, RowFits, Confirmed
    <3>2. conn'[member[n].cur].m = conn[member[n].cur].m \/ member[n].cur = None
      BY <1>1, <1>3, <1>7 DEF MemberRows
    <3>3. member[n].admin # None => conn'[member[n].admin] = conn[member[n].admin]
      BY <1>1, <1>7, <3>1 DEF MemberRows
    <3>. QED BY <1>8, <2>2, <3>1, <3>2, <3>3 DEF IndInv, RowFits
  <2>. QED BY <2>1, <2>2
<1>11. ASSUME NEW n \in Members PROVE RunFits(n)' /\ OwnerFits(n)'
  <2>1. CASE n = m
    BY <1>5, <1>6, <1>8, <2>1 DEF RunFits, OwnerFits
  <2>2. CASE n # m
    BY <1>6, <1>8, <2>2 DEF IndInv, RunFits, OwnerFits
  <2>. QED BY <2>1, <2>2
<1>12. ASSUME NEW d \in Claims PROVE ClaimFits(d)'
  <2>1. CASE d = c
    BY <1>3, <1>7, <1>8, <2>1, NoneApart DEF ClaimFits, Active, Confirmed
  <2>2. CASE d # c /\ conn[d].m # m
    <3>1. conn[d].m \in Members \ {m} \/ conn[d].m = None
      BY <1>1, <2>2 DEF ClaimRows
    <3>. QED BY <1>7, <1>8, <2>2, <3>1 DEF IndInv, ClaimFits
  <2>3. CASE d # c /\ conn[d].m = m
    <3>1. conn[d].st \notin Active
      BY <1>4, <2>3, NoneApart DEF IndInv, ClaimFits
    <3>2. conn[d].st \notin Confirmed
      BY <1>4, <2>3, NoneApart DEF IndInv, ClaimFits
    <3>. QED BY <1>7, <1>8, <2>3, <3>1, <3>2, NoneApart
             DEF IndInv, ClaimFits, Active
  <2>. QED BY <2>1, <2>2, <2>3
<1>13. ASSUME NEW b \in Batches PROVE Drained(b)'
  BY <1>4, <1>6, <1>8 DEF IndInv, Drained
<1>14. OneClaimPerBrowser'
  BY <1>7 DEF IndInv, OneClaimPerBrowser
<1>15. Course
  BY <1>4, <1>8 DEF IndInv, Course, RowFits
<1>. QED BY <1>9, <1>10, <1>11, <1>12, <1>13, <1>14, <1>15 DEF IndInv

\* The new claim becomes the member's latest; the one before it is over.
LEMMA OpenKeeps ==
    ASSUME IndInv, NEW m \in Members, NEW w \in Browsers \cup {None},
           Free(m), Open(m, w),
           w # None => \A c \in Claims : conn[c].by # w,
           UNCHANGED <<farm, batch, dns, kicks, workers, req, raced, bounds>>
    PROVE  IndInv' /\ Course
<1>1. /\ conn \in [Claims -> ClaimRows] /\ member \in [Members -> MemberRows]
  BY Typed DEF IndInv
<1>2. /\ member[m].st = "pool_waiting" /\ member[m].admin = None
      /\ member[m].cur # None =>
             LET c == conn[member[m].cur]
             IN c.st \notin {"claimed", "provisioning"} /\ (c.st = "open" => c.late)
  BY DEF Free
<1>3. PICK c \in Claims :
        /\ conn[c].st = "none"
        /\ conn' = [d \in Claims |->
               IF d = c THEN [st |-> "open", m |-> m, late |-> FALSE, by |-> w]
               ELSE IF conn[d].m = m /\ conn[d].st = "open" /\ conn[d].late
                    THEN [conn[d] EXCEPT !.st = "lapsed"] ELSE conn[d]]
        /\ member' = [member EXCEPT ![m].cur = c]
  BY DEF Open
<1>4. conn[c].m = None
  BY <1>3 DEF IndInv, ClaimFits
<1>5. ASSUME NEW d \in Claims \ {c}
      PROVE  /\ conn'[d] \in ClaimRows
             /\ conn'[d].m = conn[d].m /\ conn'[d].by = conn[d].by
             /\ \/ conn'[d].st = conn[d].st
                \/ conn[d].st = "open" /\ conn'[d].st = "lapsed"
             /\ conn[d].m = m => /\ conn'[d].st \notin Active
                                 /\ conn'[d].st \notin Confirmed
  <2>1. conn[d] \in ClaimRows /\ ClaimFits(d) /\ "lapsed" \in ClaimStates
    BY <1>1 DEF IndInv, ClaimStates
  <2>2. conn'[d] = IF conn[d].m = m /\ conn[d].st = "open" /\ conn[d].late
                   THEN [conn[d] EXCEPT !.st = "lapsed"] ELSE conn[d]
    BY <1>3
  <2>3. conn[d].m = m => /\ conn[d].st \in Active => member[m].cur = d
                         /\ conn[d].st \notin Confirmed
    BY <1>2, <2>1, NoneApart DEF ClaimFits
  <2>4. CASE conn[d].m = m /\ conn[d].st = "open" /\ conn[d].late
    <3>1. conn'[d] = [conn[d] EXCEPT !.st = "lapsed"]
      BY <2>2, <2>4
    <3>2. /\ conn'[d] \in ClaimRows /\ conn'[d].st = "lapsed"
          /\ conn'[d].m = conn[d].m /\ conn'[d].by = conn[d].by
      BY <2>1, <3>1, ClaimWritten
    <3>. QED BY <2>4, <3>2 DEF Active, Confirmed
  <2>5. CASE ~(conn[d].m = m /\ conn[d].st = "open" /\ conn[d].late)
    <3>1. conn'[d] = conn[d]
      BY <2>2, <2>5
    <3>2. ASSUME conn[d].m = m, conn[d].st \in Active PROVE FALSE
      <4>1. member[m].cur = d /\ d # None
        BY <2>3, <3>2, NoneApart
      <4>2. conn[d].st \notin {"claimed", "provisioning"} /\ conn[d].st # "open"
        BY <1>2, <2>5, <3>2, <4>1
      <4>. QED BY <3>2, <4>2 DEF Active
    <3>. QED BY <2>1, <2>3, <3>1, <3>2
  <2>. QED BY <2>4, <2>5
<1>6. conn'[c] = [st |-> "open", m |-> m, late |-> FALSE, by |-> w]
      /\ conn'[c] \in ClaimRows
  BY <1>3 DEF ClaimRows, Active
<1>7. conn' \in [Claims -> ClaimRows]
  <2>1. conn' = [d \in Claims |-> conn'[d]]
    BY <1>3
  <2>. QED BY <1>5, <1>6, <2>1
<1>8. /\ member' \in [Members -> MemberRows] /\ member'[m].cur = c
      /\ member'[m].st = member[m].st /\ member'[m].admin = member[m].admin
      /\ member'[m].record = member[m].record /\ member'[m].batch = member[m].batch
      /\ \A n \in Members \ {m} : member'[n] = member[n]
  <2>1. [member[m] EXCEPT !.cur = c] \in MemberRows
    BY <1>1 DEF MemberRows
  <2>. QED BY <1>1, <1>3, <2>1 DEF MemberRows
<1>9. TypeOK'
  BY <1>7, <1>8 DEF IndInv, TypeOK, ClaimRows, MemberRows, workers, bounds
<1>10. ASSUME NEW n \in Members PROVE RowFits(n)'
  <2>1. RowFits(n) /\ member[n].cur \in Claims \cup {None}
        /\ member[n].admin \in Claims \cup {None}
    BY <1>1 DEF IndInv, MemberRows
  <2>2. CASE n = m
    BY <1>2, <1>6, <1>8, <2>1, <2>2 DEF RowFits, Inventory, Building
  <2>3. CASE n # m
    <3>1. member[n].cur # c /\ member[n].admin # c
      BY <1>3, <1>4, <2>1, NoneApart DEF RowFits, Confirmed
    <3>. QED BY <1>5, <1>8, <2>1, <2>3, <3>1 DEF RowFits, Confirmed
  <2>. QED BY <2>2, <2>3
<1>11. ASSUME NEW n \in Members PROVE RunFits(n)' /\ OwnerFits(n)'
  <2>1. /\ member'[n].st = member[n].st /\ member'[n].admin = member[n].admin
        /\ member'[n].record = member[n].record
    BY <1>8
  <2>. QED BY <2>1 DEF IndInv, RunFits, OwnerFits, workers
<1>12. ASSUME NEW d \in Claims PROVE ClaimFits(d)'
  <2>1. CASE d = c
    BY <1>2, <1>6, <1>8, <2>1, NoneApart DEF ClaimFits, Active, Confirmed
  <2>2. CASE d # c /\ conn[d].m = m
    BY <1>2, <1>5, <1>8, <2>2, NoneApart DEF IndInv, ClaimFits, Active
  <2>3. CASE d # c /\ conn[d].m # m
    <3>1. conn[d].m \in Members \ {m} \/ conn[d].m = None
      BY <1>1, <2>3 DEF ClaimRows
    <3>. QED BY <1>5, <1>8, <2>3, <3>1 DEF IndInv, ClaimFits, Active, Confirmed
  <2>. QED BY <2>1, <2>2, <2>3
<1>13. ASSUME NEW b \in Batches PROVE Drained(b)'
  BY <1>8 DEF IndInv, Drained
<1>14. OneClaimPerBrowser'
  BY <1>5, <1>6 DEF IndInv, OneClaimPerBrowser
<1>15. Course
  BY <1>2, <1>8 DEF IndInv, Course, RowFits
<1>. QED BY <1>9, <1>10, <1>11, <1>12, <1>13, <1>14, <1>15 DEF IndInv

LEMMA ReservingKeeps ==
    ASSUME IndInv, Reserving
    PROVE  IndInv' /\ Course
<1>1. ASSUME NEW m \in Members, Reserve(m) PROVE IndInv' /\ Course
  BY <1>1, OpenKeeps DEF Reserve
<1>2. ASSUME NEW m \in Members, NEW w \in Browsers, ReservePublic(m, w)
      PROVE  IndInv' /\ Course
  BY <1>2, OpenKeeps DEF ReservePublic
<1>3. ASSUME NEW c \in Claims, Claim(c) \/ Expire(c) \/ Confirm(c) \/ Reject(c) \/ View(c)
      PROVE  IndInv' /\ Course
  BY <1>3, ClaimStepsKeep, ConfirmKeeps
<1>. QED BY <1>1, <1>2, <1>3 DEF Reserving

----------------------------------------------------------------------------
(* Deletion *)

\* connection.Stop of a member that waits for nobody.
LEMMA StopMoves ==
    ASSUME IndInv, NEW m \in Members, Stop(m),
           member[m].st \notin {"none", "gone", "pool_waiting"}
    PROVE  /\ OnlyRow(m) /\ StatusFits(m)
           /\ member'[m].st = "deleting" /\ member'[m].record = member[m].record
           /\ conn' \in [Claims -> ClaimRows]
           /\ \A c \in Claims : ClaimGoes(c)
<1>1. /\ conn \in [Claims -> ClaimRows] /\ member \in [Members -> MemberRows]
      /\ {"lapsed", "cancelled"} \subseteq ClaimStates /\ "deleting" \in Statuses
  BY Typed DEF IndInv, ClaimStates, Confirmed, Statuses
<1>2. Set(m, "deleting")
  BY DEF Stop, Set
<1>3. /\ OnlyRow(m) /\ member'[m].st = "deleting" /\ member'[m].record = member[m].record
  BY <1>1, <1>2, SetMoves
<1>4. StatusFits(m)
  BY <1>3 DEF StatusFits, Inventory, Building
<1>5. ASSUME NEW c \in Claims PROVE conn'[c] \in ClaimRows /\ ClaimGoes(c)
  <2>1. conn'[c] = IF conn[c].m # m THEN conn[c]
                   ELSE IF conn[c].st \in {"open", "claimed"}
                   THEN [conn[c] EXCEPT !.st = "lapsed"]
                   ELSE IF conn[c].st = "provisioning"
                   THEN [conn[c] EXCEPT !.st = "cancelled"] ELSE conn[c]
    BY DEF Stop
  <2>2. PICK st \in ClaimStates :
          /\ conn'[c] = conn[c] \/ conn'[c] = [conn[c] EXCEPT !.st = st]
          /\ \/ conn[c].st \in {"open", "claimed"} /\ st = "lapsed"
             \/ conn[c].st = "provisioning" /\ st = "cancelled"
             \/ conn'[c] = conn[c]
    BY <1>1, <2>1
  <2>3. CASE conn'[c] = conn[c]
    BY <1>1, <2>3 DEF ClaimGoes
  <2>4. CASE conn'[c] # conn[c]
    <3>1. conn'[c] \in ClaimRows /\ conn'[c].st = st /\ conn'[c].m = conn[c].m
          /\ conn'[c].by = conn[c].by
      BY <1>1, <2>2, <2>4, ClaimWritten
    <3>. QED BY <2>2, <2>4, <3>1 DEF ClaimGoes
  <2>. QED BY <2>3, <2>4
<1>6. conn' = [c \in Claims |-> conn'[c]]
  BY DEF Stop
<1>. QED BY <1>3, <1>4, <1>5, <1>6

LEMMA CleanupStopKeeps ==
    ASSUME IndInv, NEW m \in Members, CleanupStop(m)
    PROVE  IndInv' /\ Course
<1>1. /\ run[m] = "stop" /\ Go(m, "delete") /\ Stop(m) /\ "delete" \in RunPlaces
      /\ UNCHANGED <<farm, batch, dns, kicks, act, del, req, raced, crashes, faults>>
  BY DEF CleanupStop, At, bounds, RunPlaces
<1>2. /\ member[m].st = "deleting" /\ member[m].admin = None /\ OwnerFits(m)
      /\ raced \in BOOLEAN /\ dns \subseteq Members /\ kicks \subseteq Members
  BY <1>1, Typed DEF IndInv, RunFits
<1>3. OnlyWork(m) /\ run'[m] = "delete"
  BY <1>1, <1>2, RunnerMoves
<1>4. /\ OnlyRow(m) /\ StatusFits(m)
      /\ member'[m].st = "deleting" /\ member'[m].record = member[m].record
      /\ conn' \in [Claims -> ClaimRows]
      /\ \A c \in Claims : ClaimGoes(c)
  BY <1>1, <1>2, StopMoves
<1>5. RunFits(m)' /\ OwnerFits(m)'
  BY <1>1, <1>2, <1>3, <1>4 DEF RunFits, OwnerFits, OnlyRow
<1>. QED BY <1>1, <1>3, <1>4, <1>5, OneMemberAndClaims

LEMMA OwnerDeleteKeeps ==
    ASSUME IndInv, NEW m \in Members, OwnerDelete(m)
    PROVE  IndInv' /\ Course
<1>1. /\ del[m] = "idle" /\ member[m].admin # None /\ Stop(m)
      /\ del' = [del EXCEPT ![m] = "wait"]
      /\ act' = [act EXCEPT ![m].cancelled = (act[m].pc # "idle")]
      /\ UNCHANGED <<farm, batch, dns, kicks, run, req, raced, crashes, faults>>
  BY DEF OwnerDelete, bounds
<1>2. /\ RowFits(m) /\ RunFits(m) /\ OwnerFits(m)
      /\ act \in [Members -> ActRows] /\ del \in [Members -> DelPlaces]
  BY Typed DEF IndInv
<1>3. /\ act' \in [Members -> ActRows] /\ act'[m].pc = act[m].pc
      /\ \A n \in Members \ {m} : act'[n] = act[n]
  <2>1. [act[m] EXCEPT !.cancelled = (act[m].pc # "idle")] \in ActRows
    BY <1>2 DEF ActRows
  <2>. QED BY <1>1, <1>2, <2>1 DEF ActRows
<1>4. OnlyWork(m)
  BY <1>1, <1>2, <1>3, Typed DEF IndInv, OnlyWork, DelPlaces
<1>5. member[m].st \notin {"none", "gone", "pool_waiting"}
  BY <1>1, <1>2 DEF RowFits, Inventory
<1>6. /\ OnlyRow(m) /\ StatusFits(m)
      /\ member'[m].st = "deleting" /\ member'[m].record = member[m].record
      /\ conn' \in [Claims -> ClaimRows]
      /\ \A c \in Claims : ClaimGoes(c)
  BY <1>1, <1>5, StopMoves
<1>7. run[m] \in {"idle", "prepare", "build", "error"}
  BY <1>1, <1>2, Typed DEF IndInv, RunPlaces, RunFits, RowFits, Inventory, Building
<1>8. RunFits(m)'
  BY <1>1, <1>2, <1>6, <1>7 DEF RunFits, OnlyRow
<1>9. OwnerFits(m)'
  BY <1>1, <1>2, <1>3, <1>6 DEF OwnerFits, OnlyRow
<1>. QED BY <1>1, <1>4, <1>6, <1>8, <1>9, OneMemberAndClaims

\* The rows of a member that is on its way out are dropped, with its batch
\* when that waited for it.
LEMMA DropKeeps ==
    ASSUME IndInv, NEW m \in Members, DropRows(m), OnlyWork(m), UNCHANGED dns,
           member[m].st \notin {"none", "gone"},
           member[m].record => m \notin dns,
           run'[m] \in {"idle", "prepare", "build", "error"},
           run'[m] = "build" => member[m].record,
           del'[m] = "idle"
    PROVE  IndInv' /\ Course
<1>. DEFINE b == member[m].batch
            last == batch[b].cleanup /\ MembersOf(b) \subseteq {m}
<1>1. /\ conn \in [Claims -> ClaimRows] /\ member \in [Members -> MemberRows]
      /\ batch \in [Batches -> [st : {"none", "live", "gone"}, on : BOOLEAN,
                                cleanup : BOOLEAN]]
      /\ b \in Batches
  BY Typed DEF IndInv, TypeOK, RowFits
<1>2. /\ member' \in [Members -> MemberRows]
      /\ member'[m].st = "gone" /\ member'[m].admin = None /\ member'[m].cur = None
      /\ member'[m].batch = b /\ member'[m].record = member[m].record
      /\ \A n \in Members \ {m} : member'[n] = member[n]
  <2>1. member' = [member EXCEPT ![m] = [NoMember EXCEPT !.st = "gone",
                                  !.batch = b, !.record = member[m].record]]
    BY DEF DropRows
  <2>. DEFINE r == [NoMember EXCEPT !.st = "gone"]
              q == [r EXCEPT !.batch = b]
  <2>2. NoMember \in MemberRows /\ NoMember.admin = None /\ NoMember.cur = None
    BY DEF NoMember, MemberRows, Statuses
  <2>3. /\ r \in MemberRows /\ r.st = "gone" /\ r.admin = None /\ r.cur = None
    BY <2>2, RowMoves DEF Statuses
  <2>. HIDE DEF r
  <2>4. /\ q \in MemberRows /\ q.st = "gone" /\ q.admin = None /\ q.cur = None
        /\ q.batch = b
    BY <1>1, <2>3 DEF MemberRows
  <2>5. member' = [member EXCEPT ![m] = [q EXCEPT !.record = member[m].record]]
    BY <2>1 DEF r
  <2>. HIDE DEF q
  <2>6. [q EXCEPT !.record = member[m].record] \in MemberRows
    BY <1>1, <2>4 DEF MemberRows
  <2>. QED BY <1>1, <2>4, <2>5, <2>6 DEF MemberRows
<1>3. /\ conn' \in [Claims -> ClaimRows]
      /\ \A c \in Claims :
           IF conn[c].m = m
           THEN conn'[c].st = "gone" /\ conn'[c].m = None /\ conn'[c].by = None
           ELSE conn'[c] = conn[c]
  <2>1. conn' = [c \in Claims |-> IF conn[c].m = m THEN [NoClaim EXCEPT !.st = "gone"]
                                  ELSE conn[c]]
    BY DEF DropRows
  <2>2. NoClaim \in ClaimRows /\ NoClaim.m = None /\ NoClaim.by = None
        /\ "gone" \in ClaimStates
    BY DEF NoClaim, ClaimRows, ClaimStates
  <2>3. ASSUME NEW c \in Claims
        PROVE  /\ conn'[c] \in ClaimRows
               /\ IF conn[c].m = m
                  THEN conn'[c].st = "gone" /\ conn'[c].m = None /\ conn'[c].by = None
                  ELSE conn'[c] = conn[c]
    <3>1. CASE conn[c].m = m
      <4>1. conn'[c] = [NoClaim EXCEPT !.st = "gone"]
        BY <2>1, <3>1
      <4>. QED BY <2>2, <3>1, <4>1, ClaimWritten
    <3>2. CASE conn[c].m # m
      BY <1>1, <2>1, <3>2
    <3>. QED BY <3>1, <3>2
  <2>4. conn' = [c \in Claims |-> conn'[c]]
    BY <2>1
  <2>. QED BY <2>3, <2>4
<1>4. /\ batch' \in [Batches -> [st : {"none", "live", "gone"}, on : BOOLEAN,
                                 cleanup : BOOLEAN]]
      /\ \A a \in Batches : batch'[a].cleanup = batch[a].cleanup
      /\ \A a \in Batches \ {b} : batch'[a].st = batch[a].st
      /\ batch'[b].st = batch[b].st \/ last
  BY <1>1 DEF DropRows
<1>5. TypeOK'
  BY <1>2, <1>3, <1>4 DEF IndInv, TypeOK, OnlyWork, MemberRows, ClaimRows,
                          RunPlaces, ActRows, DelPlaces
<1>6. ASSUME NEW n \in Members PROVE RowFits(n)'
  <2>1. RowFits(n) /\ member[n].cur \in Claims \cup {None}
        /\ member[n].admin \in Claims \cup {None}
    BY <1>1 DEF IndInv, MemberRows
  <2>2. CASE n = m
    BY <1>1, <1>2, <2>2 DEF RowFits, Inventory, Building
  <2>3. CASE n # m
    BY <1>2, <1>3, <2>1, <2>3 DEF RowFits
  <2>. QED BY <2>2, <2>3
<1>7. ASSUME NEW n \in Members PROVE RunFits(n)' /\ OwnerFits(n)'
  <2>1. CASE n = m
    BY <1>2, <2>1 DEF RunFits, OwnerFits
  <2>2. CASE n # m
    BY <1>2, <2>2 DEF IndInv, RunFits, OwnerFits, OnlyWork
  <2>. QED BY <2>1, <2>2
<1>8. ASSUME NEW c \in Claims PROVE ClaimFits(c)'
  <2>1. CASE conn[c].m = m
    BY <1>3, <2>1 DEF ClaimFits
  <2>2. CASE conn[c].m # m
    <3>1. conn[c].m \in Members \ {m} \/ conn[c].m = None
      BY <1>1, <2>2 DEF ClaimRows
    <3>. QED BY <1>2, <1>3, <2>2, <3>1 DEF IndInv, ClaimFits
  <2>. QED BY <2>1, <2>2
<1>9. ASSUME NEW a \in Batches PROVE Drained(a)'
  <2>1. ASSUME NEW n \in Members, member'[n].batch = a,
               member'[n].st \notin {"none", "gone"}
        PROVE  /\ batch'[a].cleanup =>
                      member'[n].st = "deleting" /\ member'[n].admin = None
               /\ batch'[a].st # "gone"
    <3>1. n # m /\ member'[n] = member[n]
      BY <1>2, <2>1
    <3>2. /\ batch[a].cleanup => member[n].st = "deleting" /\ member[n].admin = None
          /\ batch[a].st # "gone"
      BY <2>1, <3>1 DEF IndInv, Drained
    <3>3. a = b => ~last
      BY <2>1, <3>1 DEF MembersOf, Live
    <3>. QED BY <1>4, <3>1, <3>2, <3>3
  <2>. QED BY <2>1 DEF Drained
<1>10. OneClaimPerBrowser'
  BY <1>3 DEF IndInv, OneClaimPerBrowser
<1>11. Course
  BY <1>2 DEF IndInv, Course, RowFits
<1>. QED BY <1>5, <1>6, <1>7, <1>8, <1>9, <1>10, <1>11 DEF IndInv

LEMMA DropsKeep ==
    ASSUME IndInv, NEW m \in Members, CleanupDrop(m) \/ OwnerDrop(m)
    PROVE  IndInv' /\ Course
<1>1. RowFits(m) /\ RunFits(m) /\ OwnerFits(m)
  BY DEF IndInv
<1>2. CASE CleanupDrop(m)
  <2>1. /\ run[m] = "drop" /\ Go(m, "idle") /\ DropRows(m) /\ "idle" \in RunPlaces
        /\ UNCHANGED <<farm, dns, kicks, act, del, req, raced, crashes, faults>>
    BY <1>2 DEF CleanupDrop, At, bounds, RunPlaces
  <2>2. OnlyWork(m) /\ run'[m] = "idle"
    BY <2>1, RunnerMoves, Typed DEF IndInv
  <2>3. /\ member[m].st = "deleting" /\ member[m].admin = None
        /\ member[m].record => m \notin dns
    BY <1>1, <2>1 DEF RunFits
  <2>4. del'[m] = "idle"
    BY <1>1, <2>1, <2>3 DEF OwnerFits
  <2>. QED BY <2>1, <2>2, <2>3, <2>4, DropKeeps
<1>3. CASE OwnerDrop(m)
  <2>1. /\ del[m] = "drop" /\ del' = [del EXCEPT ![m] = "idle"] /\ DropRows(m)
        /\ UNCHANGED <<farm, dns, kicks, run, act, req, raced, crashes, faults>>
    BY <1>3 DEF OwnerDrop, bounds
  <2>2. OnlyWork(m) /\ del'[m] = "idle"
    BY <2>1, Typed DEF IndInv, OnlyWork, DelPlaces
  <2>3. member[m].admin # None /\ m \notin dns
    BY <1>1, <2>1 DEF OwnerFits
  <2>4. /\ member[m].st \notin {"none", "gone"}
        /\ run[m] \in {"idle", "prepare", "build", "error"}
        /\ run[m] = "build" => member[m].record
    BY <1>1, <2>3, Typed DEF IndInv, RunPlaces, RunFits, RowFits, Inventory, Building
  <2>. QED BY <2>1, <2>2, <2>3, <2>4, DropKeeps
<1>. QED BY <1>2, <1>3

\* Unclaimed members that nobody can claim any more go on their way out, all
\* or none, and their batch may be closed with them.
LEMMA BulkKeeps ==
    ASSUME IndInv, NEW S \in SUBSET Live, QueueCleanupBulk(S),
           UNCHANGED <<farm, dns, workers, req, raced, bounds>>,
           batch' \in [Batches -> [st : {"none", "live", "gone"}, on : BOOLEAN,
                                   cleanup : BOOLEAN]],
           \A b \in Batches : /\ batch'[b].st = batch[b].st
                              /\ \/ batch'[b].cleanup = batch[b].cleanup
                                 \/ MembersOf(b) \subseteq S
    PROVE  IndInv' /\ Course
<1>1. /\ conn \in [Claims -> ClaimRows] /\ member \in [Members -> MemberRows]
      /\ "lapsed" \in ClaimStates /\ "deleting" \in Statuses
      /\ S \subseteq Members
  BY Typed DEF IndInv, ClaimStates, Statuses, Live
<1>2. \A m \in S : /\ member[m].st \in {"pool_waiting", "failed"}
                   /\ member[m].admin = None
  BY DEF QueueCleanupBulk, Cleanable
<1>3. ASSUME NEW m \in Members
      PROVE  /\ member'[m] \in MemberRows
             /\ m \notin S => member'[m] = member[m]
             /\ m \in S => member'[m].st = "deleting"
             /\ member'[m].admin = member[m].admin /\ member'[m].cur = member[m].cur
             /\ member'[m].batch = member[m].batch
             /\ member'[m].record = member[m].record
  <2>1. CASE m \in S
    <3>1. member'[m] = [member[m] EXCEPT !.st = "deleting"]
      BY <2>1 DEF QueueCleanupBulk
    <3>. QED BY <1>1, <2>1, <3>1, RowMoves
  <2>2. CASE m \notin S
    BY <1>1, <2>2 DEF QueueCleanupBulk
  <2>. QED BY <2>1, <2>2
<1>4. ASSUME NEW c \in Claims
      PROVE  /\ conn'[c] \in ClaimRows
             /\ conn'[c].m = conn[c].m /\ conn'[c].by = conn[c].by
             /\ IF conn[c].m \in S /\ conn[c].st \in {"open", "claimed"}
                THEN conn'[c].st = "lapsed" ELSE conn'[c].st = conn[c].st
  <2>1. CASE conn[c].m \in S /\ conn[c].st \in {"open", "claimed"}
    <3>1. conn'[c] = [conn[c] EXCEPT !.st = "lapsed"]
      BY <2>1 DEF QueueCleanupBulk
    <3>. QED BY <1>1, <2>1, <3>1, ClaimWritten
  <2>2. CASE ~(conn[c].m \in S /\ conn[c].st \in {"open", "claimed"})
    <3>1. conn'[c] = conn[c]
      BY <2>2 DEF QueueCleanupBulk
    <3>. QED BY <1>1, <2>2, <3>1
  <2>. QED BY <2>1, <2>2
<1>5. /\ member' \in [Members -> MemberRows] /\ conn' \in [Claims -> ClaimRows]
      /\ kicks' \subseteq Members
  <2>1. /\ member' = [m \in Members |-> member'[m]]
        /\ conn' = [c \in Claims |-> conn'[c]]
    BY DEF QueueCleanupBulk
  <2>2. kicks' \subseteq Members
    BY <1>1, Typed DEF IndInv, QueueCleanupBulk, Kick
  <2>. QED BY <1>3, <1>4, <2>1, <2>2
<1>6. TypeOK'
  BY <1>5 DEF IndInv, TypeOK, MemberRows, ClaimRows, workers, bounds
<1>7. ASSUME NEW m \in Members PROVE RowFits(m)'
  <2>1. /\ RowFits(m) /\ member[m].cur \in Claims \cup {None}
        /\ member[m].admin \in Claims \cup {None}
    BY <1>1 DEF IndInv, MemberRows
  <2>2. /\ member[m].cur # None => conn'[member[m].cur].m = m
        /\ member[m].admin # None => conn'[member[m].admin].st \in Confirmed
    BY <1>4, <2>1 DEF RowFits, Confirmed
  <2>3. CASE m \in S
    BY <1>2, <1>3, <2>1, <2>2, <2>3 DEF RowFits, Inventory, Building
  <2>4. CASE m \notin S
    BY <1>3, <2>1, <2>2, <2>4 DEF RowFits
  <2>. QED BY <2>3, <2>4
<1>8. ASSUME NEW m \in Members PROVE RunFits(m)' /\ OwnerFits(m)'
  <2>1. RunFits(m) /\ OwnerFits(m)
    BY DEF IndInv
  <2>2. CASE m \in S
    <3>1. run[m] \in {"idle", "check", "error"}
      BY <1>2, <2>1, <2>2, Typed DEF IndInv, RunPlaces, RunFits, Building
    <3>. QED BY <1>2, <1>3, <2>1, <2>2, <3>1 DEF RunFits, OwnerFits, workers
  <2>3. CASE m \notin S
    BY <1>3, <2>1, <2>3 DEF RunFits, OwnerFits, workers
  <2>. QED BY <2>2, <2>3
<1>9. ASSUME NEW c \in Claims PROVE ClaimFits(c)'
  <2>1. ClaimFits(c) /\ (conn[c].m \in Members \/ conn[c].m = None)
    BY <1>1 DEF IndInv, ClaimRows
  <2>2. CASE conn[c].m \in S
    BY <1>1, <1>3, <1>4, <2>1, <2>2, NoneApart DEF ClaimFits, Active, Confirmed
  <2>3. CASE conn[c].m \notin S
    BY <1>3, <1>4, <2>1, <2>3 DEF ClaimFits
  <2>. QED BY <2>2, <2>3
<1>10. ASSUME NEW b \in Batches PROVE Drained(b)'
  <2>1. ASSUME NEW m \in Members, member'[m].batch = b,
               member'[m].st \notin {"none", "gone"}
        PROVE  /\ batch'[b].cleanup =>
                      member'[m].st = "deleting" /\ member'[m].admin = None
               /\ batch'[b].st # "gone"
    <3>1. CASE m \in S
      BY <1>2, <1>3, <2>1, <3>1 DEF IndInv, Drained
    <3>2. CASE m \notin S
      <4>1. member'[m] = member[m] /\ m \in MembersOf(b)
        BY <1>3, <2>1, <3>2 DEF MembersOf, Live
      <4>. QED BY <2>1, <3>2, <4>1 DEF IndInv, Drained
    <3>. QED BY <3>1, <3>2
  <2>. QED BY <2>1 DEF Drained
<1>11. OneClaimPerBrowser'
  BY <1>4 DEF IndInv, OneClaimPerBrowser
<1>12. Course
  <2>1. ASSUME NEW m \in Members
        PROVE  /\ member[m].admin # None =>
                      member'[m].admin = member[m].admin
                      /\ member'[m].st \notin Inventory
               /\ (member[m].st = "deleting" /\ member[m].admin = None) =>
                      member'[m].st = "deleting"
    BY <1>2, <1>3 DEF IndInv, RowFits
  <2>. QED BY <2>1 DEF Course
<1>. QED BY <1>6, <1>7, <1>8, <1>9, <1>10, <1>11, <1>12 DEF IndInv

LEMMA BatchTyped ==
    ASSUME IndInv
    PROVE  batch \in [Batches -> [st : {"none", "live", "gone"}, on : BOOLEAN,
                                  cleanup : BOOLEAN]]
  BY DEF IndInv, TypeOK

\* Rows of batches only.
LEMMA BatchKeeps ==
    ASSUME IndInv, UNCHANGED <<farm, member, conn, dns, kicks, workers, req, raced,
                               bounds>>,
           batch' \in [Batches -> [st : {"none", "live", "gone"}, on : BOOLEAN,
                                   cleanup : BOOLEAN]],
           \A b \in Batches : /\ batch'[b].cleanup = batch[b].cleanup
                              /\ \/ batch'[b].st = batch[b].st
                                 \/ MembersOf(b) = {}
    PROVE  IndInv' /\ Course
<1>1. TypeOK'
  BY DEF IndInv, TypeOK, workers, bounds
<1>2. ASSUME NEW m \in Members PROVE RowFits(m)' /\ RunFits(m)' /\ OwnerFits(m)'
  BY DEF IndInv, RowFits, RunFits, OwnerFits, workers
<1>3. ASSUME NEW c \in Claims PROVE ClaimFits(c)'
  BY DEF IndInv, ClaimFits
<1>4. ASSUME NEW b \in Batches PROVE Drained(b)'
  <2>1. ASSUME NEW m \in Members, member[m].batch = b,
               member[m].st \notin {"none", "gone"}
        PROVE  m \in MembersOf(b)
    BY <2>1 DEF MembersOf, Live
  <2>. QED BY <2>1 DEF IndInv, Drained
<1>5. OneClaimPerBrowser' /\ Course
  BY DEF IndInv, OneClaimPerBrowser, Course, RowFits
<1>. QED BY <1>1, <1>2, <1>3, <1>4, <1>5 DEF IndInv

LEMMA CleanupsKeep ==
    ASSUME IndInv,
           \/ \E S \in SUBSET Members : QueueCleanup(S)
           \/ \E b \in Batches : QueueBatchCleanup(b)
           \/ \E b \in Batches, on \in BOOLEAN : SetPublicSignup(b, on)
    PROVE  IndInv' /\ Course
<1>1. ASSUME NEW S \in SUBSET Members, QueueCleanup(S) PROVE IndInv' /\ Course
  BY <1>1, BulkKeeps, BatchTyped DEF QueueCleanup
<1>2. ASSUME NEW b \in Batches, QueueBatchCleanup(b) PROVE IndInv' /\ Course
  <2>1. CASE MembersOf(b) = {}
    <3>1. /\ batch' = [batch EXCEPT ![b].st = "gone"]
          /\ UNCHANGED <<farm, member, conn, dns, kicks, workers, req, raced, bounds>>
      BY <1>2, <2>1 DEF QueueBatchCleanup
    <3>. QED BY <2>1, <3>1, BatchTyped, BatchKeeps
  <2>2. CASE MembersOf(b) # {}
    <3>1. /\ QueueCleanupBulk(MembersOf(b))
          /\ batch' = [batch EXCEPT ![b].cleanup = TRUE]
          /\ UNCHANGED <<farm, dns, workers, req, raced, bounds>>
      BY <1>2, <2>2 DEF QueueBatchCleanup
    <3>2. MembersOf(b) \in SUBSET Live
      BY DEF MembersOf
    <3>. QED BY <3>1, <3>2, BatchTyped, BulkKeeps
  <2>. QED BY <2>1, <2>2
<1>3. ASSUME NEW b \in Batches, NEW on \in BOOLEAN, SetPublicSignup(b, on)
      PROVE  IndInv' /\ Course
  BY <1>3, BatchTyped, BatchKeeps DEF SetPublicSignup
<1>. QED BY <1>1, <1>2, <1>3

----------------------------------------------------------------------------
(* Admission, and the end of the process *)

\* A request that is answered gives its snapshot up; the others keep theirs.
LEMMA RequestOver ==
    ASSUME NEW r \in Requests, Answered(r),
           req \in [Requests -> [held : BOOLEAN, cap : 0..MaxSessions]]
    PROVE  /\ req' \in [Requests -> [held : BOOLEAN, cap : 0..MaxSessions]]
           /\ \A q \in Requests : req'[q] = req[q] \/ ~req'[q].held
           /\ ~req'[r].held
<1>1. /\ NoRequest \in [held : BOOLEAN, cap : 0..MaxSessions]
      /\ ~NoRequest.held
  BY CapacityAssumption DEF NoRequest
<1>2. req' = [req EXCEPT ![r] = NoRequest]
  BY DEF Answered
<1>. QED BY <1>1, <1>2

\* New members are unclaimed and belong to a batch that takes members.
LEMMA InsertKeeps ==
    ASSUME IndInv, NEW r \in Requests, NEW b \in Batches, NEW n \in Members,
           Insert(b, n), Answered(r),
           UNCHANGED <<farm, conn, dns, workers, raced, bounds>>,
           batch' \in [Batches -> [st : {"none", "live", "gone"}, on : BOOLEAN,
                                   cleanup : BOOLEAN]],
           \A a \in Batches \ {b} : batch'[a] = batch[a],
           batch'[b].st = "live" /\ ~batch'[b].cleanup
    PROVE  IndInv' /\ Course
<1>. DEFINE new == {m \in Fresh : Cardinality({k \in Fresh : k < m}) < n}
<1>1. /\ conn \in [Claims -> ClaimRows] /\ member \in [Members -> MemberRows]
      /\ new \subseteq Members /\ \A m \in new : member[m].st = "none"
      /\ kicks' \subseteq Members
      /\ req' \in [Requests -> [held : BOOLEAN, cap : 0..MaxSessions]]
  <2>1. new \subseteq Members /\ \A m \in new : member[m].st = "none"
    BY DEF Fresh
  <2>2. kicks' \in {kicks, kicks \cup new}
    BY DEF Insert, Kick
  <2>3. req' \in [Requests -> [held : BOOLEAN, cap : 0..MaxSessions]]
    BY RequestOver, Typed DEF IndInv
  <2>. HIDE DEF new
  <2>. QED BY <2>1, <2>2, <2>3, Typed DEF IndInv
<1>2. member' = [m \in Members |->
         IF m \in new THEN [NoMember EXCEPT !.st = "pool_creating", !.batch = b]
         ELSE member[m]]
  BY DEF Insert
<1>. HIDE DEF new
<1>3. ASSUME NEW m \in Members
      PROVE  /\ member'[m] \in MemberRows
             /\ m \notin new => member'[m] = member[m]
             /\ m \in new => /\ member'[m].st = "pool_creating"
                             /\ member'[m].admin = None /\ member'[m].cur = None
                             /\ member'[m].batch = b
  <2>1. CASE m \in new
    <3>. DEFINE row == [NoMember EXCEPT !.st = "pool_creating"]
    <3>1. NoMember \in MemberRows /\ NoMember.admin = None /\ NoMember.cur = None
      BY DEF NoMember, MemberRows, Statuses
    <3>2. "pool_creating" \in Statuses
      BY DEF Statuses, Inventory, Building
    <3>3. /\ row \in MemberRows /\ row.st = "pool_creating"
          /\ row.admin = None /\ row.cur = None
      BY <3>1, <3>2, RowMoves
    <3>4. member'[m] = [row EXCEPT !.batch = b]
      BY <1>2, <2>1
    <3>. HIDE DEF row
    <3>. QED BY <2>1, <3>3, <3>4 DEF MemberRows
  <2>2. CASE m \notin new
    BY <1>1, <1>2, <2>2
  <2>. QED BY <2>1, <2>2
<1>4. member' \in [Members -> MemberRows]
  <2>1. member' = [m \in Members |-> member'[m]]
    BY <1>2
  <2>. QED BY <1>3, <2>1
<1>5. TypeOK'
  BY <1>1, <1>4 DEF IndInv, TypeOK, MemberRows, workers, bounds
<1>6. ASSUME NEW m \in Members PROVE RowFits(m)' /\ RunFits(m)' /\ OwnerFits(m)'
  <2>1. RowFits(m) /\ RunFits(m) /\ OwnerFits(m)
    BY DEF IndInv
  <2>2. CASE m \in new
    <3>1. run[m] = "idle" /\ act[m].pc = "idle" /\ del[m] = "idle"
      BY <1>1, <2>1, <2>2, Typed DEF IndInv, RunPlaces, RowFits, RunFits, OwnerFits,
                                     Building
    <3>. QED BY <1>3, <2>2, <3>1 DEF RowFits, RunFits, OwnerFits, workers
  <2>3. CASE m \notin new
    BY <1>3, <2>1, <2>3 DEF RowFits, RunFits, OwnerFits, workers
  <2>. QED BY <2>2, <2>3
<1>7. ASSUME NEW c \in Claims PROVE ClaimFits(c)'
  <2>1. ClaimFits(c) /\ (conn[c].m \in Members \/ conn[c].m = None)
    BY <1>1 DEF IndInv, ClaimRows
  <2>2. conn[c].m # None => conn[c].m \notin new
    BY <1>1, <2>1 DEF IndInv, ClaimFits, RowFits
  <2>. QED BY <1>3, <2>1, <2>2 DEF ClaimFits
<1>8. ASSUME NEW a \in Batches PROVE Drained(a)'
  <2>1. CASE a = b
    BY <2>1 DEF Drained
  <2>2. CASE a # b
    <3>1. ASSUME NEW m \in Members, member'[m].batch = a PROVE member'[m] = member[m]
      BY <1>3, <2>2, <3>1
    <3>. QED BY <2>2, <3>1 DEF IndInv, Drained
  <2>. QED BY <2>1, <2>2
<1>9. OneClaimPerBrowser'
  BY DEF IndInv, OneClaimPerBrowser
<1>10. Course
  <2>1. ASSUME NEW m \in Members
        PROVE  /\ member[m].admin # None =>
                      member'[m].admin = member[m].admin
                      /\ member'[m].st \notin Inventory
               /\ (member[m].st = "deleting" /\ member[m].admin = None) =>
                      member'[m].st = "deleting"
    <3>1. m \in new => member[m].admin = None /\ member[m].st = "none"
      BY <1>1 DEF IndInv, RowFits
    <3>. QED BY <1>3, <3>1 DEF IndInv, RowFits
  <2>. QED BY <2>1 DEF Course
<1>. QED BY <1>5, <1>6, <1>7, <1>8, <1>9, <1>10 DEF IndInv

LEMMA AdmissionsKeep ==
    ASSUME IndInv, NEW r \in Requests, NEW b \in Batches, NEW n \in Members,
           Admit(r, b, n) \/ AddInventory(r, b, n)
    PROVE  IndInv' /\ Course
<1>1. CASE Admit(r, b, n)
  BY <1>1, BatchTyped, InsertKeeps DEF Admit
<1>2. CASE AddInventory(r, b, n)
  BY <1>2, BatchTyped, InsertKeeps DEF AddInventory
<1>. QED BY <1>1, <1>2

\* Counting what fits never exceeds the loop bound of the simulation.
LEMMA CountBounded ==
    ASSUME NEW N \in Nat, NEW T \in SUBSET (1..N)
    PROVE  Cardinality(T) \in 0..N
<1>1. IsFiniteSet(1..N) /\ Cardinality(1..N) = N
  BY FS_Interval
<1>2. IsFiniteSet(T) /\ Cardinality(T) <= N
  BY <1>1, FS_Subset
<1>. QED BY <1>2, FS_CardinalityType

LEMMA SnapshotBounded == Snapshot \in 0..MaxSessions
<1>1. ASSUME NEW mode, NEW c, NEW replicas, NEW known
      PROVE  Simulate(mode, c, replicas, known) \in 0..MaxSessions
  <2>. DEFINE left == Placing(mode, c, replicas, known)
  <2>1. Simulate(mode, c, replicas, known)
          = Cardinality({k \in 1..MaxSessions : left[k].ok})
    BY DEF Simulate
  <2>. HIDE DEF left
  <2>2. {k \in 1..MaxSessions : left[k].ok} \in SUBSET (1..MaxSessions)
    OBVIOUS
  <2>. QED BY <2>1, <2>2, CountBounded, CapacityAssumption
<1>2. ASSUME NEW mode, NEW c, NEW replicas, NEW known
      PROVE  EstimateMode(mode, c, replicas, known).count \in 0..MaxSessions
  BY <1>1 DEF EstimateMode
<1>3. 0 \in 0..MaxSessions
  BY CapacityAssumption
<1>. QED BY <1>2, <1>3 DEF Snapshot

\* Requests, the queue and the workers of a process come and go; the rows
\* and the DNS records do not notice.
LEMMA Unnoticed ==
    ASSUME IndInv, UNCHANGED <<farm, batch, member, conn, dns>>,
           kicks' \subseteq Members,
           run' \in [Members -> RunPlaces], act' \in [Members -> ActRows],
           del' \in [Members -> DelPlaces],
           \A m \in Members : /\ run'[m] \in {run[m], "idle"}
                              /\ act'[m].pc \in {act[m].pc, "idle"}
                              /\ del'[m] \in {del[m], "idle"},
           req' \in [Requests -> [held : BOOLEAN, cap : 0..MaxSessions]],
           raced' \in BOOLEAN,
           crashes' \in 0..farm.crashes, faults' \in 0..farm.faults
    PROVE  IndInv' /\ Course
<1>1. TypeOK'
  BY DEF IndInv, TypeOK, RunPlaces, ActRows, DelPlaces
<1>2. ASSUME NEW m \in Members PROVE RowFits(m)' /\ RunFits(m)' /\ OwnerFits(m)'
  BY DEF IndInv, RowFits, RunFits, OwnerFits
<1>3. ASSUME NEW c \in Claims PROVE ClaimFits(c)'
  BY DEF IndInv, ClaimFits
<1>4. ASSUME NEW b \in Batches PROVE Drained(b)'
  BY DEF IndInv, Drained
<1>5. OneClaimPerBrowser' /\ Course
  BY DEF IndInv, OneClaimPerBrowser, Course, RowFits
<1>. QED BY <1>1, <1>2, <1>3, <1>4, <1>5 DEF IndInv

LEMMA RequestsKeep ==
    ASSUME IndInv,
           \/ \E r \in Requests : ReadCapacity(r) \/ Refused(r)
           \/ Crash \/ UNCHANGED vars
    PROVE  IndInv' /\ Course
<1>1. /\ UNCHANGED <<farm, batch, member, conn, dns, raced, faults>>
      /\ raced \in BOOLEAN /\ faults \in 0..farm.faults /\ kicks \subseteq Members
  BY Typed DEF IndInv, ReadCapacity, Refused, Crash, vars, rows, bounds
<1>2. ASSUME NEW r \in Requests, ReadCapacity(r) PROVE IndInv' /\ Course
  <2>1. /\ req' = [req EXCEPT ![r] = [held |-> TRUE, cap |-> Snapshot]]
        /\ UNCHANGED <<kicks, run, act, del, crashes>>
    BY <1>2 DEF ReadCapacity, workers, bounds
  <2>2. req' \in [Requests -> [held : BOOLEAN, cap : 0..MaxSessions]]
    BY <2>1, SnapshotBounded, Typed DEF IndInv
  <2>. QED BY <1>1, <2>1, <2>2, Typed, Unnoticed DEF IndInv
<1>3. ASSUME NEW r \in Requests, Refused(r) PROVE IndInv' /\ Course
  <2>1. Answered(r) /\ UNCHANGED <<kicks, run, act, del, crashes>>
    BY <1>3 DEF Refused, workers, bounds
  <2>2. req' \in [Requests -> [held : BOOLEAN, cap : 0..MaxSessions]]
    BY <2>1, RequestOver, Typed DEF IndInv
  <2>. QED BY <1>1, <2>1, <2>2, Typed, Unnoticed DEF IndInv
<1>4. CASE Crash
  <2>1. /\ run' \in [Members -> RunPlaces] /\ act' \in [Members -> ActRows]
        /\ del' \in [Members -> DelPlaces]
        /\ \A m \in Members : run'[m] = "idle" /\ act'[m].pc = "idle" /\ del'[m] = "idle"
        /\ kicks' \subseteq Members
    BY <1>4 DEF Crash, RunPlaces, ActRows, DelPlaces
  <2>2. req' \in [Requests -> [held : BOOLEAN, cap : 0..MaxSessions]]
    BY <1>4, CapacityAssumption DEF Crash, NoRequest
  <2>3. crashes' \in 0..farm.crashes
    <3>1. farm.crashes \in Nat /\ crashes \in 0..farm.crashes
      BY PoolAssumption DEF IndInv, TypeOK
    <3>. QED BY <1>4, <3>1 DEF Crash
  <2>. QED BY <1>1, <2>1, <2>2, <2>3, Unnoticed
<1>5. CASE UNCHANGED vars
  <2>1. UNCHANGED <<kicks, run, act, del, crashes, req>>
    BY <1>5 DEF vars
  <2>. QED BY <1>1, <2>1, Typed, Unnoticed DEF IndInv
<1>. QED BY <1>2, <1>3, <1>4, <1>5

----------------------------------------------------------------------------
(* The theorems *)

LEMMA InitIndInv == Init => IndInv
<1>. SUFFICES ASSUME Init PROVE IndInv
  OBVIOUS
<1>1. /\ \A m \in Members : /\ member[m].st = "none" /\ member[m].admin = None
                            /\ member[m].cur = None /\ run[m] = "idle"
                            /\ act[m].pc = "idle" /\ del[m] = "idle"
      /\ \A c \in Claims : conn[c].st = "none" /\ conn[c].m = None /\ conn[c].by = None
      /\ dns = {}
  BY DEF Init, NoMember, NoClaim
<1>2. TypeOK
  <2>1. NoMember \in MemberRows /\ NoClaim \in ClaimRows
    BY DEF NoMember, NoClaim, MemberRows, ClaimRows, Statuses
  <2>2. farm.crashes \in Nat /\ farm.faults \in Nat /\ MaxSessions \in Nat
    BY PoolAssumption, CapacityAssumption DEF Init
  <2>3. member \in [Members -> MemberRows] /\ conn \in [Claims -> ClaimRows]
    BY <2>1 DEF Init
  <2>4. /\ run \in [Members -> RunPlaces] /\ act \in [Members -> ActRows]
        /\ del \in [Members -> DelPlaces]
    BY DEF Init, RunPlaces, ActRows, DelPlaces
  <2>5. batch \in [Batches -> [st : {"none", "live", "gone"}, on : BOOLEAN,
                               cleanup : BOOLEAN]]
    BY DEF Init
  <2>6. /\ req \in [Requests -> [held : BOOLEAN, cap : 0..MaxSessions]]
        /\ crashes \in 0..farm.crashes /\ faults \in 0..farm.faults
    BY <2>2 DEF Init, NoRequest
  <2>7. farm \in Farms /\ dns \subseteq Members /\ kicks \subseteq Members
        /\ raced \in BOOLEAN
    BY DEF Init
  <2>. QED BY <2>3, <2>4, <2>5, <2>6, <2>7
           DEF TypeOK, MemberRows, ClaimRows, RunPlaces, ActRows, DelPlaces
<1>3. ASSUME NEW m \in Members PROVE RowFits(m) /\ RunFits(m) /\ OwnerFits(m)
  BY <1>1 DEF RowFits, RunFits, OwnerFits, Inventory, Building
<1>4. ASSUME NEW c \in Claims PROVE ClaimFits(c)
  BY <1>1 DEF ClaimFits
<1>5. ASSUME NEW b \in Batches PROVE Drained(b)
  BY <1>1 DEF Drained
<1>6. OneClaimPerBrowser
  BY <1>1 DEF OneClaimPerBrowser
<1>. QED BY <1>2, <1>3, <1>4, <1>5, <1>6 DEF IndInv

LEMMA IndInvInductive == IndInv /\ [Next]_vars => IndInv' /\ Course
<1>. SUFFICES ASSUME IndInv, [Next]_vars PROVE IndInv' /\ Course
  OBVIOUS
<1>1. CASE Admission
  BY <1>1, RequestsKeep, AdmissionsKeep, CleanupsKeep DEF Admission
<1>2. CASE Reserving
  BY <1>2, ReservingKeeps
<1>3. CASE Operating
  BY <1>3, ActivationKeeps, RetryBuildKeeps, OwnerDeleteKeeps, CleanupsKeep DEF Operating
<1>4. ASSUME NEW m \in Members, Reconcile(m) \/ DropKick(m) \/ RunOne(m)
      PROVE  IndInv' /\ Course
  BY <1>4, RunnerKeeps
<1>5. ASSUME NEW m \in Members, WorkerStep(m) PROVE IndInv' /\ Course
  BY <1>5, RunnerKeeps, BuilderKeeps, CleanupStopKeeps, DropsKeep DEF WorkerStep
<1>6. ASSUME NEW m \in Members, ActivationStep(m) PROVE IndInv' /\ Course
  BY <1>6, ActivationKeeps, ReleaseKeeps DEF ActivationStep
<1>7. ASSUME NEW m \in Members, DeletionStep(m) PROVE IndInv' /\ Course
  BY <1>7, OwnerKeeps, DropsKeep DEF DeletionStep
<1>8. CASE Crash \/ UNCHANGED vars
  BY <1>8, RequestsKeep
<1>. QED BY <1>1, <1>2, <1>3, <1>4, <1>5, <1>6, <1>7, <1>8 DEF Next

LEMMA Invariance == Spec => []IndInv
  BY InitIndInv, IndInvInductive, PTL DEF Spec

\* The rows of batches, members and claims and the workers' bookkeeping stay
\* within the values the handlers and the runner give them (TypeOK of Pool).
THEOREM PoolTypes == Spec => []TypeOK
<1>1. IndInv => TypeOK
  BY DEF IndInv
<1>. QED BY <1>1, Invariance, PTL

\* Of a session's claims at most one is active or released, an active one is
\* the latest, and a browser holds one claim (ExclusiveClaims): whatever
\* reservations, deadlines, confirmations, cleanups and deletions overlap
\* under the advisory lock of store.go.
THEOREM ClaimsAreExclusive == Spec => []ExclusiveClaims
<1>1. ASSUME IndInv, NEW c \in Claims, NEW d \in Claims, c # d,
             conn[c].m # None, conn[c].m = conn[d].m
      PROVE  /\ ~(/\ conn[c].st \in Active \cup {"released"}
                  /\ conn[d].st \in Active \cup {"released"})
             /\ conn[c].st \in Active => member[conn[c].m].cur = c
  <2>1. PICK m \in Members : m = conn[c].m
    BY <1>1, Typed DEF IndInv, ClaimRows
  <2>2. RowFits(m) /\ ClaimFits(c) /\ ClaimFits(d)
    BY <1>1 DEF IndInv
  <2>3. /\ conn[c].st \in Active \cup {"released"} => member[m].cur = c
        /\ conn[d].st \in Active \cup {"released"} => member[m].cur = d
    BY <1>1, <2>1, <2>2, NoneApart DEF RowFits, ClaimFits, Confirmed
  <2>. QED BY <1>1, <2>1, <2>3
<1>2. IndInv => ExclusiveClaims
  BY <1>1 DEF ExclusiveClaims, OneHolder, IndInv
<1>. QED BY <1>2, Invariance, PTL

\* A batch that is being cleaned has only members on their way out, one that
\* is gone has none, and no session leaves a DNS record behind whose id it
\* knew (CleanupIsComplete), whatever step of a build, a cleanup or an
\* owner's deletion failed or was cut off by the end of the process.
THEOREM CleanupComplete == Spec => []CleanupIsComplete
<1>1. ASSUME IndInv PROVE CleanedBatchDrains
  BY <1>1 DEF IndInv, CleanedBatchDrains, Drained, MembersOf, Live
<1>2. ASSUME IndInv PROVE NoOrphanRecord
  BY <1>2, Typed DEF IndInv, NoOrphanRecord, OwnerFits
<1>3. IndInv => CleanupIsComplete
  BY <1>1, <1>2 DEF CleanupIsComplete
<1>. QED BY <1>3, Invariance, PTL

\* No worker that was still busy with a member takes it back, neither from
\* the one who confirmed it nor from its cleanup (MembersKeepCourse): the last
\* write of a build is never made to such a member.
THEOREM CourseIsKept == Spec => MembersKeepCourse
<1>1. IndInv /\ [Next]_vars =>
        [\A m \in Members : member[m].admin # None =>
            \/ member'[m].st = "gone"
            \/ member'[m].admin = member[m].admin
               /\ member'[m].st \notin Inventory]_vars
  BY IndInvInductive DEF Course
<1>2. IndInv /\ [Next]_vars =>
        [\A m \in Members : (member[m].st = "deleting" /\ member[m].admin = None) =>
            member'[m].st \in {"deleting", "gone"}]_vars
  BY IndInvInductive DEF Course
<1>. QED BY <1>1, <1>2, Invariance, PTL
         DEF Spec, MembersKeepCourse, ClaimedIsKept, CleanupIsFinal

----------------------------------------------------------------------------
(* Admission.  NeverOverAdmitted is not inductive: what a request adds     *)
(* depends on the snapshot it took.  With it goes, for every request that  *)
(* holds one, that the running members and what the snapshot promised      *)
(* still fit together, and that a member which runs, or is about to, has   *)
(* its pod in the snapshot.                                                *)

Running == {m \in Members : member[m].st = "running"}

Started == {m \in Live : member[m].pod}

\* The cluster of farm f holds n sessions.
Holds(f, n) == Placing(VtaOnly, f.cluster, 1, FALSE)[n].ok

HasPod(m) ==
    act[m].pc = "ready" \/ member[m].st = "running" =>
        member[m].pod \/ member[m].st = "gone"

Admitted ==
    /\ \A m \in Members : HasPod(m)
    /\ ~raced => /\ Holds(farm, Cardinality(Live))
                 /\ \A r \in Requests :
                        req[r].held =>
                            Holds(farm, Cardinality(Running) + req[r].cap)

\* The cluster of a farm, as the facts of CapacityProofs take it.
LEMMA FarmIsLeft ==
    ASSUME NEW f \in Farms
    PROVE  \E N, D : /\ Numbers(N) /\ Numbers(D)
                     /\ IsLeft(f.cluster, N, D) /\ f.cluster.ok
<1>1. IsCluster(f.cluster)
  BY PoolAssumption
<1>. QED BY <1>1, ClusterIsLeft

LEMMA HoldsFewer ==
    ASSUME NEW f \in Farms, NEW n \in Nat, NEW k \in Nat, k <= n, Holds(f, n)
    PROVE  Holds(f, k)
<1>1. PICK N, D : Numbers(N) /\ Numbers(D) /\ IsLeft(f.cluster, N, D)
  BY FarmIsLeft
<1>2. \A i, m \in Nat : i <= m /\ Holds(f, m) => Holds(f, i)
  BY <1>1, PoolAssumption, PlacingLasts DEF Holds
<1>. QED BY <1>2

LEMMA HoldsNone ==
    ASSUME NEW f \in Farms PROVE Holds(f, 0)
<1>1. f.cluster.ok
  BY FarmIsLeft
<1>2. ASSUME NEW known PROVE Placing(VtaOnly, f.cluster, 1, known)[0] = f.cluster
  BY PlacingUnfolds
<1>3. Placing(VtaOnly, f.cluster, 1, FALSE)[0].ok <=> f.cluster.ok
  BY <1>2, Zenon
<1>. QED BY <1>1, <1>3 DEF Holds

LEMMA Sized ==
    ASSUME NEW S \in SUBSET Members
    PROVE  /\ IsFiniteSet(S) /\ Cardinality(S) \in Nat
           /\ \A T \in SUBSET S : /\ IsFiniteSet(T)
                                  /\ Cardinality(T) \in Nat
                                  /\ Cardinality(T) <= Cardinality(S)
<1>1. IsFiniteSet(Members)
  BY FS_Interval, PoolAssumption DEF Members
<1>2. IsFiniteSet(S)
  BY <1>1, FS_Subset
<1>. QED BY <1>2, FS_Subset, FS_CardinalityType

\* What the simulation counts after n sessions fits beside those n.
LEMMA FitsBeside ==
    ASSUME NEW N, Numbers(N), NEW D, Numbers(D), NEW c, IsLeft(c, N, D),
           NEW mode, IsMode(mode), NEW r \in Nat, NEW known, NEW n \in Nat,
           NEW left, left = Placing(mode, c, r, known)[n], left.ok
    PROVE  /\ Simulate(mode, left, r, known) \in Nat
           /\ Placing(mode, c, r, known)[n + Simulate(mode, left, r, known)].ok
<1>1. Lasts(left, c, N, D)
  BY PlacingLasts
<1>2. IsLeft(left, N, D)
  BY <1>1 DEF Lasts
<1>3. /\ Simulate(mode, left, r, known) \in 0..MaxSessions
      /\ \A k \in 0..MaxSessions :
             Placing(mode, left, r, known)[k].ok
                 <=> k <= Simulate(mode, left, r, known)
  BY <1>2, SimulateIsPrefix
<1>. DEFINE s == Simulate(mode, left, r, known)
<1>. HIDE DEF s
<1>4. s \in Nat /\ Placing(mode, left, r, known)[s].ok
  BY <1>3, CapacityAssumption DEF s
<1>5. Placing(mode, left, r, known)[s] = Placing(mode, c, r, known)[n + s]
  BY <1>4, PlacingSplits
<1>. QED BY <1>4, <1>5 DEF s

\* What the snapshot promises fits beside every member whose pod it counted.
LEMMA SnapshotFits ==
    ASSUME farm \in Farms, Running \subseteq Started,
           Holds(farm, Cardinality(Running))
    PROVE  Holds(farm, Cardinality(Running) + Snapshot)
<1>. DEFINE pods == Cardinality(Started)
            left == ReserveMode(VtaOnly, pods, farm.cluster, 1, FALSE)
<1>1. /\ pods \in Nat /\ Cardinality(Running) \in Nat
      /\ Cardinality(Running) <= pods
  <2>1. Started \in SUBSET Members
    BY DEF Started, Live
  <2>. QED BY <2>1, Sized
<1>2. Snapshot = IF left.ok THEN EstimateMode(VtaOnly, left, 1, FALSE).count ELSE 0
  BY DEF Snapshot, Started
<1>3. AtLeastOne(1) = 1
  BY DEF AtLeastOne, Larger
<1>. HIDE DEF left
<1>4. CASE ~left.ok
  BY <1>1, <1>2, <1>4
<1>5. CASE left.ok
  <2>1. left = Placing(VtaOnly, farm.cluster, 1, FALSE)[pods]
    <3>1. pods > MaxSessions => left = [farm.cluster EXCEPT !.ok = FALSE]
      BY DEF left, ReserveMode
    <3>2. PICK N, D : IsLeft(farm.cluster, N, D)
      BY FarmIsLeft
    <3>3. [farm.cluster EXCEPT !.ok = FALSE] = Failed(farm.cluster)
      BY <3>2, FailedIs
    <3>4. Failed(farm.cluster).ok = FALSE
      BY DEF Failed
    <3>5. ~(pods > MaxSessions)
      BY <1>5, <3>1, <3>3, <3>4
    <3>. QED BY <1>3, <3>5 DEF left, ReserveMode
  <2>2. Snapshot = Simulate(VtaOnly, left, 1, FALSE)
    BY <1>2, <1>3, <1>5 DEF EstimateMode
  <2>3. PICK N, D : Numbers(N) /\ Numbers(D) /\ IsLeft(farm.cluster, N, D)
    BY FarmIsLeft
  <2>4. IsMode(VtaOnly) /\ 1 \in Nat
    BY PoolAssumption
  <2>5. /\ Simulate(VtaOnly, left, 1, FALSE) \in Nat
        /\ Placing(VtaOnly, farm.cluster, 1, FALSE)
               [pods + Simulate(VtaOnly, left, 1, FALSE)].ok
    BY <1>1, <1>5, <2>1, <2>3, <2>4, FitsBeside, Zenon
  <2>6. Snapshot \in Nat /\ Holds(farm, pods + Snapshot)
    BY <2>2, <2>5, Zenon DEF Holds
  <2>7. /\ Cardinality(Running) + Snapshot <= pods + Snapshot
        /\ Cardinality(Running) + Snapshot \in Nat /\ pods + Snapshot \in Nat
    BY <1>1, <2>6
  <2>. QED BY <2>6, <2>7, HoldsFewer
<1>. QED BY <1>4, <1>5

\* What a step does to member m that neither admits it, nor makes it run, nor
\* takes its pod away before it is gone.
QuietRow(m) ==
    /\ member[m].st \in {"none", "gone"} => member'[m].st = member[m].st
    /\ member'[m].st = "running" => member[m].st = "running"
    /\ member[m].pod => member'[m].pod \/ member'[m].st = "gone"

Quiet ==
    /\ farm' = farm /\ raced' = raced
    /\ \A r \in Requests : req'[r] = req[r] \/ ~req'[r].held
    /\ \A m \in Members : /\ QuietRow(m)
                          /\ act'[m].pc = "ready" => act[m].pc = "ready"

\* The members that live, and those that run, only become fewer.
LEMMA RowsShrink ==
    ASSUME \A m \in Members : QuietRow(m)
    PROVE  /\ Live \in SUBSET Members /\ Live' \in SUBSET Live
           /\ Running \in SUBSET Members /\ Running' \in SUBSET Running
  BY DEF Live, Running, QuietRow

LEMMA QuietKeeps ==
    ASSUME IndInv, Admitted, Quiet
    PROVE  Admitted'
<1>1. \A m \in Members : HasPod(m)'
  BY DEF Admitted, HasPod, Quiet, QuietRow
<1>2. farm \in Farms /\ farm' = farm /\ raced' = raced
  BY DEF IndInv, TypeOK, Quiet
<1>3. /\ Cardinality(Live) \in Nat /\ Cardinality(Live') \in Nat
      /\ Cardinality(Live') <= Cardinality(Live)
      /\ Cardinality(Running) \in Nat /\ Cardinality(Running') \in Nat
      /\ Cardinality(Running') <= Cardinality(Running)
  BY RowsShrink, Sized DEF Quiet
<1>4. ~raced => Holds(farm, Cardinality(Live'))
  BY <1>2, <1>3, HoldsFewer DEF Admitted
<1>5. ASSUME ~raced, NEW r \in Requests, req'[r].held
      PROVE  Holds(farm, Cardinality(Running') + req'[r].cap)
  <2>2. req'[r] = req[r]
    BY <1>5 DEF Quiet
  <2>3. req[r].cap \in Nat
    BY CapacityAssumption DEF IndInv, TypeOK
  <2>4. Holds(farm, Cardinality(Running) + req[r].cap)
    BY <1>5, <2>2 DEF Admitted
  <2>5. /\ Cardinality(Running) + req[r].cap \in Nat
        /\ Cardinality(Running') + req[r].cap \in Nat
        /\ Cardinality(Running') + req[r].cap <= Cardinality(Running) + req[r].cap
    BY <1>3, <2>3
  <2>6. Holds(farm, Cardinality(Running') + req[r].cap)
    BY <1>2, <2>4, <2>5, HoldsFewer
  <2>. QED BY <2>2, <2>6
<1>. QED BY <1>1, <1>2, <1>4, <1>5 DEF Admitted

\* The writes of a row, one after the other.
LEMMA RowKeptQuiet ==
    ASSUME NEW m \in Members, member'[m] = member[m]
    PROVE  QuietRow(m)
  BY DEF QuietRow

LEMMA StatusQuiet ==
    ASSUME member \in [Members -> MemberRows], NEW m \in Members, NEW st,
           st # "running", member[m].st # "none",
           \/ Write(m, st)
           \/ Set(m, st) /\ member[m].st # "gone"
    PROVE  \A n \in Members : QuietRow(n)
<1>1. PICK new : /\ member' = [member EXCEPT ![m] = [member[m] EXCEPT !.st = new]]
                 /\ new # "running"
                 /\ member[m].st = "gone" => new = "gone"
  BY DEF Write, Set
<1>2. /\ [member[m] EXCEPT !.st = new].st = new
      /\ [member[m] EXCEPT !.st = new].pod = member[m].pod
  BY DEF MemberRows
<1>3. /\ member'[m].st = new /\ member'[m].pod = member[m].pod
      /\ \A n \in Members \ {m} : member'[n] = member[n]
  BY <1>1, <1>2
<1>. QED BY <1>1, <1>3 DEF QuietRow

LEMMA FieldQuiet ==
    ASSUME member \in [Members -> MemberRows], NEW m \in Members, NEW row,
           member' = [member EXCEPT ![m] = row],
           row.st = member[m].st, member[m].pod => row.pod
    PROVE  \A n \in Members : QuietRow(n)
<1>1. member'[m] = row /\ \A n \in Members \ {m} : member'[n] = member[n]
  OBVIOUS
<1>. QED BY <1>1 DEF QuietRow

LEMMA DropQuiet ==
    ASSUME member \in [Members -> MemberRows], NEW m \in Members,
           DropRows(m), member[m].st # "none"
    PROVE  \A n \in Members : QuietRow(n)
<1>1. PICK row : member' = [member EXCEPT ![m] = row] /\ row.st = "gone"
  <2>1. member' = [member EXCEPT ![m] = [NoMember EXCEPT !.st = "gone",
              !.batch = member[m].batch, !.record = member[m].record]]
    BY DEF DropRows
  <2>2. [NoMember EXCEPT !.st = "gone", !.batch = member[m].batch,
                         !.record = member[m].record].st = "gone"
    BY DEF NoMember
  <2>. QED BY <2>1, <2>2
<1>2. member'[m] = row /\ \A n \in Members \ {m} : member'[n] = member[n]
  BY <1>1
<1>. QED BY <1>1, <1>2 DEF QuietRow

LEMMA Quietly ==
    ASSUME farm' = farm, raced' = raced,
           \A r \in Requests : req'[r] = req[r] \/ ~req'[r].held,
           \A m \in Members : QuietRow(m),
           \/ UNCHANGED act
           \/ \E m \in Members : \E r :
                  /\ act' = [act EXCEPT ![m] = r]
                  /\ r.pc = "ready" => act[m].pc = "ready"
           \/ \A m \in Members : act'[m].pc = "idle",
           act \in [Members -> ActRows]
    PROVE  Quiet
<1>1. \A n \in Members : act'[n].pc = "ready" => act[n].pc = "ready"
  <2>1. CASE \E m \in Members : \E r :
                 /\ act' = [act EXCEPT ![m] = r]
                 /\ r.pc = "ready" => act[m].pc = "ready"
    <3>1. PICK m \in Members : \E r :
                 /\ act' = [act EXCEPT ![m] = r]
                 /\ r.pc = "ready" => act[m].pc = "ready"
      BY <2>1
    <3>2. PICK r : /\ act' = [act EXCEPT ![m] = r]
                   /\ r.pc = "ready" => act[m].pc = "ready"
      BY <3>1
    <3>3. act'[m] = r /\ \A n \in Members \ {m} : act'[n] = act[n]
      BY <3>2
    <3>. QED BY <3>2, <3>3
  <2>. QED BY <2>1
<1>. QED BY <1>1 DEF Quiet

\* The steps that leave every row alone, or of a row only what its
\* administrator sees.
LEMMA RowsKeptQuiet ==
    ASSUME IndInv,
           \/ Crash \/ UNCHANGED vars \/ \E r \in Requests : Refused(r)
           \/ \E b \in Batches, on \in BOOLEAN : SetPublicSignup(b, on)
           \/ \E c \in Claims : Claim(c) \/ Expire(c) \/ Reject(c) \/ View(c)
           \/ \E m \in Members :
                  \/ Reconcile(m) \/ DropKick(m) \/ RunOne(m) \/ Prepare(m)
                  \/ Build(m) \/ Check(m) \/ CleanupDelete(m)
                  \/ TakeActivation(m) \/ ReleaseClaim(m)
                  \/ OwnerWait(m) \/ OwnerDeleteRecord(m)
    PROVE  Quiet
<1>1. act \in [Members -> ActRows]
  BY Typed DEF IndInv
<1>2. UNCHANGED <<farm, member, raced>>
  BY DEF Refused, Crash, vars, SetPublicSignup, Claim, Expire, Reject, View,
         Reconcile, DropKick, RunOne, Prepare, Build, Check, CleanupDelete,
         TakeActivation, ReleaseClaim, OwnerWait, OwnerDeleteRecord, rows
<1>3. \A m \in Members : QuietRow(m)
  BY <1>2, RowKeptQuiet
<1>4. CASE Crash \/ \E r \in Requests : Refused(r)
  <2>1. UNCHANGED act \/ \A m \in Members : act'[m].pc = "idle"
    BY <1>4 DEF Refused, Crash, workers
  <2>2. CASE Crash
    <3>1. \A q \in Requests : ~req'[q].held
      BY <2>2 DEF Crash, NoRequest
    <3>. QED BY <1>1, <1>2, <1>3, <2>1, <3>1, Quietly
  <2>3. CASE \E r \in Requests : Refused(r)
    <3>1. \A q \in Requests : req'[q] = req[q] \/ ~req'[q].held
      BY <2>3, RequestOver, Typed DEF Refused, IndInv
    <3>. QED BY <1>1, <1>2, <1>3, <2>1, <3>1, Quietly
  <2>. QED BY <1>4, <2>2, <2>3
<1>5. CASE \E m \in Members : TakeActivation(m) \/ ReleaseClaim(m)
  <2>1. PICK m \in Members :
                 \E r : act' = [act EXCEPT ![m] = r] /\ r.pc # "ready"
    BY <1>5 DEF TakeActivation, ReleaseClaim, ActGo
  <2>2. UNCHANGED req
    BY <1>5 DEF TakeActivation, ReleaseClaim
  <2>. QED BY <1>1, <1>2, <1>3, <2>1, <2>2, Quietly
<1>6. CASE ~(\/ Crash \/ \E r \in Requests : Refused(r)
             \/ \E m \in Members : TakeActivation(m) \/ ReleaseClaim(m))
  <2>1. UNCHANGED <<req, act>>
    BY <1>6 DEF vars, SetPublicSignup, Claim, Expire, Reject, View,
         Reconcile, DropKick, RunOne, Prepare, Build, Check, CleanupDelete,
         OwnerWait, OwnerDeleteRecord, workers
  <2>. QED BY <1>1, <1>2, <1>3, <2>1, Quietly
<1>. QED BY <1>4, <1>5, <1>6

\* The steps of the runner and of the operator that write a status.
LEMMA StatusesQuiet ==
    ASSUME IndInv, NEW m \in Members,
           \/ RetryActivation(m) \/ RetryBuild(m) \/ OwnerDelete(m)
           \/ SaveRecord(m) \/ Setup(m) \/ SetupJob(m) \/ Publish(m)
           \/ Park(m) \/ RecordBuildError(m) \/ CleanupStop(m)
           \/ CleanupDrop(m) \/ OwnerDrop(m)
    PROVE  Quiet
<1>1. /\ member \in [Members -> MemberRows] /\ act \in [Members -> ActRows]
      /\ RowFits(m) /\ RunFits(m) /\ OwnerFits(m)
  BY Typed DEF IndInv
<1>2. UNCHANGED <<farm, raced, req>>
  BY DEF RetryActivation, RetryBuild, OwnerDelete, SaveRecord, Setup, SetupJob,
         Publish, Park, RecordBuildError, CleanupStop, CleanupDrop, OwnerDrop
<1>3. \/ UNCHANGED act
      \/ \E r : /\ act' = [act EXCEPT ![m] = r]
                /\ r.pc = "ready" => act[m].pc = "ready"
  <2>1. CASE OwnerDelete(m)
    <3>1. act' = [act EXCEPT ![m] = [act[m] EXCEPT !.cancelled =
                                                       (act[m].pc # "idle")]]
      BY <2>1 DEF OwnerDelete
    <3>2. [act[m] EXCEPT !.cancelled = (act[m].pc # "idle")].pc = act[m].pc
      BY <1>1 DEF ActRows
    <3>. QED BY <3>1, <3>2
  <2>2. CASE ~OwnerDelete(m)
    BY <2>2 DEF RetryActivation, RetryBuild, SaveRecord, Setup, SetupJob,
         Publish, Park, RecordBuildError, CleanupStop, CleanupDrop, OwnerDrop,
         workers
  <2>. QED BY <2>1, <2>2
<1>4. \A n \in Members : QuietRow(n)
  <2>1. CASE RetryActivation(m) \/ RetryBuild(m)
    BY <1>1, <2>1, StatusQuiet DEF RetryActivation, RetryBuild
  <2>2. CASE Setup(m) \/ Park(m)
    <3>1. member[m].st # "none"
      BY <1>1, <2>2 DEF RunFits, Setup, Park, At, Building
    <3>. QED BY <1>1, <2>2, <3>1, StatusQuiet DEF Setup, Park
  <2>3. CASE Publish(m)
    <3>1. member[m].st # "none"
      BY <1>1, <2>3 DEF RunFits, Publish, Building
    <3>. QED BY <1>1, <2>3, <3>1, StatusQuiet, RowKeptQuiet DEF Publish
  <2>4. CASE RecordBuildError(m)
    <3>1. member[m].st # "none"
      BY <1>1, <2>4 DEF RunFits, RowFits, RecordBuildError, At, Building
    <3>. QED BY <1>1, <2>4, <3>1, StatusQuiet, RowKeptQuiet DEF RecordBuildError
  <2>5. CASE SaveRecord(m)
    <3>1. CASE UNCHANGED member
      BY <3>1, RowKeptQuiet
    <3>2. CASE member' = [member EXCEPT ![m].record = TRUE]
      <4>. DEFINE row == [member[m] EXCEPT !.record = TRUE]
      <4>1. row.st = member[m].st /\ row.pod = member[m].pod
        BY <1>1 DEF MemberRows
      <4>2. member' = [member EXCEPT ![m] = row]
        BY <3>2
      <4>. HIDE DEF row
      <4>. QED BY <1>1, <4>1, <4>2, FieldQuiet
    <3>. QED BY <2>5, <3>1, <3>2 DEF SaveRecord
  <2>6. CASE SetupJob(m)
    <3>1. member[m].st \in Building
      BY <1>1, <2>6 DEF RunFits, SetupJob, At
    <3>2. CASE member' = [member EXCEPT ![m].did = TRUE,
                              ![m].st = IF @ = "gone" THEN @
                                        ELSE "pool_publishing"]
      <4>1. /\ member'[m].st = "pool_publishing" /\ member'[m].pod = member[m].pod
            /\ \A n \in Members \ {m} : member'[n] = member[n]
        BY <1>1, <3>1, <3>2 DEF MemberRows, Building
      <4>. QED BY <3>1, <4>1 DEF QuietRow, Building
    <3>3. CASE Write(m, "failed")
      BY <1>1, <3>1, <3>3, StatusQuiet DEF Building
    <3>. QED BY <2>6, <3>2, <3>3 DEF SetupJob
  <2>7. CASE CleanupStop(m) \/ OwnerDelete(m)
    <3>1. /\ member[m].st \notin {"none", "gone"}
          /\ member' = [member EXCEPT ![m].st = "deleting"]
      BY <1>1, <2>7, NoneApart DEF RunFits, RowFits, CleanupStop, OwnerDelete, At, Stop
    <3>. QED BY <1>1, <3>1, StatusQuiet DEF Set
  <2>8. CASE CleanupDrop(m) \/ OwnerDrop(m)
    <3>1. member[m].st # "none" /\ DropRows(m)
      BY <1>1, <2>8 DEF RunFits, RowFits, OwnerFits, CleanupDrop, OwnerDrop, At
    <3>. QED BY <1>1, <3>1, DropQuiet
  <2>. QED BY <2>1, <2>2, <2>3, <2>4, <2>5, <2>6, <2>7, <2>8
<1>. QED BY <1>1, <1>2, <1>3, <1>4, Quietly

\* The steps that write rows of claims with the member's.
LEMMA ReservingQuiet ==
    ASSUME IndInv,
           \/ \E m \in Members : Reserve(m)
           \/ \E m \in Members, w \in Browsers : ReservePublic(m, w)
           \/ \E c \in Claims : Confirm(c)
           \/ \E S \in SUBSET Members : QueueCleanup(S)
           \/ \E b \in Batches : QueueBatchCleanup(b)
    PROVE  Quiet
<1>1. member \in [Members -> MemberRows] /\ act \in [Members -> ActRows]
  BY Typed DEF IndInv
<1>2. UNCHANGED <<farm, raced, req, act>>
  BY DEF Reserve, ReservePublic, Confirm, QueueCleanup, QueueBatchCleanup, workers
<1>3. SUFFICES \A n \in Members : QuietRow(n)
  BY <1>1, <1>2, Quietly
<1>4. ASSUME NEW m \in Members, NEW by, Open(m, by)
      PROVE  \A n \in Members : QuietRow(n)
  <2>1. PICK c : member' = [member EXCEPT ![m].cur = c]
    BY <1>4 DEF Open
  <2>. DEFINE row == [member[m] EXCEPT !.cur = c]
  <2>2. row.st = member[m].st /\ row.pod = member[m].pod
    BY <1>1 DEF MemberRows
  <2>3. member' = [member EXCEPT ![m] = row]
    BY <2>1
  <2>. HIDE DEF row
  <2>. QED BY <1>1, <2>2, <2>3, FieldQuiet
<1>5. CASE \E m \in Members : Reserve(m)
  BY <1>4, <1>5 DEF Reserve
<1>6. CASE \E m \in Members, w \in Browsers : ReservePublic(m, w)
  BY <1>4, <1>6 DEF ReservePublic
<1>7. ASSUME NEW c \in Claims, Confirm(c)
      PROVE  \A n \in Members : QuietRow(n)
  <2>1. /\ conn[c].st = "claimed" /\ ClaimFits(c)
        /\ member' = [member EXCEPT ![conn[c].m].st = "provisioning",
                                    ![conn[c].m].admin = c]
    BY <1>7 DEF IndInv, Confirm
  <2>2. PICK m \in Members : m = conn[c].m
    BY <2>1, Typed DEF IndInv, ClaimRows, ClaimFits
  <2>3. member[m].st = "pool_waiting"
    BY <2>1, <2>2, NoneApart DEF ClaimFits
  <2>4. /\ member'[m].st = "provisioning" /\ member'[m].pod = member[m].pod
        /\ \A n \in Members \ {m} : member'[n] = member[n]
    BY <1>1, <2>1, <2>2 DEF MemberRows
  <2>. QED BY <2>3, <2>4 DEF QuietRow
<1>8. ASSUME NEW S \in SUBSET Live, QueueCleanupBulk(S)
      PROVE  \A n \in Members : QuietRow(n)
  <2>1. ASSUME NEW n \in Members PROVE QuietRow(n)
    <3>1. CASE n \in S
      <4>1. member'[n] = [member[n] EXCEPT !.st = "deleting"]
        BY <1>8, <3>1 DEF QueueCleanupBulk
      <4>2. /\ [member[n] EXCEPT !.st = "deleting"].st = "deleting"
            /\ [member[n] EXCEPT !.st = "deleting"].pod = member[n].pod
        BY <1>1 DEF MemberRows
      <4>3. member[n].st \notin {"none", "gone"}
        BY <3>1 DEF Live
      <4>. QED BY <4>1, <4>2, <4>3 DEF QuietRow
    <3>2. CASE n \notin S
      <4>1. member'[n] = member[n]
        BY <1>8, <3>2 DEF QueueCleanupBulk
      <4>. QED BY <4>1, RowKeptQuiet
    <3>. QED BY <3>1, <3>2
  <2>. QED BY <2>1
<1>9. CASE \E S \in SUBSET Members : QueueCleanup(S)
  BY <1>8, <1>9 DEF QueueCleanup
<1>10. CASE \E b \in Batches : QueueBatchCleanup(b)
  <2>1. PICK b \in Batches : QueueBatchCleanup(b)
    BY <1>10
  <2>2. UNCHANGED member \/ QueueCleanupBulk(MembersOf(b))
    BY <2>1 DEF QueueBatchCleanup
  <2>3. MembersOf(b) \in SUBSET Live
    BY DEF MembersOf
  <2>. QED BY <1>8, <2>2, <2>3, RowKeptQuiet
<1>. QED BY <1>5, <1>6, <1>7, <1>9, <1>10

\* Starting an activation writes a status; Activate starts the pod of the
\* member it goes on with; only FinishActivation makes a member run.
LEMMA ActivationAdmitted ==
    ASSUME IndInv, Admitted, NEW m \in Members,
           StartActivation(m) \/ Activate(m) \/ FinishActivation(m)
    PROVE  Admitted'
<1>1. /\ member \in [Members -> MemberRows] /\ act \in [Members -> ActRows]
      /\ RowFits(m) /\ OwnerFits(m)
  BY Typed DEF IndInv
<1>2. act[m].pc # "idle" /\ member[m].st # "none"
  <2>1. act[m].pc # "idle"
    BY DEF StartActivation, Activate, FinishActivation
  <2>. QED BY <1>1, <2>1 DEF RowFits, OwnerFits
<1>3. UNCHANGED <<farm, req>>
  BY DEF StartActivation, Activate, FinishActivation
<1>4. ASSUME UNCHANGED raced, NEW st \in {"provisioning", "failed"},
             Write(m, st) \/ UNCHANGED member,
             NEW pc \in {"activate", "idle"}, ActGo(m, pc)
      PROVE  Admitted'
  <2>1. \A n \in Members : QuietRow(n)
    BY <1>1, <1>2, <1>4, StatusQuiet, RowKeptQuiet
  <2>2. act'[m].pc = pc /\ \A n \in Members \ {m} : act'[n] = act[n]
    BY <1>1, <1>4, ActGoes
  <2>3. Quiet
    BY <1>3, <1>4, <2>1, <2>2 DEF Quiet
  <2>. QED BY <2>3, QuietKeeps
<1>5. CASE StartActivation(m)
  BY <1>4, <1>5 DEF StartActivation
<1>6. CASE /\ member' = [member EXCEPT ![m].pod = TRUE]
           /\ ActGo(m, "ready") /\ UNCHANGED raced
  <2>. DEFINE row == [member[m] EXCEPT !.pod = TRUE]
  <2>1. row.st = member[m].st /\ row.pod
    BY <1>1 DEF MemberRows
  <2>2. member' = [member EXCEPT ![m] = row]
    BY <1>6
  <2>. HIDE DEF row
  <2>3. member'[m] = row /\ \A n \in Members \ {m} : member'[n] = member[n]
    BY <1>1, <2>2
  <2>4. \A n \in Members \ {m} : act'[n] = act[n]
    BY <1>1, <1>6, ActGoes
  <2>5. \A n \in Members : HasPod(n)'
    BY <2>1, <2>3, <2>4 DEF Admitted, HasPod
  <2>6. Live' = Live /\ Running' = Running
    BY <2>1, <2>3 DEF Live, Running
  <2>. QED BY <1>3, <1>6, <2>5, <2>6 DEF Admitted
<1>7. CASE Activate(m)
  BY <1>4, <1>6, <1>7 DEF Activate
<1>8. CASE /\ Write(m, "running") /\ ActGo(m, "release")
           /\ raced' = (raced \/ \E r \in Requests : req[r].held)
           /\ act[m].pc = "ready"
  <2>1. PICK new : /\ member' = [member EXCEPT ![m] = [member[m] EXCEPT !.st = new]]
                   /\ member[m].st = "gone" <=> new = "gone"
                   /\ new \in {"gone", "running"}
    BY <1>8 DEF Write
  <2>2. /\ [member[m] EXCEPT !.st = new].st = new
        /\ [member[m] EXCEPT !.st = new].pod = member[m].pod
    BY <1>1 DEF MemberRows
  <2>3. /\ member'[m].st = new /\ member'[m].pod = member[m].pod
        /\ \A n \in Members \ {m} : member'[n] = member[n]
    BY <1>1, <2>1, <2>2
  <2>4. /\ act'[m].pc = "release"
        /\ \A n \in Members \ {m} : act'[n] = act[n]
    BY <1>1, <1>8, ActGoes
  <2>5. \A n \in Members : HasPod(n)'
    BY <1>8, <2>1, <2>3, <2>4 DEF Admitted, HasPod
  <2>6. Live' = Live
    BY <1>2, <2>1, <2>3 DEF Live
  <2>7. ~raced' => ~raced /\ \A r \in Requests : ~req'[r].held
    BY <1>3, <1>8
  <2>. QED BY <1>3, <2>5, <2>6, <2>7 DEF Admitted
<1>9. CASE FinishActivation(m)
  BY <1>4, <1>8, <1>9 DEF FinishActivation
<1>. QED BY <1>5, <1>7, <1>9

\* A request reads the cluster when everything admitted still fits.
LEMMA ReadAdmitted ==
    ASSUME IndInv, Admitted, NEW r \in Requests, ReadCapacity(r)
    PROVE  Admitted'
<1>1. UNCHANGED <<farm, member, act, raced>>
  BY DEF ReadCapacity, rows, workers
<1>2. farm \in Farms
  BY DEF IndInv, TypeOK
<1>3. \A m \in Members : HasPod(m)'
  BY <1>1 DEF Admitted, HasPod
<1>4. Live' = Live /\ Running' = Running
  BY <1>1 DEF Live, Running
<1>5. Running \in SUBSET Started /\ Running \in SUBSET Live /\ Live \in SUBSET Members
  BY DEF Admitted, HasPod, Running, Started, Live
<1>6. ~raced => Holds(farm, Cardinality(Running) + Snapshot)
  <2>1. /\ Cardinality(Running) \in Nat /\ Cardinality(Live) \in Nat
        /\ Cardinality(Running) <= Cardinality(Live)
    BY <1>5, Sized
  <2>2. ~raced => Holds(farm, Cardinality(Running))
    BY <1>2, <2>1, HoldsFewer DEF Admitted
  <2>. QED BY <1>2, <1>5, <2>2, SnapshotFits
<1>7. ASSUME ~raced, NEW q \in Requests, req'[q].held
      PROVE  Holds(farm, Cardinality(Running') + req'[q].cap)
  <2>1. req' = [req EXCEPT ![r] = [held |-> TRUE, cap |-> Snapshot]]
    BY DEF ReadCapacity
  <2>2. IF q = r THEN req'[q].cap = Snapshot ELSE req'[q] = req[q]
    BY <2>1, Typed DEF IndInv
  <2>3. CASE q = r
    BY <1>4, <1>6, <1>7, <2>2, <2>3
  <2>4. CASE q # r
    BY <1>4, <1>7, <2>2, <2>4 DEF Admitted
  <2>. QED BY <2>3, <2>4
<1>. QED BY <1>1, <1>3, <1>4, <1>7 DEF Admitted

\* An admission adds no more members than the snapshot leaves room for once
\* the members that do not run yet are subtracted.
LEMMA InsertAdmitted ==
    ASSUME IndInv, Admitted, NEW r \in Requests, NEW b \in Batches,
           NEW n \in Members, req[r].held, RoomFor(r, n), Insert(b, n), Answered(r),
           UNCHANGED <<farm, act, raced>>
    PROVE  Admitted'
<1>. DEFINE new == {m \in Fresh : Cardinality({k \in Fresh : k < m}) < n}
<1>1. /\ new \in SUBSET Members /\ \A m \in new : member[m].st = "none"
      /\ Cardinality(new) = n
      /\ member' = [m \in Members |->
             IF m \in new THEN [NoMember EXCEPT !.st = "pool_creating", !.batch = b]
             ELSE member[m]]
  BY DEF Insert, Fresh
<1>. HIDE DEF new
<1>2. [NoMember EXCEPT !.st = "pool_creating", !.batch = b].st = "pool_creating"
  BY DEF NoMember
<1>3. /\ \A m \in new : member'[m].st = "pool_creating"
      /\ \A m \in Members \ new : member'[m] = member[m]
  BY <1>1, <1>2
<1>4. \A m \in Members : HasPod(m)'
  <2>1. ASSUME NEW m \in Members PROVE HasPod(m)'
    <3>1. CASE m \in new
      <4>1. act[m].pc # "ready"
        BY <1>1, <3>1 DEF IndInv, RowFits, OwnerFits
      <4>. QED BY <1>3, <3>1, <4>1 DEF HasPod
    <3>2. CASE m \notin new
      BY <1>3, <3>2 DEF Admitted, HasPod
    <3>. QED BY <3>1, <3>2
  <2>. QED BY <2>1
<1>5. /\ Live \in SUBSET Members /\ NonRunning \in SUBSET Members
      /\ Running \in SUBSET Members
      /\ Live' \in SUBSET (Live \cup new)
      /\ Live = Running \cup NonRunning /\ Running \cap NonRunning = {}
  BY <1>3 DEF Live, NonRunning, Running
<1>6. /\ Cardinality(Live) = Cardinality(Running) + Cardinality(NonRunning)
      /\ Cardinality(Live) \in Nat /\ Cardinality(Running) \in Nat
      /\ Cardinality(NonRunning) \in Nat
  <2>1. /\ IsFiniteSet(Running) /\ IsFiniteSet(NonRunning)
        /\ Cardinality(Running) \in Nat /\ Cardinality(NonRunning) \in Nat
        /\ Cardinality(Live) \in Nat
    BY <1>5, Sized
  <2>2. Cardinality(Running \cup NonRunning)
            = Cardinality(Running) + Cardinality(NonRunning)
                  - Cardinality(Running \cap NonRunning)
    BY <2>1, FS_Union
  <2>3. Cardinality(Running \cap NonRunning) = 0
    BY <1>5, FS_EmptySet
  <2>. QED BY <1>5, <2>1, <2>2, <2>3
<1>7. /\ Cardinality(Live') \in Nat
      /\ Cardinality(Live') <= Cardinality(Live) + n
  <2>1. /\ IsFiniteSet(Live) /\ IsFiniteSet(new)
    BY <1>1, <1>5, Sized
  <2>2. /\ Cardinality(Live \cup new)
               = Cardinality(Live) + Cardinality(new) - Cardinality(Live \cap new)
    BY <2>1, FS_Union
  <2>3. Live \cup new \in SUBSET Members /\ Live \cap new \in SUBSET Members
    BY <1>1, <1>5
  <2>4. Cardinality(Live \cap new) \in Nat
    BY <2>3, Sized
  <2>5. /\ Cardinality(Live \cup new) \in Nat /\ Cardinality(Live') \in Nat
        /\ Cardinality(Live') <= Cardinality(Live \cup new)
    BY <1>5, <2>3, Sized
  <2>6. n \in Nat
    BY DEF Members
  <2>. QED BY <1>1, <1>6, <2>2, <2>4, <2>5, <2>6
<1>8. n \in Nat /\ n >= 1 /\ req[r].cap \in Nat
  BY CapacityAssumption DEF Members, IndInv, TypeOK
<1>9. n <= req[r].cap - Cardinality(NonRunning)
  BY <1>6, <1>8 DEF RoomFor, Larger
<1>10. /\ Cardinality(Live') <= Cardinality(Running) + req[r].cap
       /\ Cardinality(Running) + req[r].cap \in Nat
  BY <1>6, <1>7, <1>8, <1>9
<1>11. ~raced => Holds(farm, Cardinality(Live'))
  <2>1. ~raced => Holds(farm, Cardinality(Running) + req[r].cap)
    BY DEF Admitted
  <2>2. farm \in Farms
    BY DEF IndInv, TypeOK
  <2>. QED BY <1>7, <1>10, <2>1, <2>2, HoldsFewer
\* The other requests keep their snapshots; what they promise still fits,
\* for a new member does not run.
<1>12. Running' = Running
  BY <1>1, <1>3 DEF Running
<1>13. ASSUME ~raced, NEW q \in Requests, req'[q].held
       PROVE  Holds(farm, Cardinality(Running') + req'[q].cap)
  <2>1. req'[q] = req[q]
    BY <1>13, RequestOver, Typed DEF IndInv
  <2>. QED BY <1>12, <1>13, <2>1 DEF Admitted
<1>. QED BY <1>4, <1>11, <1>13 DEF Admitted

LEMMA InitAdmitted == Init => Admitted
<1>. SUFFICES ASSUME Init PROVE Admitted
  OBVIOUS
<1>1. /\ farm \in Farms /\ \A r \in Requests : ~req[r].held
      /\ \A m \in Members : member[m].st = "none" /\ act[m].pc = "idle"
  BY DEF Init, NoMember, NoRequest
<1>2. Live = {}
  BY <1>1 DEF Live
<1>3. Holds(farm, Cardinality(Live))
  BY <1>1, <1>2, FS_EmptySet, HoldsNone
<1>. QED BY <1>1, <1>3 DEF Admitted, HasPod

LEMMA AdmittedInductive == IndInv /\ Admitted /\ [Next]_vars => Admitted'
<1>. SUFFICES ASSUME IndInv, Admitted, [Next]_vars PROVE Admitted'
  OBVIOUS
<1>1. CASE Admission
  <2>1. CASE \E r \in Requests, b \in Batches, n \in Members :
                 Admit(r, b, n) \/ AddInventory(r, b, n)
    <3>1. PICK r \in Requests, b \in Batches, n \in Members :
                 Admit(r, b, n) \/ AddInventory(r, b, n)
      BY <2>1
    <3>2. /\ req[r].held /\ RoomFor(r, n) /\ Insert(b, n) /\ Answered(r)
          /\ UNCHANGED <<farm, act, raced>>
      BY <3>1 DEF Admit, AddInventory, workers
    <3>. QED BY <3>2, InsertAdmitted
  <2>. QED BY <1>1, <2>1, ReadAdmitted, RowsKeptQuiet, QuietKeeps DEF Admission
<1>2. CASE Reserving
  BY <1>2, RowsKeptQuiet, ReservingQuiet, QuietKeeps DEF Reserving
<1>3. CASE Operating
  BY <1>3, StatusesQuiet, ReservingQuiet, QuietKeeps DEF Operating
<1>4. ASSUME NEW m \in Members, Reconcile(m) \/ DropKick(m) \/ RunOne(m)
      PROVE  Admitted'
  BY <1>4, RowsKeptQuiet, QuietKeeps
<1>5. ASSUME NEW m \in Members, WorkerStep(m) PROVE Admitted'
  BY <1>5, RowsKeptQuiet, StatusesQuiet, QuietKeeps DEF WorkerStep
<1>6. ASSUME NEW m \in Members, ActivationStep(m) PROVE Admitted'
  BY <1>6, RowsKeptQuiet, ActivationAdmitted, QuietKeeps DEF ActivationStep
<1>7. ASSUME NEW m \in Members, DeletionStep(m) PROVE Admitted'
  BY <1>7, RowsKeptQuiet, StatusesQuiet, QuietKeeps DEF DeletionStep
<1>8. CASE Crash \/ UNCHANGED vars
  BY <1>8, RowsKeptQuiet, QuietKeeps
<1>. QED BY <1>1, <1>2, <1>3, <1>4, <1>5, <1>6, <1>7, <1>8 DEF Next

\* As long as no member began to run while a request held its snapshot of
\* the cluster, every session the pool ever admitted and that is not gone
\* fits into it (NeverOverAdmitted): for every cluster, mode and loop bound,
\* however many requests hold the same snapshot, and whatever is built,
\* claimed, started, cleaned up or deleted between the reading of the cluster
\* and the transaction that inserts the members.
THEOREM AdmissionFits == Spec => []NeverOverAdmitted
<1>1. Admitted => NeverOverAdmitted
  BY DEF Admitted, NeverOverAdmitted, Holds
<1>. QED BY <1>1, InitIndInv, IndInvInductive, InitAdmitted, AdmittedInductive, PTL
         DEF Spec
=============================================================================
