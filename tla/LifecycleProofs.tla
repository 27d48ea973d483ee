-------------------------- MODULE LifecycleProofs --------------------------
(***************************************************************************)
(* Lifecycle, proved for any number of servers, request threads, attempts, *)
(* probes, requests, crashes and drifts.  The inductive invariant says     *)
(* what the worker knows while it is busy, that every row belongs to a     *)
(* server that exists, and which row answers for each in-flight status.    *)
(* A second one, SafetyInv, adds what the VM of a server may be at each    *)
(* place of the worker and what its row then holds.  The last parts are    *)
(* about the same system beside the reconciler: a handler may work on a    *)
(* status that a pass has written over, so less holds of what it knows.    *)
(***************************************************************************)
EXTENDS Reconciler, TLAPS

Statuses == RowStatuses \cup {Nobody}
Resting  == {"idle", "down"}

(* The step pc belongs to a handler of the job's type, and past the first   *)
(* commit it works on the verb's in-flight status.                          *)
StepFits(pc, type, seen) ==
    /\ pc = "enter" => type \in DOMAIN Through \ {"create"}
    /\ pc \in {"act", "power_exit"} => type \in PowerVerbs
    /\ pc = "power_off" => type \in BootVerbs \cup {"destroy"}
    /\ pc = "delete" => type \in {"rebuild", "destroy"}
    /\ pc = "reclone" => type = "rebuild"
    /\ pc = "apply" => type = "resize"
    /\ pc = "restore_disk" => type \in {"rollback", "restore_backup"}
    /\ pc = "repin" => type = "restore_backup"
    /\ pc = "release" => type = "destroy"
    /\ pc = "backup" => type = "backup"
    /\ pc = "probe" => type = "await_ready"
    /\ pc \in {"pick_vmid", "clone"} => type = "create"
    /\ pc = "configure" => type \in {"create", "rebuild"}
    /\ pc \in {"start_vm", "publish"} => type \in BootVerbs \cup {"create"}
    /\ pc \in { "act", "power_exit", "power_off", "delete", "reclone", "apply",
                "restore_disk", "repin", "release" } => seen = Through[type]

(* A busy worker has a row, marked running, and its server's status is the *)
(* one it loaded: nobody else writes a status.                             *)
BusyInv ==
    IF worker.pc \in Resting
    THEN worker.job = 0
    ELSE /\ worker.job \in JobIds
         /\ Me.status = "running"
         /\ worker.seen = status[Srv]
         /\ StepFits(worker.pc, Me.type, worker.seen)

RowsExist ==
    /\ \A k \in JobIds : status[jobs[k].inst] # "absent"
    /\ \A t \in Threads : api[t].pc # "idle" => status[api[t].inst] # "absent"

(* OwnStatus[t]: the in-flight status a row of type t answers for. *)
OwnStatus == [ t \in DOMAIN Through \cup {"await_ready"} |->
                 IF t = "await_ready" THEN "booting" ELSE Through[t] ]

Finished(k) == worker.job = k /\ worker.pc = "succeed"

AnswersFor(k, i) ==
    /\ jobs[k].inst = i /\ Active(k) /\ ~Finished(k)
    /\ jobs[k].type \in DOMAIN OwnStatus
    /\ OwnStatus[jobs[k].type] = status[i]

LimboInv ==
    \A i \in Instances : status[i] \in InFlight => \E k \in JobIds : AnswersFor(k, i)

Inv == TypeOK /\ BusyInv /\ NoStrandedRow /\ RowsExist /\ LimboInv

-----------------------------------------------------------------------------
(* Rows of the table: replacing one and adding one keep the table typed.   *)
LEMMA SetRow ==
    ASSUME NEW q \in Seq(Job), NEW k \in 1 .. Len(q), NEW row \in Job
    PROVE  /\ [q EXCEPT ![k] = row] \in Seq(Job)
           /\ Len([q EXCEPT ![k] = row]) = Len(q)
           /\ [q EXCEPT ![k] = row][k] = row
           /\ \A j \in 1 .. Len(q) : j # k => [q EXCEPT ![k] = row][j] = q[j]
OBVIOUS

LEMMA AddRow ==
    ASSUME NEW q \in Seq(Job), NEW row \in Job
    PROVE  /\ Append(q, row) \in Seq(Job)
           /\ Len(Append(q, row)) = Len(q) + 1
           /\ Append(q, row)[Len(q) + 1] = row
           /\ \A k \in 1 .. Len(q) : Append(q, row)[k] = q[k]
OBVIOUS

LEMMA RowAt ==
    ASSUME TypeOK, NEW k \in JobIds
    PROVE  /\ jobs[k] \in Job /\ k \in Nat \ {0} /\ k \in 1 .. Len(jobs)
           /\ jobs[k].inst \in Instances /\ jobs[k].type \in JobTypes
           /\ status[jobs[k].inst] \in RowStatuses
<1>1. jobs[k] \in Job /\ k \in Nat \ {0} /\ k \in 1 .. Len(jobs)
  BY DEF TypeOK, JobIds
<1>2. jobs[k].inst \in Instances /\ jobs[k].type \in JobTypes
  BY <1>1 DEF Job
<1>. QED BY <1>1, <1>2 DEF TypeOK

LEMMA RowStatus ==
    ASSUME NEW row \in Job, NEW s \in JobStatuses
    PROVE  /\ [row EXCEPT !.status = s] \in Job
           /\ [row EXCEPT !.status = s].status = s
           /\ [row EXCEPT !.status = s].type = row.type
           /\ [row EXCEPT !.status = s].inst = row.inst
BY DEF Job

FailedRow(row, s, d) == [row EXCEPT !.attempts = @ + 1, !.status = s, !.due = d]

LEMMA RowFailed ==
    ASSUME NEW row \in Job, NEW s \in JobStatuses, NEW d \in BOOLEAN
    PROVE  /\ FailedRow(row, s, d) \in Job
           /\ FailedRow(row, s, d).status = s
           /\ FailedRow(row, s, d).type = row.type
           /\ FailedRow(row, s, d).inst = row.inst
<1> DEFINE one == [row EXCEPT !.attempts = @ + 1]
           two == [one EXCEPT !.status = s]
           new == [two EXCEPT !.due = d]
<1>1. one \in Job /\ one.type = row.type /\ one.inst = row.inst
  BY DEF Job
<1>. HIDE DEF one
<1>2. two \in Job /\ two.type = row.type /\ two.inst = row.inst /\ two.status = s
  BY <1>1, RowStatus
<1>. HIDE DEF two
<1>3. new \in Job /\ new.type = row.type /\ new.inst = row.inst /\ new.status = s
  BY <1>2 DEF Job
<1>. QED BY <1>3 DEF one, two, FailedRow

LEMMA NewJobTyped ==
    ASSUME NEW type \in JobTypes, NEW i \in Instances, NEW due \in BOOLEAN, NEW poll \in Nat
    PROVE  /\ NewJob(type, i, due, poll) \in Job
           /\ NewJob(type, i, due, poll).type = type
           /\ NewJob(type, i, due, poll).inst = i
           /\ NewJob(type, i, due, poll).status = "queued"
BY DEF NewJob, Job, JobStatuses

(* What an operation of the queue does to the table. *)
Kept(k) == jobs'[k].type = jobs[k].type /\ jobs'[k].inst = jobs[k].inst

Updated(k, s) ==
    /\ jobs' \in Seq(Job) /\ Len(jobs') = Len(jobs)
    /\ \A j \in JobIds : Kept(j) /\ (j # k => jobs'[j] = jobs[j])
    /\ jobs'[k].status = s

Added(type, i) ==
    /\ jobs' \in Seq(Job) /\ Len(jobs') = Len(jobs) + 1
    /\ \A j \in JobIds : Kept(j) /\ jobs'[j].status = jobs[j].status
    /\ LET new == jobs'[Len(jobs) + 1]
       IN  new.type = type /\ new.inst = i /\ new.status = "queued"

LEMMA SetStatusUpdates ==
    ASSUME TypeOK, NEW k \in JobIds, NEW s \in JobStatuses, SetStatus(k, s)
    PROVE  Updated(k, s)
<1>1. jobs' = [jobs EXCEPT ![k] = [jobs[k] EXCEPT !.status = s]]
  BY DEF SetStatus
<1>. QED BY <1>1, RowAt, RowStatus, SetRow DEF TypeOK, Updated, Kept, JobIds

LEMMA FailRowUpdates ==
    ASSUME TypeOK, NEW k \in JobIds, FailRow(k)
    PROVE  Updated(k, IF Exhausted(k) THEN "dead" ELSE "failed")
<1> DEFINE s   == IF Exhausted(k) THEN "dead" ELSE "failed"
           d   == IF Exhausted(k) THEN jobs[k].due ELSE FALSE
           row == FailedRow(jobs[k], s, d)
<1>1. jobs' = [jobs EXCEPT ![k] = row]
  BY DEF FailRow, FailedRow
<1>2. s \in JobStatuses
  BY DEF JobStatuses
<1>3. jobs[k] \in Job
  BY RowAt
<1>4. d \in BOOLEAN
  BY <1>3 DEF Job
<1>. HIDE DEF s, d
<1>5. row \in Job /\ row.type = jobs[k].type /\ row.inst = jobs[k].inst /\ row.status = s
  BY <1>2, <1>3, <1>4, RowFailed
<1>. HIDE DEF row
<1>6. Updated(k, s)
  BY <1>1, <1>5, SetRow DEF TypeOK, Updated, Kept, JobIds
<1>. QED BY <1>6 DEF s

LEMMA RecordUpdates ==
    ASSUME TypeOK, NEW k \in JobIds
    PROVE  /\ Record(k) \in Seq(Job) /\ Len(Record(k)) = Len(jobs)
           /\ \A j \in JobIds : /\ Record(k)[j].type = jobs[j].type
                                /\ Record(k)[j].inst = jobs[j].inst
                                /\ Record(k)[j].status = jobs[j].status
<1> DEFINE row == [jobs[k] EXCEPT !.applied = @ + 1]
<1>1. Record(k) = [jobs EXCEPT ![k] = row]
  BY DEF Record
<1>2. /\ row \in Job /\ row.type = jobs[k].type /\ row.inst = jobs[k].inst
      /\ row.status = jobs[k].status
  BY RowAt DEF Job
<1>. QED BY <1>1, <1>2, RowAt, SetRow DEF TypeOK, JobIds

LEMMA BecomeDueUpdates ==
    ASSUME TypeOK, NEW k \in JobIds, BecomeDue(k)
    PROVE  Updated(k, jobs[k].status)
<1> DEFINE row == [jobs[k] EXCEPT !.due = TRUE]
<1>1. jobs' = [jobs EXCEPT ![k] = row]
  BY DEF BecomeDue
<1>2. /\ row \in Job /\ row.type = jobs[k].type /\ row.inst = jobs[k].inst
      /\ row.status = jobs[k].status
  BY RowAt DEF Job
<1>. QED BY <1>1, <1>2, RowAt, SetRow DEF TypeOK, Updated, Kept, JobIds

LEMMA AppendAdds ==
    ASSUME TypeOK, NEW type \in JobTypes, NEW i \in Instances, NEW due \in BOOLEAN,
           NEW poll \in Nat, jobs' = Append(jobs, NewJob(type, i, due, poll))
    PROVE  Added(type, i)
BY NewJobTyped, AddRow DEF TypeOK, Added, Kept, JobIds

LEMMA PublishAdds ==
    ASSUME TypeOK, worker.job \in JobIds,
           jobs' = Append(Record(worker.job), NewJob("await_ready", Srv, FALSE, 0))
    PROVE  Added("await_ready", Srv)
<1>1. "await_ready" \in JobTypes /\ Srv \in Instances
  BY RowAt DEF JobTypes, Srv, Me
<1>2. NewJob("await_ready", Srv, FALSE, 0) \in Job
  BY <1>1, NewJobTyped
<1> DEFINE new == NewJob("await_ready", Srv, FALSE, 0)
<1>3. new.type = "await_ready" /\ new.inst = Srv /\ new.status = "queued"
  BY DEF NewJob
<1>. HIDE DEF new
<1> DEFINE q == Record(worker.job)
<1>4. q \in Seq(Job) /\ Len(q) = Len(jobs) /\ jobs' = Append(q, new) /\ new \in Job
  BY <1>2, RecordUpdates DEF new
<1>. HIDE DEF q
<1>5. /\ Append(q, new) \in Seq(Job) /\ Len(Append(q, new)) = Len(q) + 1
      /\ Append(q, new)[Len(q) + 1] = new
      /\ \A j \in 1 .. Len(q) : Append(q, new)[j] = q[j]
  BY <1>4, AddRow, Zenon
<1>6. /\ jobs' \in Seq(Job) /\ Len(jobs') = Len(jobs) + 1 /\ jobs'[Len(jobs) + 1] = new
      /\ \A j \in JobIds : jobs'[j] = q[j]
  BY <1>4, <1>5, Zenon DEF JobIds
<1>7. /\ jobs'[Len(jobs) + 1].type = "await_ready" /\ jobs'[Len(jobs) + 1].inst = Srv
      /\ jobs'[Len(jobs) + 1].status = "queued"
  BY <1>3, <1>6
<1>8. \A j \in JobIds : Kept(j) /\ jobs'[j].status = jobs[j].status
  <2>1. \A j \in JobIds : /\ q[j].type = jobs[j].type /\ q[j].inst = jobs[j].inst
                           /\ q[j].status = jobs[j].status
    BY RecordUpdates DEF q
  <2>. QED BY <1>6, <2>1, Zenon DEF Kept
<1>. QED BY <1>6, <1>7, <1>8 DEF Added

LEMMA RequeueKeeps ==
    ASSUME TypeOK, RequeueStale
    PROVE  /\ jobs' \in Seq(Job) /\ Len(jobs') = Len(jobs)
           /\ \A k \in JobIds : Kept(k) /\ jobs'[k].status # "running"
                                 /\ (Active(k) => Active(k)')
<1>1. \A k \in JobIds : Requeued(jobs[k]) \in Job
  BY RowAt, RowStatus DEF Requeued, JobStatuses
<1>2. jobs' \in Seq(Job) /\ Len(jobs') = Len(jobs)
  BY <1>1 DEF RequeueStale, TypeOK, JobIds
<1>3. ASSUME NEW k \in JobIds
      PROVE  Kept(k) /\ jobs'[k].status # "running" /\ (Active(k) => Active(k)')
  <2>1. jobs'[k] = Requeued(jobs[k])
    BY DEF RequeueStale
  <2>. QED BY <2>1, RowAt, RowStatus DEF Requeued, Kept, Active, ACTIVE_JOB_STATUSES, JobStatuses
<1>. QED BY <1>2, <1>3

-----------------------------------------------------------------------------
(* What a busy worker knows of its row and of its server.                  *)
LEMMA BusyRow ==
    ASSUME Inv, worker.pc \notin Resting
    PROVE  /\ worker.job \in JobIds /\ worker.job # 0
           /\ Me \in Job /\ Me.status = "running" /\ Me.type \in JobTypes
           /\ Srv \in Instances /\ status[Srv] \in ALL_STATES
           /\ worker.seen = status[Srv]
           /\ StepFits(worker.pc, Me.type, worker.seen)
<1>1. /\ worker.job \in JobIds /\ Me.status = "running" /\ worker.seen = status[Srv]
      /\ StepFits(worker.pc, Me.type, worker.seen)
  BY DEF Inv, BusyInv
<1>2. /\ Me \in Job /\ Me.type \in JobTypes /\ Srv \in Instances
      /\ status[Srv] \in RowStatuses /\ worker.job # 0
  BY <1>1, RowAt DEF Inv, Me, Srv
<1>3. status[Srv] # "absent"
  BY <1>1 DEF Inv, RowsExist, Srv, Me
<1>. QED BY <1>1, <1>2, <1>3 DEF RowStatuses

LEMMA GoToWorker ==
    ASSUME TypeOK, NEW pc \in WorkerPcs, NEW seen \in Statuses, GoTo(pc, seen)
    PROVE  /\ worker' \in Worker
           /\ worker'.pc = pc /\ worker'.seen = seen /\ worker'.job = worker.job
BY DEF TypeOK, Worker, GoTo, Statuses

(* The rows that were there keep what they are for; new ones are appended. *)
Grown ==
    /\ jobs' \in Seq(Job) /\ Len(jobs') >= Len(jobs)
    /\ \A j \in JobIds : Kept(j) /\ jobs'[j].status = jobs[j].status
    /\ \A j \in JobIds' : j \notin JobIds =>
          jobs'[j].status # "running" /\ status'[jobs'[j].inst] # "absent"

ApiRowsExist == \A t \in Threads : api[t].pc # "idle" => status[api[t].inst] # "absent"

StateInv == BusyInv /\ NoStrandedRow /\ RowsExist /\ LimboInv

LEMMA GrownIds ==
    ASSUME TypeOK, Grown
    PROVE  \A j \in JobIds : j \in JobIds'
BY DEF TypeOK, Grown, JobIds

(* Steps that leave the worker, the statuses and the known rows alone.     *)
LEMMA Unmoved ==
    ASSUME Inv, Grown, ApiRowsExist', UNCHANGED << status, worker >>
    PROVE  StateInv'
<1>1. \A j \in JobIds : j \in JobIds' /\ Kept(j) /\ jobs'[j].status = jobs[j].status
  BY GrownIds DEF Inv, Grown
<1>2. BusyInv'
  <2>1. CASE worker.pc \in Resting
    BY <2>1 DEF Inv, BusyInv
  <2>2. CASE worker.pc \notin Resting
    <3>1. /\ Me'.type = Me.type /\ Srv' = Srv /\ Me'.status = Me.status
          /\ worker'.job \in JobIds'
      BY <1>1, <2>2, BusyRow DEF Me, Srv, Kept
    <3>. QED BY <2>2, <3>1, BusyRow DEF BusyInv
  <2>. QED BY <2>1, <2>2
<1>3. NoStrandedRow'
  BY <1>1 DEF Inv, NoStrandedRow, Grown, At
<1>4. RowsExist'
  BY <1>1 DEF Inv, RowsExist, Grown, Kept, ApiRowsExist
<1>5. \A k \in JobIds, i \in Instances : AnswersFor(k, i) => AnswersFor(k, i)'
  BY <1>1 DEF AnswersFor, Kept, Active, Finished
<1>6. LimboInv'
  BY <1>1, <1>5 DEF Inv, LimboInv
<1>. QED BY <1>2, <1>3, <1>4, <1>6 DEF StateInv

(* Steps of a handler that leave the database alone.                       *)
LEMMA Moved ==
    ASSUME Inv, worker.pc \notin Resting, UNCHANGED << jobs, status, api >>,
           NEW pc \in HandlerPcs, NEW seen, seen = status[Srv], GoTo(pc, seen),
           StepFits(pc, Me.type, seen)
    PROVE  worker' \in Worker /\ StateInv'
<1>1. /\ worker' \in Worker /\ worker'.pc = pc /\ worker'.seen = seen
      /\ worker'.job = worker.job
  BY BusyRow, GoToWorker DEF Inv, WorkerPcs, Statuses, RowStatuses
<1>2. Me' = Me /\ Srv' = Srv /\ JobIds' = JobIds
  BY <1>1 DEF Me, Srv, JobIds
<1>3. pc \notin Resting /\ pc \notin {"down", "succeed"}
  BY DEF HandlerPcs, Resting
<1>4. BusyInv'
  BY <1>1, <1>2, <1>3, BusyRow DEF BusyInv
<1>5. NoStrandedRow'
  BY <1>1, <1>2 DEF Inv, NoStrandedRow, At, Resting
<1>6. RowsExist'
  BY <1>2 DEF Inv, RowsExist
<1>7. \A k \in JobIds, i \in Instances : AnswersFor(k, i) => AnswersFor(k, i)'
  BY <1>1, <1>3 DEF AnswersFor, Active, Finished
<1>8. LimboInv'
  BY <1>2, <1>7 DEF Inv, LimboInv
<1>. QED BY <1>1, <1>4, <1>5, <1>6, <1>8 DEF StateInv

(* The commit that ends a handler: it leaves its server in status seen, in *)
(* flight only if another row answers for it.                              *)
LEMMA Ended ==
    ASSUME Inv, worker.pc \notin Resting, UNCHANGED api, Grown,
           NEW seen \in ALL_STATES, GoTo("succeed", seen),
           status' = [status EXCEPT ![Srv] = seen],
           seen \in InFlight => \E k \in JobIds' :
              /\ k # worker.job /\ jobs'[k].inst = Srv /\ Active(k)'
              /\ jobs'[k].type \in DOMAIN OwnStatus /\ OwnStatus[jobs'[k].type] = seen
    PROVE  worker' \in Worker /\ StateInv'
<1>1. /\ worker' \in Worker /\ worker'.pc = "succeed" /\ worker'.seen = seen
      /\ worker'.job = worker.job
  BY GoToWorker DEF Inv, WorkerPcs, Statuses, RowStatuses
<1>2. \A j \in JobIds : j \in JobIds' /\ Kept(j) /\ jobs'[j].status = jobs[j].status
  BY GrownIds DEF Inv, Grown
<1>3. /\ Me'.type = Me.type /\ Srv' = Srv /\ Me'.status = "running"
      /\ worker'.job \in JobIds'
  BY <1>1, <1>2, BusyRow DEF Me, Srv, Kept
<1>4. /\ status'[Srv] = seen /\ seen # "absent"
      /\ \A i \in Instances : i # Srv => status'[i] = status[i]
  BY BusyRow DEF Inv, TypeOK, ALL_STATES
<1>5. BusyInv'
  BY <1>1, <1>3, <1>4 DEF BusyInv, StepFits, Resting
<1>6. NoStrandedRow'
  BY <1>1, <1>2 DEF Inv, NoStrandedRow, Grown, At, Resting
<1>7. RowsExist'
  <2>1. \A j \in JobIds' : status'[jobs'[j].inst] # "absent"
    BY <1>2, <1>4, RowAt DEF Inv, RowsExist, Grown, Kept
  <2>2. \A t \in Threads : api'[t].pc # "idle" => status'[api'[t].inst] # "absent"
    <3>. SUFFICES ASSUME NEW t \in Threads, api[t].pc # "idle"
                  PROVE  status'[api[t].inst] # "absent"
      OBVIOUS
    <3>1. api[t].inst \in Instances /\ status[api[t].inst] # "absent"
      BY DEF Inv, TypeOK, RowsExist, Request, IdleRequest
    <3>. QED BY <3>1, <1>4
  <2>. QED BY <2>1, <2>2 DEF RowsExist
<1>8. LimboInv'
  <2>. SUFFICES ASSUME NEW i \in Instances, status'[i] \in InFlight
                PROVE  \E k \in JobIds' : AnswersFor(k, i)'
    BY DEF LimboInv
  <2>1. CASE i = Srv
    BY <2>1, <1>1, <1>4 DEF AnswersFor, Finished
  <2>2. CASE i # Srv
    <3>1. PICK k \in JobIds : AnswersFor(k, i)
      BY <2>2, <1>4 DEF Inv, LimboInv
    <3>2. k # worker.job
      BY <2>2, <3>1 DEF AnswersFor, Srv, Me
    <3>. QED BY <2>2, <3>1, <3>2, <1>1, <1>2, <1>4 DEF AnswersFor, Finished, Kept, Active
  <2>. QED BY <2>1, <2>2
<1>. QED BY <1>1, <1>5, <1>6, <1>7, <1>8 DEF StateInv

-----------------------------------------------------------------------------
(* Which operations of the queue make the table grow in that sense.        *)
LEMMA UnchangedGrows ==
    ASSUME TypeOK, UNCHANGED jobs
    PROVE  Grown
BY DEF TypeOK, Grown, Kept, JobIds

LEMMA AddedGrows ==
    ASSUME TypeOK, NEW type, NEW i, Added(type, i), status'[i] # "absent"
    PROVE  /\ Grown
           /\ Len(jobs) + 1 \in JobIds' /\ Len(jobs) + 1 \notin JobIds
           /\ \A k \in JobIds' : k \notin JobIds => k = Len(jobs) + 1
<1>1. Len(jobs) \in Nat
  BY DEF TypeOK
<1>2. /\ Len(jobs) + 1 \in JobIds' /\ Len(jobs) + 1 \notin JobIds
      /\ \A k \in JobIds' : k \notin JobIds => k = Len(jobs) + 1
      /\ Len(jobs') >= Len(jobs)
  BY <1>1 DEF Added, JobIds
<1>. QED BY <1>2 DEF Added, Grown

LEMMA UpdatedGrows ==
    ASSUME TypeOK, NEW k \in JobIds, Updated(k, jobs[k].status)
    PROVE  Grown
<1>1. Len(jobs) \in Nat /\ Len(jobs') >= Len(jobs) /\ JobIds' = JobIds
  BY DEF TypeOK, Updated, JobIds
<1>. QED BY <1>1 DEF Updated, Grown

LEMMA RecordGrows ==
    ASSUME TypeOK, worker.job \in JobIds, jobs' = Record(worker.job)
    PROVE  Grown
<1>1. Len(jobs) \in Nat /\ Len(jobs') >= Len(jobs) /\ JobIds' = JobIds
  BY RecordUpdates DEF TypeOK, JobIds
<1>. QED BY <1>1, RecordUpdates DEF Grown, Kept

-----------------------------------------------------------------------------
(* Requests.                                                               *)
LEMMA ProvisionInv ==
    ASSUME Inv, NEW i \in Instances, Provision(i)
    PROVE  Inv'
<1>1. /\ status[i] = "absent" /\ status' = [status EXCEPT ![i] = "provisioning"]
      /\ UNCHANGED << held, worker, api, vm, tasks, drifts, crashes >>
  BY DEF Provision, external
<1>2. /\ status' \in [Instances -> RowStatuses] /\ status'[i] = "provisioning"
      /\ \A j \in Instances : j # i => status'[j] = status[j]
  BY <1>1 DEF Inv, TypeOK, RowStatuses, ALL_STATES
<1>3. Added("create", i)
  BY AppendAdds DEF Inv, Provision, Insert, JobTypes
<1>4. /\ Grown /\ Len(jobs) + 1 \in JobIds' /\ Len(jobs) + 1 \notin JobIds
      /\ \A k \in JobIds' : k \notin JobIds => k = Len(jobs) + 1
  BY <1>2, <1>3, AddedGrows DEF Inv
<1>5. TypeOK'
  BY <1>1, <1>2, <1>4 DEF Inv, TypeOK, Grown
<1>6. \A j \in JobIds : /\ j \in JobIds' /\ Kept(j) /\ jobs'[j].status = jobs[j].status
                        /\ jobs[j].inst \in Instances /\ jobs[j].inst # i
  BY <1>1, <1>4, GrownIds, RowAt DEF Inv, Grown, RowsExist
<1>7. BusyInv'
  <2>1. CASE worker.pc \in Resting
    BY <1>1, <2>1 DEF Inv, BusyInv
  <2>2. CASE worker.pc \notin Resting
    <3>1. /\ Me'.type = Me.type /\ Srv' = Srv /\ Me'.status = Me.status
          /\ worker'.job \in JobIds' /\ Srv # i
      BY <1>1, <1>6, <2>2, BusyRow DEF Me, Srv, Kept
    <3>. QED BY <1>1, <1>2, <2>2, <3>1, BusyRow DEF BusyInv
  <2>. QED BY <2>1, <2>2
<1>8. NoStrandedRow'
  BY <1>1, <1>4, <1>6 DEF Inv, NoStrandedRow, Grown, At
<1>9. RowsExist'
  <2>1. \A j \in JobIds' : status'[jobs'[j].inst] # "absent"
    BY <1>2, <1>4, <1>6 DEF Inv, RowsExist, Grown, Kept
  <2>2. ASSUME NEW t \in Threads, api[t].pc # "idle"
        PROVE  status'[api[t].inst] # "absent"
    <3>1. api[t].inst \in Instances /\ status[api[t].inst] # "absent"
      BY <2>2 DEF Inv, TypeOK, RowsExist, Request, IdleRequest
    <3>. QED BY <3>1, <1>1, <1>2
  <2>. QED BY <1>1, <2>1, <2>2 DEF RowsExist
<1>10. LimboInv'
  <2>. SUFFICES ASSUME NEW j \in Instances, status'[j] \in InFlight
                PROVE  \E k \in JobIds' : AnswersFor(k, j)'
    BY DEF LimboInv
  <2>1. CASE j = i
    <3>1. ~(worker'.job = Len(jobs) + 1 /\ worker'.pc = "succeed")
      <4>1. worker.pc \notin Resting => worker.job \in JobIds
        BY BusyRow
      <4>. QED BY <1>1, <1>4, <4>1 DEF Resting
    <3>2. "create" \in DOMAIN OwnStatus /\ OwnStatus["create"] = "provisioning"
      BY DEF OwnStatus, Through
    <3>3. PICK k \in JobIds' : k = Len(jobs) + 1
      BY <1>4
    <3>. QED BY <1>2, <1>3, <2>1, <3>1, <3>2, <3>3
              DEF Added, AnswersFor, Active, ACTIVE_JOB_STATUSES, Finished
  <2>2. CASE j # i
    <3>1. PICK k \in JobIds : AnswersFor(k, j)
      BY <1>2, <2>2 DEF Inv, LimboInv
    <3>. QED BY <1>1, <1>2, <1>6, <2>2, <3>1 DEF AnswersFor, Finished, Kept, Active
  <2>. QED BY <2>1, <2>2
<1>. QED BY <1>5, <1>7, <1>8, <1>9, <1>10 DEF Inv

LEMMA RequestInv ==
    ASSUME Inv, NEW t \in Threads
    PROVE  /\ \A i \in Instances, v \in UserVerbs : ApiRead(t, i, v) => Inv'
           /\ ApiCheck(t) => Inv'
           /\ ApiInsert(t) => Inv'
<1>1. ASSUME NEW i \in Instances, NEW v \in UserVerbs, ApiRead(t, i, v)
      PROVE  Inv'
  <2> DEFINE req == [ pc |-> "read", inst |-> i, verb |-> v ]
  <2>1. req \in Request /\ req.inst = i
    BY LifecycleAssumption DEF Request
  <2>. HIDE DEF req
  <2>2. /\ status[i] # "absent" /\ api' = [api EXCEPT ![t] = req]
        /\ UNCHANGED << jobs, status, held, worker, vm, tasks, drifts, crashes >>
    BY <1>1 DEF ApiRead, external, req
  <2>3. TypeOK'
    BY <2>1, <2>2 DEF Inv, TypeOK
  <2>4. ApiRowsExist'
    BY <2>1, <2>2 DEF Inv, TypeOK, RowsExist, ApiRowsExist
  <2>. QED BY <2>2, <2>3, <2>4, UnchangedGrows, Unmoved DEF Inv, StateInv
<1>2. ASSUME ApiCheck(t)
      PROVE  Inv'
  <2> DEFINE req == IF HasActiveJob(api[t].inst) THEN IdleRequest
                    ELSE [api[t] EXCEPT !.pc = "checked"]
  <2>1. api[t] \in Request /\ status[api[t].inst] # "absent"
    BY <1>2 DEF ApiCheck, Inv, TypeOK, IdleRequest, RowsExist
  <2>2. req \in {IdleRequest} \cup Request /\ (req.pc # "idle" => req.inst = api[t].inst)
    BY <2>1 DEF Request, IdleRequest
  <2>3. /\ api' = [api EXCEPT ![t] = req]
        /\ UNCHANGED << jobs, status, held, worker, vm, tasks, drifts, crashes >>
    BY <1>2 DEF ApiCheck, external
  <2>. HIDE DEF req
  <2>4. TypeOK'
    BY <2>2, <2>3 DEF Inv, TypeOK
  <2>5. ApiRowsExist'
    BY <2>1, <2>2, <2>3 DEF Inv, TypeOK, RowsExist, ApiRowsExist
  <2>. QED BY <2>3, <2>4, <2>5, UnchangedGrows, Unmoved DEF Inv, StateInv
<1>3. ASSUME ApiInsert(t)
      PROVE  Inv'
  <2>1. /\ api[t].pc = "checked" /\ api' = [api EXCEPT ![t] = IdleRequest]
        /\ jobs' = Append(jobs, NewJob(api[t].verb, api[t].inst, TRUE, 0))
        /\ UNCHANGED << status, held, worker, vm, tasks, drifts, crashes >>
    BY <1>3 DEF ApiInsert, Insert, external
  <2>2. /\ api[t].verb \in JobTypes /\ api[t].inst \in Instances
        /\ status[api[t].inst] # "absent"
    BY <2>1 DEF Inv, TypeOK, Request, IdleRequest, RowsExist, JobTypes
  <2>3. Added(api[t].verb, api[t].inst)
    BY <2>1, <2>2, AppendAdds DEF Inv
  <2>4. Grown
    BY <2>1, <2>2, <2>3, AddedGrows DEF Inv
  <2>5. TypeOK'
    BY <2>1, <2>4 DEF Inv, TypeOK, Grown
  <2>6. ApiRowsExist'
    BY <2>1 DEF Inv, TypeOK, RowsExist, ApiRowsExist, IdleRequest
  <2>. QED BY <2>1, <2>4, <2>5, <2>6, Unmoved DEF Inv, StateInv
<1>. QED BY <1>1, <1>2, <1>3

-----------------------------------------------------------------------------
(* Proxmox, the guests and time.                                           *)
LEMMA EnvironmentInv ==
    ASSUME Inv, Environment
    PROVE  Inv'
<1>1. ASSUME NEW i \in Instances, NEW t \in PxTasks, TaskRuns(i, t)
      PROVE  Inv'
  <2>1. UNCHANGED << jobs, status, held, worker, api, drifts, crashes >>
    BY <1>1 DEF TaskRuns
  <2>2. vm[i] \in VmStates /\ tasks[i] \subseteq PxTasks
    BY DEF Inv, TypeOK
  <2>3. PoweredOn(vm[i]) \in VmStates /\ PoweredOff(vm[i]) \in VmStates
    BY <2>2 DEF PoweredOn, PoweredOff, VmStates
  <2>4. vm' \in [Instances -> VmStates]
    BY <1>1, <2>3 DEF TaskRuns, Inv, TypeOK
  <2>5. tasks' \in [Instances -> SUBSET PxTasks]
    BY <1>1, <2>2 DEF TaskRuns, Inv, TypeOK, PxTasks
  <2>6. TypeOK'
    BY <2>1, <2>4, <2>5 DEF Inv, TypeOK
  <2>7. ApiRowsExist'
    BY <2>1 DEF Inv, RowsExist, ApiRowsExist
  <2>. QED BY <2>1, <2>6, <2>7, UnchangedGrows, Unmoved DEF Inv, StateInv
<1>2. ASSUME NEW i \in Instances, PowerDrift(i)
      PROVE  Inv'
  <2>1. UNCHANGED << jobs, status, held, worker, api, tasks, crashes >>
    BY <1>2 DEF PowerDrift
  <2>2. vm' \in [Instances -> VmStates] /\ drifts' \in Nat
    BY <1>2 DEF PowerDrift, Inv, TypeOK, VmStates
  <2>3. TypeOK'
    BY <2>1, <2>2 DEF Inv, TypeOK
  <2>4. ApiRowsExist'
    BY <2>1 DEF Inv, RowsExist, ApiRowsExist
  <2>. QED BY <2>1, <2>3, <2>4, UnchangedGrows, Unmoved DEF Inv, StateInv
<1>3. ASSUME NEW k \in JobIds, RunAfterPasses(k)
      PROVE  Inv'
  <2>1. UNCHANGED << status, held, worker, api, vm, tasks, drifts, crashes >>
    BY <1>3 DEF RunAfterPasses, external
  <2>2. Updated(k, jobs[k].status)
    BY <1>3, BecomeDueUpdates DEF RunAfterPasses, Inv
  <2>3. Grown
    BY <2>2, UpdatedGrows DEF Inv
  <2>4. TypeOK'
    BY <2>1, <2>3 DEF Inv, TypeOK, Grown
  <2>5. ApiRowsExist'
    BY <2>1 DEF Inv, RowsExist, ApiRowsExist
  <2>. QED BY <2>1, <2>3, <2>4, <2>5, Unmoved DEF Inv, StateInv
<1>. QED BY <1>1, <1>2, <1>3 DEF Environment

-----------------------------------------------------------------------------
(* The worker process.                                                     *)
LEMMA CrashInv ==
    ASSUME Inv, Crash
    PROVE  Inv'
<1>1. /\ worker' = DownWorker /\ crashes' = crashes + 1
      /\ UNCHANGED << jobs, status, held, api, vm, tasks, drifts >>
  BY DEF Crash, external
<1>2. TypeOK'
  BY <1>1 DEF Inv, TypeOK, DownWorker, Worker, WorkerPcs
<1>3. BusyInv' /\ NoStrandedRow'
  BY <1>1 DEF DownWorker, BusyInv, Resting, NoStrandedRow, At
<1>4. RowsExist'
  BY <1>1 DEF Inv, RowsExist, JobIds
<1>5. LimboInv'
  <2>1. \A k \in JobIds, i \in Instances : AnswersFor(k, i) => AnswersFor(k, i)'
    BY <1>1 DEF AnswersFor, Active, Finished, DownWorker
  <2>. QED BY <1>1, <2>1 DEF Inv, LimboInv, JobIds
<1>. QED BY <1>2, <1>3, <1>4, <1>5 DEF Inv

LEMMA WorkerBootInv ==
    ASSUME Inv, WorkerBoot
    PROVE  Inv'
<1>1. /\ worker.pc = "down" /\ worker' = IdleWorker
      /\ UNCHANGED << status, held, api, vm, tasks, drifts, crashes >>
  BY DEF WorkerBoot, external, At
<1>2. /\ jobs' \in Seq(Job) /\ JobIds' = JobIds
      /\ \A k \in JobIds : Kept(k) /\ jobs'[k].status # "running"
                            /\ (Active(k) => Active(k)')
  BY RequeueKeeps DEF WorkerBoot, Inv, JobIds
<1>3. TypeOK'
  BY <1>1, <1>2 DEF Inv, TypeOK, IdleWorker, Worker, WorkerPcs
<1>4. BusyInv' /\ NoStrandedRow'
  BY <1>1, <1>2 DEF IdleWorker, BusyInv, Resting, NoStrandedRow
<1>5. RowsExist'
  BY <1>1, <1>2 DEF Inv, RowsExist, Kept
<1>6. LimboInv'
  <2>1. \A k \in JobIds, i \in Instances : AnswersFor(k, i) => AnswersFor(k, i)'
    BY <1>1, <1>2 DEF AnswersFor, Kept, Finished, IdleWorker
  <2>. QED BY <1>1, <1>2, <2>1 DEF Inv, LimboInv
<1>. QED BY <1>3, <1>4, <1>5, <1>6 DEF Inv

LEMMA ClaimInv ==
    ASSUME Inv, NEW k \in JobIds, Claim(k)
    PROVE  Inv'
<1> DEFINE pc == FirstStep(jobs[k].type)
           seen == status[jobs[k].inst]
<1>1. /\ worker.pc = "idle" /\ worker' = [ pc |-> pc, job |-> k, seen |-> seen ]
      /\ Claimable(k) /\ UNCHANGED << status, held, api, vm, tasks, drifts, crashes >>
  BY DEF Claim, external, At, OldestClaimable
<1>2. Updated(k, "running")
  BY SetStatusUpdates DEF Claim, Inv, JobStatuses
<1>3. /\ jobs' \in Seq(Job) /\ JobIds' = JobIds /\ jobs'[k].status = "running"
      /\ \A j \in JobIds : Kept(j) /\ (j # k => jobs'[j] = jobs[j])
  BY <1>2 DEF Updated, JobIds
<1>4. /\ jobs[k].type \in JobTypes /\ seen \in RowStatuses /\ k \in Nat
  BY RowAt DEF Inv
<1>5. pc \in HandlerPcs /\ StepFits(pc, jobs[k].type, seen)
  BY <1>4 DEF FirstStep, HandlerPcs, JobTypes, Verbs, PowerVerbs, BootVerbs, StepFits, Through
<1>. HIDE DEF pc, seen
<1>6. worker' \in Worker /\ worker'.pc \notin {"idle", "down", "succeed"}
  BY <1>1, <1>4, <1>5 DEF Worker, WorkerPcs, HandlerPcs
<1>7. TypeOK'
  BY <1>1, <1>3, <1>6 DEF Inv, TypeOK
<1>8. BusyInv'
  <2>1. Me'.type = jobs[k].type /\ Srv' = jobs[k].inst /\ Me'.status = "running"
    BY <1>1, <1>3 DEF Me, Srv, Kept
  <2>2. worker'.pc = pc /\ worker'.job = k /\ worker'.seen = seen /\ seen = status'[Srv']
    BY <1>1, <2>1 DEF seen
  <2>3. pc \notin Resting
    BY <1>5 DEF HandlerPcs, Resting
  <2>. QED BY <1>3, <1>5, <2>1, <2>2, <2>3 DEF BusyInv
<1>9. NoStrandedRow'
  <2>1. \A j \in JobIds : jobs[j].status # "running"
    BY <1>1 DEF Inv, BusyInv, Resting, NoStrandedRow, At, JobIds
  <2>. QED BY <1>1, <1>3, <2>1 DEF NoStrandedRow
<1>10. RowsExist'
  BY <1>1, <1>3 DEF Inv, RowsExist, Kept
<1>11. LimboInv'
  <2>1. \A j \in JobIds : Active(j) => Active(j)'
    BY <1>3 DEF Active, ACTIVE_JOB_STATUSES
  <2>2. \A j \in JobIds, i \in Instances : AnswersFor(j, i) => AnswersFor(j, i)'
    BY <1>1, <1>3, <1>6, <2>1 DEF AnswersFor, Kept, Finished
  <2>. QED BY <1>1, <1>3, <2>2 DEF Inv, LimboInv
<1>. QED BY <1>7, <1>8, <1>9, <1>10, <1>11 DEF Inv

(* The worker gives up its row, settled or to be retried, and is idle.     *)
LEMMA GivenUp ==
    ASSUME Inv, worker.pc \notin Resting, worker' = IdleWorker,
           UNCHANGED << held, api, vm, tasks, drifts, crashes >>,
           NEW s, s # "running", Updated(worker.job, s),
           status' \in [Instances -> RowStatuses],
           \A i \in Instances : status'[i] # status[i] => i = Srv /\ status'[i] = "error",
           status'[Srv] \in InFlight => worker.pc = "succeed" \/ s \in ACTIVE_JOB_STATUSES
    PROVE  Inv'
<1>1. /\ jobs' \in Seq(Job) /\ JobIds' = JobIds /\ jobs'[worker.job].status = s
      /\ \A j \in JobIds : Kept(j) /\ (j # worker.job => jobs'[j] = jobs[j])
  BY DEF Updated, JobIds
<1>2. TypeOK'
  BY <1>1 DEF Inv, TypeOK, IdleWorker, Worker, WorkerPcs
<1>3. BusyInv'
  BY DEF BusyInv, IdleWorker, Resting
<1>4. NoStrandedRow'
  BY <1>1 DEF Inv, NoStrandedRow, At, Resting
<1>5. \A i \in Instances : status[i] # "absent" => status'[i] # "absent"
  OBVIOUS
<1>6. RowsExist'
  <2>1. \A t \in Threads : api[t].pc # "idle" => api[t].inst \in Instances
    BY DEF Inv, TypeOK, Request, IdleRequest
  <2>. QED BY <1>1, <1>5, <2>1, RowAt DEF Inv, RowsExist, Kept
<1>7. LimboInv'
  <2>. SUFFICES ASSUME NEW i \in Instances, status'[i] \in InFlight
                PROVE  \E k \in JobIds' : AnswersFor(k, i)'
    BY DEF LimboInv
  <2>1. status'[i] = status[i]
    BY DEF InFlight
  <2>2. PICK k \in JobIds : AnswersFor(k, i)
    BY <2>1 DEF Inv, LimboInv
  <2>3. Active(k)'
    <3>1. CASE k = worker.job
      BY <1>1, <2>2, <3>1 DEF AnswersFor, Finished, Active, Srv, Me
    <3>2. CASE k # worker.job
      BY <1>1, <2>2, <3>2 DEF AnswersFor, Active
    <3>. QED BY <3>1, <3>2
  <2>. QED BY <1>1, <2>1, <2>2, <2>3 DEF AnswersFor, Kept, Finished, IdleWorker
<1>. QED BY <1>2, <1>3, <1>4, <1>6, <1>7 DEF Inv

LEMMA SucceedInv ==
    ASSUME Inv, Succeed
    PROVE  Inv'
<1>1. /\ worker.pc = "succeed" /\ worker' = IdleWorker
      /\ UNCHANGED << status, held, api, vm, tasks, drifts, crashes >>
  BY DEF Succeed, external, At
<1>2. worker.pc \notin Resting
  BY <1>1 DEF Resting
<1>3. Updated(worker.job, "succeeded")
  BY <1>2, BusyRow, SetStatusUpdates DEF Succeed, Inv, JobStatuses
<1>4. status' \in [Instances -> RowStatuses]
  BY <1>1 DEF Inv, TypeOK
<1>. QED BY <1>1, <1>2, <1>3, <1>4, GivenUp

LEMMA RaiseInv ==
    ASSUME Inv, Raise
    PROVE  Inv'
<1>1. /\ worker' = IdleWorker /\ MayRaise /\ FailRow(worker.job)
      /\ UNCHANGED << held, api, vm, tasks, drifts, crashes >>
  BY DEF Raise, external
<1>2. worker.pc \notin Resting
  BY <1>1 DEF MayRaise, HandlerPcs, Resting, At
<1> DEFINE s == IF Exhausted(worker.job) THEN "dead" ELSE "failed"
<1>3. Updated(worker.job, s)
  BY <1>1, <1>2, BusyRow, FailRowUpdates DEF Inv
<1>4. /\ status' \in [Instances -> RowStatuses]
      /\ \A i \in Instances : status'[i] # status[i] => i = Srv /\ status'[i] = "error"
  BY BusyRow, <1>2 DEF Raise, Inv, TypeOK, RowStatuses, ALL_STATES
<1>5. status'[Srv] \in InFlight => s \in ACTIVE_JOB_STATUSES
  <2>1. CASE Exhausted(worker.job) /\ status[Srv] \notin TERMINAL_STATES
    BY <2>1, <1>2, BusyRow DEF Raise, Inv, TypeOK, InFlight
  <2>2. CASE Exhausted(worker.job) /\ status[Srv] \in TERMINAL_STATES
    BY <2>2 DEF Raise, InFlight, TERMINAL_STATES
  <2>3. CASE ~Exhausted(worker.job)
    BY <2>3 DEF ACTIVE_JOB_STATUSES
  <2>. QED BY <2>1, <2>2, <2>3
<1>. QED BY <1>1, <1>2, <1>3, <1>4, <1>5, GivenUp

-----------------------------------------------------------------------------
(* The handlers.  The first commit: the job answers for its own status.    *)
LEMMA ThroughTyped ==
    ASSUME NEW type \in DOMAIN Through
    PROVE  /\ Through[type] \in InFlight /\ Through[type] \in ALL_STATES
           /\ type \in DOMAIN OwnStatus /\ OwnStatus[type] = Through[type]
BY DEF Through, InFlight, ALL_STATES, OwnStatus, BootVerbs

LEMMA EnterInv ==
    ASSUME Inv, Enter
    PROVE  Inv'
<1> DEFINE through == Through[Me.type]
           pc == IF Me.type \in PowerVerbs THEN "act" ELSE "power_off"
<1>1. /\ worker.pc = "enter" /\ GoTo(pc, through)
      /\ UNCHANGED << jobs, held, api, vm, tasks, drifts, crashes >>
  BY DEF Enter, external, At
<1>2. worker.pc \notin Resting /\ worker.pc # "succeed"
  BY <1>1 DEF Resting
<1>3. Me.type \in DOMAIN Through \ {"create"}
  BY <1>1, <1>2, BusyRow DEF StepFits
<1>4. /\ through \in ALL_STATES /\ Me.type \in DOMAIN OwnStatus
      /\ OwnStatus[Me.type] = through
  BY <1>3, ThroughTyped
<1>5. pc \in HandlerPcs /\ pc \in WorkerPcs /\ pc \notin Resting /\ pc # "succeed"
  BY DEF HandlerPcs, WorkerPcs, Resting
<1>6. StepFits(pc, Me.type, through)
  BY <1>3 DEF StepFits, Through, PowerVerbs
<1>7. /\ status' \in [Instances -> RowStatuses] /\ status'[Srv] = through
      /\ \A i \in Instances : i # Srv => status'[i] = status[i]
  <2>1. /\ status \in [Instances -> RowStatuses] /\ worker.seen = status[Srv]
        /\ Srv \in Instances
    BY <1>2, BusyRow DEF Inv, TypeOK
  <2>2. (UNCHANGED status /\ worker.seen = through)
        \/ status' = [status EXCEPT ![Srv] = through]
    BY DEF Enter
  <2>. QED BY <2>1, <2>2, <1>4 DEF RowStatuses
<1>. HIDE DEF through, pc
<1>8. /\ worker' \in Worker /\ worker'.pc = pc /\ worker'.seen = through
      /\ worker'.job = worker.job
  BY <1>1, <1>4, <1>5, GoToWorker DEF Inv, Statuses, RowStatuses
<1>9. TypeOK'
  BY <1>1, <1>7, <1>8 DEF Inv, TypeOK
<1>10. Me' = Me /\ Srv' = Srv /\ JobIds' = JobIds
  BY <1>1, <1>8 DEF Me, Srv, JobIds
<1>11. BusyInv'
  BY <1>2, <1>5, <1>6, <1>7, <1>8, <1>10, BusyRow DEF BusyInv
<1>12. NoStrandedRow'
  BY <1>1, <1>2, <1>8, <1>10 DEF Inv, NoStrandedRow, At, Resting
<1>13. RowsExist'
  <2>1. through # "absent"
    BY <1>4 DEF ALL_STATES
  <2>2. \A t \in Threads : api[t].pc # "idle" => api[t].inst \in Instances
    BY DEF Inv, TypeOK, Request, IdleRequest
  <2>. QED BY <1>1, <1>7, <1>10, <2>1, <2>2, RowAt DEF Inv, RowsExist
<1>14. LimboInv'
  <2>. SUFFICES ASSUME NEW i \in Instances, status'[i] \in InFlight
                PROVE  \E k \in JobIds' : AnswersFor(k, i)'
    BY DEF LimboInv
  <2>1. CASE i = Srv
    <3>1. PICK k \in JobIds : k = worker.job
      BY <1>2, BusyRow
    <3>2. jobs'[k] = Me /\ Me.inst = Srv /\ Me.status = "running"
      BY <1>1, <1>2, <3>1, BusyRow DEF Me, Srv
    <3>. QED BY <2>1, <3>1, <3>2, <1>4, <1>5, <1>7, <1>8, <1>10
             DEF AnswersFor, Active, ACTIVE_JOB_STATUSES, Finished
  <2>2. CASE i # Srv
    <3>1. PICK k \in JobIds : AnswersFor(k, i)
      BY <1>7, <2>2 DEF Inv, LimboInv
    <3>. QED BY <2>2, <3>1, <1>1, <1>5, <1>7, <1>8, <1>10 DEF AnswersFor, Finished, Active
  <2>. QED BY <2>1, <2>2
<1>. QED BY <1>9, <1>11, <1>12, <1>13, <1>14 DEF Inv

(* The steps between two commits, which touch Proxmox and the row's assets. *)
HeldVmTyped ==
    /\ held' \in [Instances -> SUBSET Assets]
    /\ vm' \in [Instances -> VmStates]
    /\ tasks' \in [Instances -> SUBSET PxTasks]

LEMMA MovedInv ==
    ASSUME Inv, worker.pc \notin Resting, UNCHANGED << jobs, status, api, drifts, crashes >>,
           NEW pc \in HandlerPcs, NEW seen, seen = status[Srv], GoTo(pc, seen),
           StepFits(pc, Me.type, seen), HeldVmTyped
    PROVE  Inv'
<1>1. worker' \in Worker /\ StateInv'
  BY Moved
<1>. QED BY <1>1 DEF Inv, StateInv, TypeOK, HeldVmTyped

LEMMA VmTyped ==
    ASSUME Inv, worker.pc \notin Resting, NEW s \in VmStates
    PROVE  /\ [vm EXCEPT ![Srv] = s] \in [Instances -> VmStates]
           /\ vm[Srv] \in VmStates /\ tasks[Srv] \subseteq PxTasks
           /\ PoweredOff(vm[Srv]) \in VmStates
<1>1. Srv \in Instances /\ vm[Srv] \in VmStates /\ tasks[Srv] \subseteq PxTasks
  BY BusyRow DEF Inv, TypeOK
<1>. QED BY <1>1 DEF Inv, TypeOK, PoweredOff, VmStates

LEMMA PowerActInv ==
    ASSUME Inv, PowerAct
    PROVE  Inv'
<1>1. /\ worker.pc = "act" /\ worker.pc \notin Resting
      /\ UNCHANGED << jobs, status, held, api, vm, drifts, crashes >>
      /\ GoTo("power_exit", worker.seen)
  BY DEF PowerAct, At, Resting
<1>2. /\ Me.type \in PowerVerbs /\ worker.seen = Through[Me.type]
      /\ worker.seen = status[Srv] /\ Srv \in Instances
  BY <1>1, BusyRow DEF StepFits
<1>3. StepFits("power_exit", Me.type, worker.seen)
  BY <1>2 DEF StepFits
<1>4. PowerTask[Me.type] \in PxTasks
  BY <1>2 DEF PowerTask, PowerVerbs, PxTasks
<1>5. HeldVmTyped
  BY <1>1, <1>2, <1>4 DEF PowerAct, HeldVmTyped, Inv, TypeOK
<1>6. "power_exit" \in HandlerPcs
  BY DEF HandlerPcs
<1>. QED BY <1>1, <1>2, <1>3, <1>5, <1>6, MovedInv

LEMMA PowerOffInv ==
    ASSUME Inv, PowerOff
    PROVE  Inv'
<1>1. /\ worker.pc = "power_off" /\ worker.pc \notin Resting
      /\ UNCHANGED << jobs, status, held, api, tasks, drifts, crashes >>
  BY DEF PowerOff, At, Resting
<1>2. /\ Me.type \in BootVerbs \cup {"destroy"} /\ worker.seen = Through[Me.type]
      /\ worker.seen = status[Srv] /\ Srv \in Instances
  BY <1>1, BusyRow DEF StepFits
<1>3. PICK pc \in HandlerPcs : GoTo(pc, worker.seen) /\ StepFits(pc, Me.type, worker.seen)
  <2>1. CASE GoTo(AfterOff, worker.seen)
    <3>1. AfterOff \in HandlerPcs /\ StepFits(AfterOff, Me.type, worker.seen)
      BY <1>2 DEF AfterOff, HandlerPcs, StepFits, BootVerbs, Through
    <3>. QED BY <2>1, <3>1
  <2>2. CASE GoTo(AfterGone, worker.seen) /\ Me.type \in {"rebuild", "destroy"}
    <3>1. AfterGone \in HandlerPcs /\ StepFits(AfterGone, Me.type, worker.seen)
      BY <1>2, <2>2 DEF AfterGone, HandlerPcs, StepFits, BootVerbs, Through
    <3>. QED BY <2>2, <3>1
  <2>. QED BY <2>1, <2>2 DEF PowerOff
<1>4. HeldVmTyped
  BY <1>1, VmTyped DEF PowerOff, HeldVmTyped, Inv, TypeOK
<1>. QED BY <1>1, <1>2, <1>3, <1>4, MovedInv

LEMMA DeleteInv ==
    ASSUME Inv, Delete
    PROVE  Inv'
<1>1. /\ worker.pc = "delete" /\ worker.pc \notin Resting
      /\ UNCHANGED << jobs, status, held, api, drifts, crashes >>
      /\ GoTo(AfterGone, worker.seen)
  BY DEF Delete, At, Resting
<1>2. Me.type \in {"rebuild", "destroy"} /\ worker.seen = Through[Me.type] /\ Srv \in Instances
      /\ worker.seen = status[Srv]
  BY <1>1, BusyRow DEF StepFits
<1>3. AfterGone \in HandlerPcs /\ StepFits(AfterGone, Me.type, worker.seen)
  BY <1>2 DEF StepFits, HandlerPcs, AfterGone
<1>4. HeldVmTyped
  BY <1>1, <1>2 DEF Delete, HeldVmTyped, Inv, TypeOK, VmStates, PxTasks
<1>. QED BY <1>1, <1>2, <1>3, <1>4, MovedInv

LEMMA RecloneInv ==
    ASSUME Inv, Reclone
    PROVE  Inv'
<1>1. /\ worker.pc = "reclone" /\ worker.pc \notin Resting
      /\ UNCHANGED << jobs, status, held, api, drifts, crashes, tasks >>
      /\ GoTo("configure", worker.seen)
  BY DEF Reclone, At, Resting
<1>2. Me.type = "rebuild" /\ Srv \in Instances
      /\ worker.seen = status[Srv]
  BY <1>1, BusyRow DEF StepFits
<1>3. "configure" \in HandlerPcs /\ StepFits("configure", Me.type, worker.seen)
  BY <1>2 DEF StepFits, HandlerPcs
<1>4. HeldVmTyped
  BY <1>1, <1>2 DEF Reclone, HeldVmTyped, Inv, TypeOK, VmStates
<1>. QED BY <1>1, <1>2, <1>3, <1>4, MovedInv

LEMMA ApplyPlanInv ==
    ASSUME Inv, ApplyPlan
    PROVE  Inv'
<1>1. /\ worker.pc = "apply" /\ worker.pc \notin Resting
      /\ UNCHANGED << jobs, status, held, api, drifts, crashes, vm, tasks >>
      /\ GoTo("start_vm", status[Srv])
  BY DEF ApplyPlan, At, Resting, external
<1>2. Me.type = "resize" /\ Srv \in Instances
      /\ worker.seen = status[Srv]
  BY <1>1, BusyRow DEF StepFits
<1>3. "start_vm" \in HandlerPcs /\ StepFits("start_vm", Me.type, status[Srv])
  BY <1>2 DEF StepFits, HandlerPcs, BootVerbs
<1>4. HeldVmTyped
  BY <1>1, <1>2 DEF ApplyPlan, HeldVmTyped, Inv, TypeOK
<1>. QED BY <1>1, <1>2, <1>3, <1>4, MovedInv

LEMMA RepinInv ==
    ASSUME Inv, Repin
    PROVE  Inv'
<1>1. /\ worker.pc = "repin" /\ worker.pc \notin Resting
      /\ UNCHANGED << jobs, status, held, api, drifts, crashes, tasks >>
      /\ GoTo("start_vm", worker.seen)
  BY DEF Repin, At, Resting
<1>2. Me.type = "restore_backup" /\ Srv \in Instances
      /\ worker.seen = status[Srv]
  BY <1>1, BusyRow DEF StepFits
<1>3. "start_vm" \in HandlerPcs /\ StepFits("start_vm", Me.type, worker.seen)
  BY <1>2 DEF StepFits, HandlerPcs, BootVerbs
<1>4. HeldVmTyped
  BY <1>1, <1>2 DEF Repin, HeldVmTyped, Inv, TypeOK, VmStates
<1>. QED BY <1>1, <1>2, <1>3, <1>4, MovedInv

LEMMA PickVmidInv ==
    ASSUME Inv, PickVmid
    PROVE  Inv'
<1>1. /\ worker.pc = "pick_vmid" /\ worker.pc \notin Resting
      /\ UNCHANGED << jobs, status, api, vm, tasks, drifts, crashes >>
      /\ GoTo("clone", status[Srv])
  BY BusyRow DEF PickVmid, At, Resting, external
<1>2. Me.type = "create" /\ Srv \in Instances
      /\ worker.seen = status[Srv]
  BY <1>1, BusyRow DEF StepFits
<1>3. "clone" \in HandlerPcs /\ StepFits("clone", Me.type, status[Srv])
  BY <1>2 DEF StepFits, HandlerPcs
<1>4. HeldVmTyped
  BY <1>1, <1>2 DEF PickVmid, HeldVmTyped, Inv, TypeOK, Assets
<1>. QED BY <1>1, <1>2, <1>3, <1>4, MovedInv

LEMMA CloneInv ==
    ASSUME Inv, Clone
    PROVE  Inv'
<1>1. /\ worker.pc = "clone" /\ worker.pc \notin Resting
      /\ UNCHANGED << jobs, status, held, api, drifts, crashes, tasks >>
      /\ GoTo("configure", worker.seen)
  BY DEF Clone, At, Resting
<1>2. Me.type = "create" /\ Srv \in Instances
      /\ worker.seen = status[Srv]
  BY <1>1, BusyRow DEF StepFits
<1>3. "configure" \in HandlerPcs /\ StepFits("configure", Me.type, worker.seen)
  BY <1>2 DEF StepFits, HandlerPcs
<1>4. HeldVmTyped
  BY <1>1, <1>2 DEF Clone, HeldVmTyped, Inv, TypeOK, VmStates
<1>. QED BY <1>1, <1>2, <1>3, <1>4, MovedInv

LEMMA ConfigureInv ==
    ASSUME Inv, Configure
    PROVE  Inv'
<1>1. /\ worker.pc = "configure" /\ worker.pc \notin Resting
      /\ UNCHANGED << jobs, status, api, tasks, drifts, crashes >>
      /\ GoTo("start_vm", status[Srv])
  BY DEF Configure, At, Resting
<1>2. Me.type \in {"create", "rebuild"} /\ Srv \in Instances
      /\ worker.seen = status[Srv]
  BY <1>1, BusyRow DEF StepFits
<1>3. "start_vm" \in HandlerPcs /\ StepFits("start_vm", Me.type, status[Srv])
  BY <1>2 DEF StepFits, HandlerPcs, BootVerbs
<1>4. HeldVmTyped
  BY <1>1, <1>2 DEF Configure, HeldVmTyped, Inv, TypeOK, VmStates, Assets
<1>. QED BY <1>1, <1>2, <1>3, <1>4, MovedInv

LEMMA StartVmInv ==
    ASSUME Inv, StartVm
    PROVE  Inv'
<1>1. /\ worker.pc = "start_vm" /\ worker.pc \notin Resting
      /\ UNCHANGED << jobs, status, held, api, drifts, crashes, vm >>
      /\ GoTo("publish", worker.seen)
  BY DEF StartVm, At, Resting
<1>2. Me.type \in BootVerbs \cup {"create"} /\ Srv \in Instances
      /\ worker.seen = status[Srv]
  BY <1>1, BusyRow DEF StepFits
<1>3. "publish" \in HandlerPcs /\ StepFits("publish", Me.type, worker.seen)
  BY <1>2 DEF StepFits, HandlerPcs
<1>4. HeldVmTyped
  BY <1>1, <1>2 DEF StartVm, HeldVmTyped, Inv, TypeOK, PxTasks
<1>. QED BY <1>1, <1>2, <1>3, <1>4, MovedInv

LEMMA RestoreDiskInv ==
    ASSUME Inv, RestoreDisk
    PROVE  Inv'
<1>1. /\ worker.pc = "restore_disk" /\ worker.pc \notin Resting
      /\ UNCHANGED << jobs, status, held, api, drifts, crashes >>
  BY DEF RestoreDisk, At, Resting
<1>2. /\ Me.type \in {"rollback", "restore_backup"} /\ worker.seen = Through[Me.type]
      /\ worker.seen = status[Srv] /\ Srv \in Instances
  BY <1>1, BusyRow DEF StepFits
<1>3. PICK pc \in HandlerPcs : GoTo(pc, worker.seen) /\ StepFits(pc, Me.type, worker.seen)
  BY <1>2 DEF RestoreDisk, HandlerPcs, StepFits, BootVerbs
<1>4. HeldVmTyped
  BY <1>1, <1>2 DEF RestoreDisk, HeldVmTyped, Inv, TypeOK, VmStates
<1>. QED BY <1>1, <1>2, <1>3, <1>4, MovedInv

-----------------------------------------------------------------------------
(* The commits that end a handler.                                         *)
LEMMA EndedInv ==
    ASSUME Inv, worker.pc \notin Resting, UNCHANGED << api, vm, tasks, drifts, crashes >>,
           Grown, NEW seen \in ALL_STATES, GoTo("succeed", seen),
           status' = [status EXCEPT ![Srv] = seen],
           held' \in [Instances -> SUBSET Assets],
           seen \in InFlight => \E k \in JobIds' :
              /\ k # worker.job /\ jobs'[k].inst = Srv /\ Active(k)'
              /\ jobs'[k].type \in DOMAIN OwnStatus /\ OwnStatus[jobs'[k].type] = seen
    PROVE  Inv'
<1>1. worker' \in Worker /\ StateInv'
  BY Ended
<1>2. status' \in [Instances -> RowStatuses]
  BY DEF Inv, TypeOK, RowStatuses
<1>. QED BY <1>1, <1>2 DEF Inv, StateInv, TypeOK, Grown

(* Nothing that is not the worker's own status is disturbed when its server *)
(* stays as it is: the row that answers for it is another one.              *)
LEMMA OtherAnswers ==
    ASSUME Inv, worker.pc \notin Resting, Grown, status[Srv] \in InFlight,
           Me.type \in DOMAIN OwnStatus => OwnStatus[Me.type] # status[Srv]
    PROVE  \E k \in JobIds' :
              /\ k # worker.job /\ jobs'[k].inst = Srv /\ Active(k)'
              /\ jobs'[k].type \in DOMAIN OwnStatus
              /\ OwnStatus[jobs'[k].type] = status[Srv]
<1>1. PICK k \in JobIds : AnswersFor(k, Srv)
  BY BusyRow DEF Inv, LimboInv
<1>2. k # worker.job
  BY <1>1 DEF AnswersFor, Me
<1>3. k \in JobIds' /\ Kept(k) /\ jobs'[k].status = jobs[k].status
  BY GrownIds DEF Grown, Inv
<1>. QED BY <1>1, <1>2, <1>3 DEF AnswersFor, Kept, Active

(* A new readiness row answers for booting. *)
LEMMA ReadinessAnswers ==
    ASSUME Inv, worker.pc \notin Resting, Added("await_ready", Srv),
           status'[Srv] # "absent"
    PROVE  \E k \in JobIds' :
              /\ k # worker.job /\ jobs'[k].inst = Srv /\ Active(k)'
              /\ jobs'[k].type \in DOMAIN OwnStatus
              /\ OwnStatus[jobs'[k].type] = "booting"
<1>1. PICK k \in JobIds' : k = Len(jobs) + 1 /\ k \notin JobIds
  BY AddedGrows DEF Inv
<1>2. k # worker.job
  BY <1>1, BusyRow
<1>3. "await_ready" \in DOMAIN OwnStatus /\ OwnStatus["await_ready"] = "booting"
  BY DEF OwnStatus
<1>. QED BY <1>1, <1>2, <1>3 DEF Added, Active, ACTIVE_JOB_STATUSES

LEMMA PowerExitInv ==
    ASSUME Inv, PowerExit
    PROVE  Inv'
<1>1. /\ worker.pc = "power_exit" /\ worker.pc \notin Resting
      /\ UNCHANGED << held, api, vm, tasks, drifts, crashes >>
      /\ status' = [status EXCEPT ![Srv] = PowerTo[Me.type]]
      /\ GoTo("succeed", PowerTo[Me.type]) /\ jobs' = Record(worker.job)
  BY DEF PowerExit, At, Resting, external
<1>2. Me.type \in PowerVerbs
  BY <1>1, BusyRow DEF StepFits
<1>3. PowerTo[Me.type] \in ALL_STATES \ InFlight
  BY <1>2 DEF PowerTo, ALL_STATES, InFlight
<1>4. Grown
  BY <1>1, BusyRow, RecordGrows DEF Inv
<1>. QED BY <1>1, <1>3, <1>4, EndedInv DEF Inv, TypeOK

LEMMA PublishInv ==
    ASSUME Inv, Publish
    PROVE  Inv'
<1>1. /\ worker.pc = "publish" /\ worker.pc \notin Resting
      /\ UNCHANGED << held, api, vm, tasks, drifts, crashes >>
      /\ status' = [status EXCEPT ![Srv] = "booting"]
      /\ GoTo("succeed", "booting")
      /\ jobs' = Append(Record(worker.job), NewJob("await_ready", Srv, FALSE, 0))
  BY DEF Publish, At, Resting, external
<1>2. Added("await_ready", Srv)
  BY <1>1, BusyRow, PublishAdds DEF Inv
<1>3. status'[Srv] = "booting" /\ Srv \in Instances
  BY <1>1, BusyRow DEF Inv, TypeOK
<1>4. Grown
  BY <1>2, <1>3, AddedGrows DEF Inv
<1>5. "booting" \in ALL_STATES
  BY DEF ALL_STATES
<1>. QED BY <1>1, <1>2, <1>3, <1>4, <1>5, ReadinessAnswers, EndedInv DEF Inv, TypeOK

LEMMA ProbeMootInv ==
    ASSUME Inv, ProbeMoot
    PROVE  Inv'
<1>1. /\ worker.pc = "probe" /\ worker.pc \notin Resting /\ worker.seen # "booting"
      /\ UNCHANGED << jobs, status, held, api, vm, tasks, drifts, crashes >>
      /\ GoTo("succeed", worker.seen)
  BY DEF ProbeMoot, At, Resting, external
<1>2. /\ Me.type = "await_ready" /\ worker.seen = status[Srv]
      /\ status[Srv] \in ALL_STATES /\ Srv \in Instances
  BY <1>1, BusyRow DEF StepFits
<1>3. OwnStatus["await_ready"] = "booting"
  BY DEF OwnStatus
<1>4. Grown
  BY <1>1, UnchangedGrows DEF Inv
<1>5. status' = [status EXCEPT ![Srv] = worker.seen]
  BY <1>1, <1>2 DEF Inv, TypeOK
<1>6. status[Srv] \in InFlight => \E k \in JobIds' :
        /\ k # worker.job /\ jobs'[k].inst = Srv /\ Active(k)'
        /\ jobs'[k].type \in DOMAIN OwnStatus /\ OwnStatus[jobs'[k].type] = status[Srv]
  BY <1>1, <1>2, <1>3, <1>4, OtherAnswers
<1>. QED BY <1>1, <1>2, <1>4, <1>5, <1>6, EndedInv DEF Inv, TypeOK

LEMMA ProbeDoneInv ==
    ASSUME Inv, ProbeDone
    PROVE  Inv'
<1>1. /\ worker.pc = "probe" /\ worker.pc \notin Resting
      /\ UNCHANGED << held, api, vm, tasks, drifts, crashes >>
      /\ status' = [status EXCEPT ![Srv] = "running"]
      /\ GoTo("succeed", "running") /\ jobs' = Record(worker.job)
  BY DEF ProbeDone, At, Resting, external
<1>2. "running" \in ALL_STATES \ InFlight
  BY DEF ALL_STATES, InFlight
<1>3. Grown
  BY <1>1, BusyRow, RecordGrows DEF Inv
<1>. QED BY <1>1, <1>2, <1>3, EndedInv DEF Inv, TypeOK

LEMMA ProbeAgainInv ==
    ASSUME Inv, ProbeAgain
    PROVE  Inv'
<1>1. /\ worker.pc = "probe" /\ worker.pc \notin Resting /\ worker.seen = "booting"
      /\ UNCHANGED << status, held, api, vm, tasks, drifts, crashes >>
      /\ GoTo("succeed", worker.seen)
      /\ jobs' = Append(jobs, NewJob("await_ready", Srv, FALSE, Me.poll + 1))
  BY DEF ProbeAgain, At, Resting, external
<1>2. /\ status[Srv] = "booting" /\ status[Srv] \in ALL_STATES /\ Srv \in Instances
      /\ Me \in Job
  BY <1>1, BusyRow
<1>3. Me.poll + 1 \in Nat /\ "await_ready" \in JobTypes
  BY <1>2 DEF Job, JobTypes
<1>4. Added("await_ready", Srv)
  BY <1>1, <1>2, <1>3, AppendAdds DEF Inv
<1>5. Grown
  BY <1>1, <1>2, <1>4, AddedGrows DEF Inv
<1>6. status' = [status EXCEPT ![Srv] = worker.seen]
  BY <1>1, <1>2 DEF Inv, TypeOK
<1>. QED BY <1>1, <1>2, <1>4, <1>5, <1>6, ReadinessAnswers, EndedInv DEF Inv, TypeOK

LEMMA BackupInv ==
    ASSUME Inv, Backup
    PROVE  Inv'
<1>1. /\ worker.pc = "backup" /\ worker.pc \notin Resting
      /\ UNCHANGED << status, api, vm, tasks, drifts, crashes >>
      /\ held' = [held EXCEPT ![Srv] = @ \cup {"backup"}]
      /\ GoTo("succeed", worker.seen) /\ jobs' = Record(worker.job)
  BY DEF Backup, At, Resting, external
<1>2. /\ Me.type = "backup" /\ worker.seen = status[Srv]
      /\ status[Srv] \in ALL_STATES /\ Srv \in Instances
  BY <1>1, BusyRow DEF StepFits
<1>3. "backup" \notin DOMAIN OwnStatus
  BY DEF OwnStatus, Through, BootVerbs
<1>4. Grown
  BY <1>1, BusyRow, RecordGrows DEF Inv
<1>5. /\ status' = [status EXCEPT ![Srv] = worker.seen]
      /\ held' \in [Instances -> SUBSET Assets]
  BY <1>1, <1>2 DEF Inv, TypeOK, Assets
<1>6. status[Srv] \in InFlight => \E k \in JobIds' :
        /\ k # worker.job /\ jobs'[k].inst = Srv /\ Active(k)'
        /\ jobs'[k].type \in DOMAIN OwnStatus /\ OwnStatus[jobs'[k].type] = status[Srv]
  BY <1>1, <1>2, <1>3, <1>4, OtherAnswers
<1>. QED BY <1>1, <1>2, <1>4, <1>5, <1>6, EndedInv

LEMMA ReleaseInv ==
    ASSUME Inv, Release
    PROVE  Inv'
<1>1. /\ worker.pc = "release" /\ worker.pc \notin Resting
      /\ UNCHANGED << api, vm, tasks, drifts, crashes >>
      /\ status' = [status EXCEPT ![Srv] = "destroyed"]
      /\ held' = [held EXCEPT ![Srv] = {}]
      /\ GoTo("succeed", "destroyed") /\ jobs' = Record(worker.job)
  BY DEF Release, At, Resting, external
<1>2. "destroyed" \in ALL_STATES \ InFlight
  BY DEF ALL_STATES, InFlight
<1>3. Grown
  BY <1>1, BusyRow, RecordGrows DEF Inv
<1>4. held' \in [Instances -> SUBSET Assets]
  BY <1>1 DEF Inv, TypeOK
<1>. QED BY <1>1, <1>2, <1>3, <1>4, EndedInv

-----------------------------------------------------------------------------
(* Init implies Inv, and every step of Next preserves it.                  *)
LEMMA InitInv == Init => Inv
<1>. SUFFICES ASSUME Init PROVE Inv
  OBVIOUS
<1>1. jobs = << >> /\ JobIds = {} /\ worker = IdleWorker
  BY DEF Init, JobIds
<1>2. TypeOK
  <2>1. jobs \in Seq(Job)
    BY <1>1
  <2>2. /\ status \in [Instances -> RowStatuses]
        /\ held \in [Instances -> SUBSET Assets]
    BY DEF Init, RowStatuses, ALL_STATES, Assets
  <2>3. vm \in [Instances -> VmStates] /\ tasks \in [Instances -> SUBSET PxTasks]
    BY DEF Init, VmStates, PxTasks
  <2>4. /\ worker \in Worker /\ api \in [Threads -> { IdleRequest } \cup Request]
        /\ crashes \in Nat /\ drifts \in Nat
    BY DEF Init, IdleWorker, Worker, WorkerPcs
  <2>. QED BY <2>1, <2>2, <2>3, <2>4 DEF TypeOK
<1>3. BusyInv /\ NoStrandedRow
  BY <1>1 DEF IdleWorker, BusyInv, Resting, NoStrandedRow
<1>4. RowsExist
  BY <1>1 DEF Init, RowsExist, IdleRequest
<1>5. LimboInv
  BY DEF Init, LimboInv, InFlight, ALL_STATES
<1>. QED BY <1>2, <1>3, <1>4, <1>5 DEF Inv

LEMMA NextInv ==
    ASSUME Inv, [Next]_vars
    PROVE  Inv'
<1>1. CASE RequestStep
  BY <1>1, ProvisionInv, RequestInv DEF RequestStep
<1>2. CASE WorkerStep
  <2>1. CASE HandlerStep
    BY <2>1, EnterInv, PowerActInv, PowerExitInv, PowerOffInv, DeleteInv, RecloneInv,
       ApplyPlanInv, RestoreDiskInv, RepinInv, PickVmidInv, CloneInv, ConfigureInv,
       StartVmInv, PublishInv, ProbeMootInv, ProbeDoneInv, ProbeAgainInv, BackupInv,
       ReleaseInv DEF HandlerStep
  <2>. QED BY <1>2, <2>1, WorkerBootInv, ClaimInv, RaiseInv, SucceedInv DEF WorkerStep
<1>3. CASE Crash
  BY <1>3, CrashInv
<1>4. CASE Environment
  BY <1>4, EnvironmentInv
<1>5. CASE UNCHANGED vars
  <2>1. UNCHANGED << jobs, status, held, worker, api, vm, tasks, crashes, drifts >>
    BY <1>5 DEF vars
  <2>2. ApiRowsExist'
    BY <2>1 DEF Inv, RowsExist, ApiRowsExist
  <2>3. StateInv'
    BY <2>1, <2>2, UnchangedGrows, Unmoved DEF Inv
  <2>. QED BY <2>1, <2>3 DEF Inv, TypeOK, StateInv
<1>. QED BY <1>1, <1>2, <1>3, <1>4, <1>5 DEF Next

-----------------------------------------------------------------------------
(***************************************************************************)
(* Theorems.                                                               *)
(***************************************************************************)

(* Every reachable state of the life of servers satisfies Inv.             *)
THEOREM InvAlways == Spec => []Inv
<1>1. Init => Inv
  BY InitInv
<1>2. Inv /\ [Next]_vars => Inv'
  BY NextInv
<1>. QED BY <1>1, <1>2, PTL DEF Spec

(* Every variable keeps its type: no handler writes a status, a job row, a *)
(* request or a worker that the code has no name for.                      *)
THEOREM TypeCorrect == Spec => []TypeOK
<1>1. Inv => TypeOK
  BY DEF Inv
<1>. QED BY <1>1, InvAlways, PTL

(* No limbo (docs/VERBS.md): a server in an in-flight status always has a  *)
(* job that is queued, running or waiting for its retry, through crashes,  *)
(* raised handlers and readiness probes that chain new rows.               *)
THEOREM ServersNeverInLimbo == Spec => []NoLimbo
<1>1. Inv => NoLimbo
  BY DEF Inv, LimboInv, NoLimbo, AnswersFor, HasActiveJob
<1>. QED BY <1>1, InvAlways, PTL

(* The one worker never leaves a running row behind that no restart will   *)
(* queue again: claim, fail, succeed and requeue_stale fit together.       *)
THEOREM RowsNeverStranded == Spec => []NoStrandedRow
<1>1. Inv => NoStrandedRow
  BY DEF Inv
<1>. QED BY <1>1, InvAlways, PTL

(* Nothing alters a row that has succeeded or is dead.                     *)
LEMMA AppendedStays ==
    ASSUME TypeOK, NEW row \in Job, jobs' = Append(jobs, row)
    PROVE  \A k \in JobIds : k \in JobIds' /\ jobs'[k] = jobs[k]
<1>1. Len(jobs) \in Nat
  BY DEF TypeOK
<1>. QED BY <1>1, AddRow DEF TypeOK, JobIds

Stays == \A k \in JobIds : ~Active(k) => k \in JobIds' /\ jobs'[k] = jobs[k]

LEMMA UpdatedStays ==
    ASSUME NEW k \in JobIds, NEW s, Updated(k, s), Active(k)
    PROVE  Stays
BY DEF Updated, Stays, JobIds

(* For the table it matters which row the worker has, not what it has      *)
(* loaded of the server.                                                   *)
RowInHand ==
    IF worker.pc \in Resting THEN worker.job = 0
    ELSE worker.job \in JobIds /\ Me.status = "running"

InHand == TypeOK /\ RowInHand

LEMMA InvInHand == Inv => InHand
BY DEF Inv, InHand, BusyInv, RowInHand

LEMMA HandRow ==
    ASSUME InHand, worker.pc \notin Resting
    PROVE  /\ worker.job \in JobIds /\ worker.job # 0 /\ Me \in Job /\ Me.status = "running"
           /\ Me.type \in JobTypes /\ Srv \in Instances
BY RowAt DEF InHand, RowInHand, Me, Srv

LEMMA BusyActive ==
    ASSUME InHand, worker.pc \notin Resting
    PROVE  Active(worker.job)
BY HandRow DEF Active, ACTIVE_JOB_STATUSES, Me

LEMMA RecordStays ==
    ASSUME InHand, worker.pc \notin Resting
    PROVE  /\ Len(Record(worker.job)) = Len(jobs)
           /\ \A k \in JobIds : k # worker.job => Record(worker.job)[k] = jobs[k]
<1>1. jobs \in Seq(Job) /\ worker.job \in 1 .. Len(jobs)
  BY HandRow DEF InHand, TypeOK, JobIds
<1>. QED BY <1>1 DEF Record, JobIds

LEMMA NextStays ==
    ASSUME InHand, [Next]_vars
    PROVE  Stays
<1>1. ASSUME UNCHANGED jobs PROVE Stays
  BY <1>1 DEF Stays, JobIds
<1>2. ASSUME NEW type \in JobTypes, NEW i \in Instances, NEW due \in BOOLEAN,
             NEW poll \in Nat, jobs' = Append(jobs, NewJob(type, i, due, poll))
      PROVE  Stays
  BY <1>2, NewJobTyped, AppendedStays DEF InHand, Stays
<1>3. ASSUME worker.pc \notin Resting, jobs' = Record(worker.job)
      PROVE  Stays
  BY <1>3, RecordStays, BusyActive DEF Stays, JobIds
<1>4. CASE RequestStep
  <2>1. ASSUME NEW i \in Instances, Provision(i) PROVE Stays
    BY <2>1, <1>2 DEF Provision, Insert, JobTypes
  <2>2. ASSUME NEW t \in Threads, ApiInsert(t) PROVE Stays
    <3>1. api[t].verb \in JobTypes /\ api[t].inst \in Instances
      BY <2>2 DEF ApiInsert, InHand, TypeOK, Request, IdleRequest, JobTypes
    <3>. QED BY <2>2, <3>1, <1>2 DEF ApiInsert, Insert
  <2>3. ASSUME NEW t \in Threads, NEW i \in Instances, NEW v \in UserVerbs, ApiRead(t, i, v)
        PROVE  Stays
    BY <2>3, <1>1 DEF ApiRead
  <2>4. ASSUME NEW t \in Threads, ApiCheck(t) PROVE Stays
    BY <2>4, <1>1 DEF ApiCheck
  <2>. QED BY <1>4, <2>1, <2>2, <2>3, <2>4 DEF RequestStep
<1>5. CASE WorkerBoot
  <2>1. JobIds' = JobIds /\ \A k \in JobIds : jobs'[k] = Requeued(jobs[k])
    BY <1>5, RequeueKeeps DEF InHand, WorkerBoot, RequeueStale, JobIds
  <2>. QED BY <2>1 DEF Stays, Requeued, Active, ACTIVE_JOB_STATUSES
<1>6. ASSUME NEW k \in JobIds, Claim(k) PROVE Stays
  <2>1. Updated(k, "running")
    BY <1>6, SetStatusUpdates DEF InHand, Claim, JobStatuses
  <2>2. Active(k)
    BY <1>6 DEF Claim, OldestClaimable, Claimable, Active, ACTIVE_JOB_STATUSES
  <2>. QED BY <2>1, <2>2, UpdatedStays
<1>7. CASE Succeed \/ Raise
  <2>1. worker.pc \notin Resting
    BY <1>7 DEF Succeed, Raise, MayRaise, HandlerPcs, Resting, At
  <2>2. PICK s : Updated(worker.job, s)
    BY <1>7, <2>1, HandRow, SetStatusUpdates, FailRowUpdates DEF InHand, Succeed, Raise, JobStatuses
  <2>. QED BY <2>1, <2>2, HandRow, BusyActive, UpdatedStays
<1>8. CASE HandlerStep
  <2>1. CASE UNCHANGED jobs
    BY <2>1, <1>1
  <2>2. CASE PowerExit \/ ProbeDone \/ Backup \/ Release
    BY <2>2, <1>3 DEF PowerExit, ProbeDone, Backup, Release, At, Resting
  <2>3. CASE Publish
    <3>1. worker.pc \notin Resting /\ jobs \in Seq(Job)
      BY <2>3 DEF Publish, At, Resting, InHand, TypeOK
    <3> DEFINE q == Record(worker.job)
               row == NewJob("await_ready", Srv, FALSE, 0)
    <3>2. row \in Job /\ q \in Seq(Job) /\ jobs' = Append(q, row)
      BY <2>3, <3>1, HandRow, NewJobTyped, RecordUpdates DEF Publish, InHand, JobTypes
    <3>3. Len(q) = Len(jobs) /\ \A k \in JobIds : k # worker.job => q[k] = jobs[k]
      BY <3>1, RecordStays
    <3>. HIDE DEF q, row
    <3>4. \A k \in JobIds : k \in JobIds' /\ jobs'[k] = q[k]
      BY <3>1, <3>2, <3>3, AddRow DEF JobIds
    <3>. QED BY <3>1, <3>3, <3>4, BusyActive DEF Stays
  <2>4. CASE ProbeAgain
    <3>1. Me \in Job /\ Srv \in Instances
      BY <2>4, HandRow DEF ProbeAgain, At, Resting
    <3>2. Me.poll + 1 \in Nat /\ "await_ready" \in JobTypes
      BY <3>1 DEF Job, JobTypes
    <3>. QED BY <2>4, <3>1, <3>2, <1>2 DEF ProbeAgain
  <2>. QED BY <1>8, <2>1, <2>2, <2>3, <2>4
           DEF HandlerStep, Enter, PowerAct, PowerOff, Delete, Reclone, ApplyPlan, RestoreDisk,
               Repin, PickVmid, Clone, Configure, StartVm, ProbeMoot
<1>9. CASE Crash
  BY <1>9, <1>1 DEF Crash
<1>10. CASE Environment
  <2>1. ASSUME NEW k \in JobIds, RunAfterPasses(k) PROVE Stays
    <3>1. Updated(k, jobs[k].status) /\ Active(k)
      BY <2>1, BecomeDueUpdates
         DEF InHand, RunAfterPasses, BecomeDue, Active, ACTIVE_JOB_STATUSES
    <3>. QED BY <3>1, UpdatedStays
  <2>2. ASSUME NEW i \in Instances, NEW t \in PxTasks, TaskRuns(i, t) PROVE Stays
    BY <2>2, <1>1 DEF TaskRuns
  <2>3. ASSUME NEW i \in Instances, PowerDrift(i) PROVE Stays
    BY <2>3, <1>1 DEF PowerDrift
  <2>. QED BY <1>10, <2>1, <2>2, <2>3 DEF Environment
<1>11. CASE UNCHANGED vars
  BY <1>11, <1>1 DEF vars
<1>. QED BY <1>4, <1>5, <1>6, <1>7, <1>8, <1>9, <1>10, <1>11 DEF Next, WorkerStep

(* A settled row is history: neither a retry, nor the recovery after a     *)
(* crash, nor a later request touches it again.                            *)
THEOREM SettledRowsStay == Spec => SettledStays
<1>1. Inv /\ [Next]_vars =>
        [\A k \in JobIds : ~Active(k) => k \in JobIds' /\ jobs'[k] = jobs[k]]_vars
  BY InvInHand, NextStays DEF Stays
<1>. QED BY <1>1, InvAlways, PTL DEF Spec, SettledStays

-----------------------------------------------------------------------------
(* The statuses seen from outside: steps of Lifecycle are steps of         *)
(* StatusMachine or leave the statuses alone.                              *)
LEMMA SameTable ==
    /\ Contract!ALL_STATES = ALL_STATES
    /\ Contract!TERMINAL_STATES = TERMINAL_STATES
    /\ \A from, to : Contract!CanTransition(from, to) <=> CanTransition(from, to)
BY DEF Contract!ALL_STATES, ALL_STATES, Contract!TERMINAL_STATES, TERMINAL_STATES,
       Contract!CanTransition, CanTransition, Contract!TRANSITIONS, TRANSITIONS

LEMMA TargetsAreStates ==
    ASSUME NEW from, NEW to, CanTransition(from, to)
    PROVE  from \in ALL_STATES /\ to \in ALL_STATES
BY DEF CanTransition, TRANSITIONS, ALL_STATES

LEMMA MoveMaps ==
    ASSUME Inv, worker.pc \notin Resting, NEW s, CanTransition(worker.seen, s),
           status' = [status EXCEPT ![Srv] = s]
    PROVE  Contract!Next
<1>1. /\ Srv \in Instances /\ CanTransition(status[Srv], s) /\ s \in ALL_STATES
  BY BusyRow, TargetsAreStates
<1>2. Contract!Move(Srv)
  BY <1>1, SameTable DEF Contract!Move
<1>. QED BY <1>1, <1>2 DEF Contract!Next

LEMMA StepMaps ==
    ASSUME Inv, [Next]_vars
    PROVE  [Contract!Next]_status
<1>1. ASSUME NEW i \in Instances, Provision(i) PROVE Contract!Next
  BY <1>1 DEF Provision, Contract!Next, Contract!Create
<1>2. CASE Raise
  <2>1. worker.pc \notin Resting
    BY <1>2 DEF Raise, MayRaise, HandlerPcs, Resting, At
  <2>2. CASE status' = status
    BY <2>2
  <2>3. CASE status' # status
    <3>1. /\ status[Srv] \notin TERMINAL_STATES /\ status[Srv] \in ALL_STATES
          /\ status' = [status EXCEPT ![Srv] = "error"] /\ Srv \in Instances
      BY <1>2, <2>1, <2>3, BusyRow DEF Raise
    <3>. QED BY <3>1, SameTable DEF Contract!Next, Contract!ForceError
  <2>. QED BY <2>2, <2>3
<1>3. CASE Enter
  <2>1. worker.pc \notin Resting
    BY <1>3 DEF Enter, At, Resting
  <2>. QED BY <1>3, <2>1, MoveMaps DEF Enter
<1>4. CASE PowerExit
  BY <1>4, MoveMaps DEF PowerExit, At, Resting
<1>5. CASE Publish
  BY <1>5, MoveMaps DEF Publish, At, Resting
<1>6. CASE ProbeDone
  <2>1. CanTransition(worker.seen, "running") /\ worker.pc \notin Resting
    BY <1>6 DEF ProbeDone, At, Resting, CanTransition, TRANSITIONS, ALL_STATES
  <2>. QED BY <1>6, <2>1, MoveMaps DEF ProbeDone
<1>7. CASE Release
  BY <1>7, MoveMaps DEF Release, At, Resting
<1>8. CASE HandlerStep
  <2>1. CASE UNCHANGED status
    BY <2>1
  <2>. QED BY <1>8, <1>3, <1>4, <1>5, <1>6, <1>7, <2>1
           DEF HandlerStep, PowerAct, PowerOff, Delete, Reclone, ApplyPlan, RestoreDisk,
               Repin, PickVmid, Clone, Configure, StartVm, ProbeMoot, ProbeAgain, Backup
<1>9. CASE WorkerStep
  BY <1>2, <1>8, <1>9 DEF WorkerStep, WorkerBoot, Claim, Succeed
<1>10. CASE RequestStep
  BY <1>1, <1>10 DEF RequestStep, ApiRead, ApiCheck, ApiInsert
<1>11. CASE Crash \/ Environment \/ UNCHANGED vars
  BY <1>11 DEF Crash, Environment, TaskRuns, PowerDrift, RunAfterPasses, vars
<1>. QED BY <1>9, <1>10, <1>11 DEF Next

(* The statuses users observe follow StatusMachine: one row insertion, the *)
(* transitions of the table, and error forced by a dead job, although the  *)
(* handlers check the table on the status they loaded, not on the row.     *)
THEOREM ImplementsStatusMachine == Spec => RefinesStatusMachine
<1>1. Init => Contract!Init
  BY DEF Init, Contract!Init
<1>2. Inv /\ [Next]_vars => [Contract!Next]_status
  BY StepMaps
<1>. QED BY <1>1, <1>2, InvAlways, PTL DEF Spec, RefinesStatusMachine, Contract!Spec

-----------------------------------------------------------------------------
(* What a step does to the table: rows keep their type and their server,   *)
(* settled ones stay settled, and only three kinds of rows are added.      *)
RowsStep ==
    /\ \A k \in JobIds : k \in JobIds' /\ Kept(k) /\ (Active(k)' => Active(k))
    /\ \A k \in JobIds' : k \notin JobIds =>
          \/ jobs'[k].type = "await_ready"
          \/ \E i \in Instances : /\ Provision(i)
                                  /\ jobs'[k].type = "create" /\ jobs'[k].inst = i
          \/ \E t \in Threads : /\ api[t].pc = "checked"
                                /\ jobs'[k].type = api[t].verb /\ jobs'[k].inst = api[t].inst

LEMMA UpdatedKeeps ==
    ASSUME NEW k \in JobIds, NEW s, Updated(k, s)
    PROVE  JobIds' = JobIds /\ \A j \in JobIds : Kept(j)
BY DEF Updated, JobIds

LEMMA RecordKeeps ==
    ASSUME TypeOK, worker.job \in JobIds, jobs' = Record(worker.job)
    PROVE  JobIds' = JobIds /\ \A j \in JobIds : Kept(j)
BY RecordUpdates DEF JobIds, Kept

LEMMA AddedKeeps ==
    ASSUME TypeOK, NEW type, NEW i, Added(type, i)
    PROVE  /\ \A j \in JobIds : j \in JobIds' /\ Kept(j)
           /\ \A k \in JobIds' : k \notin JobIds => jobs'[k].type = type /\ jobs'[k].inst = i
<1>1. Len(jobs) \in Nat /\ Len(jobs') = Len(jobs) + 1
  BY DEF TypeOK, Added
<1>2. \A j \in JobIds : j \in JobIds'
  BY <1>1 DEF JobIds
<1>3. \A k \in JobIds' : k \notin JobIds => k = Len(jobs) + 1
  BY <1>1 DEF JobIds
<1>. QED BY <1>2, <1>3 DEF Added

LEMMA NextRows ==
    ASSUME InHand, [Next]_vars
    PROVE  RowsStep
<1> DEFINE Same == \A j \in JobIds : j \in JobIds' /\ Kept(j)
           New  == \A k \in JobIds' : k \notin JobIds =>
                      \/ jobs'[k].type = "await_ready"
                      \/ \E i \in Instances : /\ Provision(i)
                                             /\ jobs'[k].type = "create" /\ jobs'[k].inst = i
                      \/ \E t \in Threads : /\ api[t].pc = "checked"
                                            /\ jobs'[k].type = api[t].verb
                                            /\ jobs'[k].inst = api[t].inst
<1>. SUFFICES Same /\ New
  BY NextStays DEF RowsStep, Stays, Active
<1>1. ASSUME UNCHANGED jobs PROVE Same /\ New
  BY <1>1 DEF JobIds, Kept
<1>2. ASSUME NEW k \in JobIds, NEW s, Updated(k, s) PROVE Same /\ New
  BY <1>2, UpdatedKeeps
<1>3. ASSUME worker.pc \notin Resting, jobs' = Record(worker.job) PROVE Same /\ New
  BY <1>3, HandRow, RecordKeeps DEF InHand
<1>4. ASSUME NEW i \in Instances, Provision(i) PROVE Same /\ New
  <2>1. Added("create", i)
    BY <1>4, AppendAdds DEF InHand, Provision, Insert, JobTypes
  <2>2. Same /\ \A k \in JobIds' : k \notin JobIds => /\ jobs'[k].type = "create"
                                                     /\ jobs'[k].inst = i
    BY <2>1, AddedKeeps DEF InHand
  <2>. QED BY <1>4, <2>2
<1>5. ASSUME NEW t \in Threads, ApiInsert(t) PROVE Same /\ New
  <2>1. api[t].verb \in JobTypes /\ api[t].inst \in Instances /\ api[t].pc = "checked"
    BY <1>5 DEF ApiInsert, InHand, TypeOK, Request, IdleRequest, JobTypes
  <2>2. Added(api[t].verb, api[t].inst)
    BY <1>5, <2>1, AppendAdds DEF InHand, ApiInsert, Insert
  <2>. QED BY <2>1, <2>2, AddedKeeps DEF InHand
<1>6. CASE Publish
  <2>1. Added("await_ready", Srv)
    BY <1>6, HandRow, PublishAdds DEF InHand, Publish, At, Resting
  <2>. QED BY <2>1, AddedKeeps DEF InHand
<1>7. CASE ProbeAgain
  <2>1. Me \in Job /\ Srv \in Instances
    BY <1>7, HandRow DEF ProbeAgain, At, Resting
  <2>2. Me.poll + 1 \in Nat /\ "await_ready" \in JobTypes
    BY <2>1 DEF Job, JobTypes
  <2>3. Added("await_ready", Srv)
    BY <1>7, <2>1, <2>2, AppendAdds DEF InHand, ProbeAgain
  <2>. QED BY <2>3, AddedKeeps DEF InHand
<1>8. CASE HandlerStep
  <2>1. CASE UNCHANGED jobs
    BY <2>1, <1>1
  <2>2. CASE PowerExit \/ ProbeDone \/ Backup \/ Release
    BY <2>2, <1>3 DEF PowerExit, ProbeDone, Backup, Release, At, Resting
  <2>. QED BY <1>6, <1>7, <1>8, <2>1, <2>2
           DEF HandlerStep, Enter, PowerAct, PowerOff, Delete, Reclone, ApplyPlan, RestoreDisk,
               Repin, PickVmid, Clone, Configure, StartVm, ProbeMoot
<1>9. CASE WorkerStep
  <2>1. CASE WorkerBoot
    BY <2>1, RequeueKeeps DEF InHand, WorkerBoot, JobIds
  <2>2. ASSUME NEW k \in JobIds, Claim(k) PROVE Same /\ New
    BY <2>2, <1>2, SetStatusUpdates DEF InHand, Claim, JobStatuses
  <2>3. CASE Succeed \/ Raise
    <3>1. worker.pc \notin Resting
      BY <2>3 DEF Succeed, Raise, MayRaise, HandlerPcs, Resting, At
    <3>. QED BY <1>2, <2>3, <3>1, HandRow, SetStatusUpdates, FailRowUpdates
             DEF InHand, Succeed, Raise, JobStatuses
  <2>. QED BY <1>8, <1>9, <2>1, <2>2, <2>3 DEF WorkerStep
<1>10. CASE RequestStep
  BY <1>1, <1>4, <1>5, <1>10 DEF RequestStep, ApiRead, ApiCheck
<1>11. CASE Environment
  <2>1. ASSUME NEW k \in JobIds, RunAfterPasses(k) PROVE Same /\ New
    BY <2>1, <1>2, BecomeDueUpdates DEF InHand, RunAfterPasses
  <2>. QED BY <1>1, <1>11, <2>1 DEF Environment, TaskRuns, PowerDrift
<1>12. CASE Crash \/ UNCHANGED vars
  BY <1>1, <1>12 DEF Crash, vars
<1>. QED BY <1>9, <1>10, <1>11, <1>12 DEF Next
-----------------------------------------------------------------------------
(* The effect of a job is recorded once as long as the worker has not      *)
(* crashed: a row whose success is recorded has succeeded, or its worker   *)
(* has nothing left to do but to say so.                                   *)
AppliedInv ==
    crashes = 0 =>
        /\ ~At("down")
        /\ \A k \in JobIds :
              /\ jobs[k].applied \in {0, 1}
              /\ jobs[k].applied = 1 => jobs[k].status = "succeeded" \/ Finished(k)

(* How the count of a row changes: it starts at zero and only the final    *)
(* commit of the handler at work raises it.                                *)
Recorded(k) ==
    /\ k = worker.job /\ worker.pc \notin Resting \cup {"succeed"}
    /\ jobs'[k].applied = jobs[k].applied + 1
    /\ worker'.job = k /\ worker'.pc = "succeed"

AppliedStep ==
    \A k \in JobIds' :
        IF k \in JobIds THEN jobs'[k].applied = jobs[k].applied \/ Recorded(k)
                        ELSE jobs'[k].applied = 0

LEMMA SetStatusApplied ==
    ASSUME TypeOK, NEW k \in JobIds, NEW s \in JobStatuses, SetStatus(k, s)
    PROVE  AppliedStep
<1>1. [jobs[k] EXCEPT !.status = s].applied = jobs[k].applied
  BY RowAt DEF Job
<1>2. [jobs[k] EXCEPT !.status = s] \in Job
  BY RowAt, RowStatus
<1>. QED BY <1>1, <1>2, RowAt, SetRow DEF SetStatus, TypeOK, JobIds, AppliedStep

LEMMA FailRowApplied ==
    ASSUME TypeOK, NEW k \in JobIds, FailRow(k)
    PROVE  AppliedStep
<1> DEFINE s   == IF Exhausted(k) THEN "dead" ELSE "failed"
           d   == IF Exhausted(k) THEN jobs[k].due ELSE FALSE
           row == FailedRow(jobs[k], s, d)
<1>1. jobs' = [jobs EXCEPT ![k] = row]
  BY DEF FailRow, FailedRow
<1>2. s \in JobStatuses /\ jobs[k] \in Job
  BY RowAt DEF JobStatuses
<1>3. d \in BOOLEAN
  BY <1>2 DEF Job
<1>. HIDE DEF s, d
<1>4. row \in Job
  BY <1>2, <1>3, RowFailed
<1>5. row.applied = jobs[k].applied
  BY <1>2 DEF FailedRow, Job
<1>. HIDE DEF row
<1>. QED BY <1>1, <1>4, <1>5, RowAt, SetRow DEF TypeOK, JobIds, AppliedStep

LEMMA BecomeDueApplied ==
    ASSUME TypeOK, NEW k \in JobIds, BecomeDue(k)
    PROVE  AppliedStep
<1> DEFINE row == [jobs[k] EXCEPT !.due = TRUE]
<1>1. jobs' = [jobs EXCEPT ![k] = row]
  BY DEF BecomeDue
<1>2. row \in Job /\ row.applied = jobs[k].applied
  BY RowAt DEF Job
<1>. QED BY <1>1, <1>2, RowAt, SetRow DEF TypeOK, JobIds, AppliedStep

LEMMA RecordApplied ==
    ASSUME TypeOK, NEW k \in JobIds
    PROVE  /\ Record(k)[k].applied = jobs[k].applied + 1
           /\ \A j \in JobIds : j # k => Record(k)[j] = jobs[j]
<1> DEFINE row == [jobs[k] EXCEPT !.applied = @ + 1]
<1>1. Record(k) = [jobs EXCEPT ![k] = row]
  BY DEF Record
<1>2. row \in Job /\ row.applied = jobs[k].applied + 1
  BY RowAt DEF Job
<1>. QED BY <1>1, <1>2, RowAt, SetRow DEF TypeOK, JobIds

LEMMA AppendApplied ==
    ASSUME TypeOK, NEW type \in JobTypes, NEW i \in Instances, NEW due \in BOOLEAN,
           NEW poll \in Nat, jobs' = Append(jobs, NewJob(type, i, due, poll))
    PROVE  AppliedStep
<1>1. NewJob(type, i, due, poll) \in Job /\ NewJob(type, i, due, poll).applied = 0
  BY NewJobTyped DEF NewJob
<1>2. Len(jobs) \in Nat /\ \A k \in JobIds' : k \notin JobIds => k = Len(jobs) + 1
  BY <1>1, AddRow DEF TypeOK, JobIds
<1>. QED BY <1>1, <1>2, AddRow DEF TypeOK, JobIds, AppliedStep

LEMMA NextApplied ==
    ASSUME InHand, [Next]_vars
    PROVE  AppliedStep
<1>1. ASSUME UNCHANGED jobs PROVE AppliedStep
  BY <1>1 DEF JobIds, AppliedStep
<1>2. ASSUME NEW i \in Instances, Provision(i) PROVE AppliedStep
  BY <1>2, AppendApplied DEF InHand, Provision, Insert, JobTypes
<1>3. ASSUME NEW t \in Threads, ApiInsert(t) PROVE AppliedStep
  <2>1. api[t].verb \in JobTypes /\ api[t].inst \in Instances
    BY <1>3 DEF ApiInsert, InHand, TypeOK, Request, IdleRequest, JobTypes
  <2>. QED BY <1>3, <2>1, AppendApplied DEF InHand, ApiInsert, Insert
<1>4. CASE PowerExit \/ ProbeDone \/ Backup \/ Release
  <2>1. worker.pc \notin Resting \cup {"succeed"} /\ jobs' = Record(worker.job)
    BY <1>4 DEF PowerExit, ProbeDone, Backup, Release, At, Resting
  <2>2. worker'.pc = "succeed" /\ worker'.job = worker.job
    BY <1>4 DEF PowerExit, ProbeDone, Backup, Release, GoTo, InHand, TypeOK, Worker
  <2>3. worker.job \in JobIds
    BY <2>1, HandRow
  <2>. QED BY <2>1, <2>2, <2>3, RecordApplied, RecordKeeps DEF InHand, AppliedStep, Recorded
<1>5. CASE Publish
  <2> DEFINE q   == Record(worker.job)
             row == NewJob("await_ready", Srv, FALSE, 0)
  <2>1. /\ worker.pc \notin Resting \cup {"succeed"} /\ jobs' = Append(q, row)
        /\ worker'.pc = "succeed" /\ worker'.job = worker.job
    BY <1>5 DEF Publish, At, Resting, GoTo, InHand, TypeOK, Worker
  <2>2. /\ worker.job \in JobIds /\ Len(jobs) \in Nat
        /\ q \in Seq(Job) /\ Len(q) = Len(jobs)
    BY <2>1, HandRow, RecordUpdates DEF InHand, TypeOK
  <2>6. row \in Job /\ row.applied = 0
    <3>1. Srv \in Instances /\ "await_ready" \in JobTypes
      BY <2>1, HandRow DEF JobTypes
    <3>. QED BY <3>1, NewJobTyped DEF NewJob
  <2>3. /\ q[worker.job].applied = jobs[worker.job].applied + 1
        /\ \A j \in JobIds : j # worker.job => q[j] = jobs[j]
    BY <2>2, RecordApplied DEF InHand
  <2>. HIDE DEF q, row
  <2>4. /\ JobIds' = 1 .. Len(jobs) + 1 /\ jobs'[Len(jobs) + 1] = row
        /\ \A j \in JobIds : jobs'[j] = q[j]
    BY <2>1, <2>2, <2>6, AddRow DEF JobIds
  <2>5. \A k \in JobIds' : k \notin JobIds => k = Len(jobs) + 1
    BY <2>2, <2>4 DEF JobIds
  <2>. QED BY <2>1, <2>2, <2>3, <2>4, <2>5, <2>6 DEF AppliedStep, Recorded
<1>6. CASE ProbeAgain
  <2>1. Me \in Job /\ Srv \in Instances
    BY <1>6, HandRow DEF ProbeAgain, At, Resting
  <2>2. Me.poll + 1 \in Nat /\ "await_ready" \in JobTypes
    BY <2>1 DEF Job, JobTypes
  <2>. QED BY <1>6, <2>1, <2>2, AppendApplied DEF InHand, ProbeAgain
<1>7. CASE HandlerStep
  BY <1>1, <1>4, <1>5, <1>6, <1>7
     DEF HandlerStep, Enter, PowerAct, PowerOff, Delete, Reclone, ApplyPlan, RestoreDisk,
         Repin, PickVmid, Clone, Configure, StartVm, ProbeMoot
<1>8. CASE WorkerStep
  <2>1. CASE WorkerBoot
    <3>1. \A k \in JobIds : Requeued(jobs[k]).applied = jobs[k].applied
      BY RowAt DEF InHand, Requeued, Job
    <3>. QED BY <2>1, <3>1 DEF WorkerBoot, RequeueStale, JobIds, AppliedStep, InHand, TypeOK
  <2>2. ASSUME NEW k \in JobIds, Claim(k) PROVE AppliedStep
    BY <2>2, SetStatusApplied DEF InHand, Claim, JobStatuses
  <2>3. CASE Succeed \/ Raise
    <3>1. worker.pc \notin Resting
      BY <2>3 DEF Succeed, Raise, MayRaise, HandlerPcs, Resting, At
    <3>. QED BY <2>3, <3>1, HandRow, SetStatusApplied, FailRowApplied
             DEF InHand, Succeed, Raise, JobStatuses
  <2>. QED BY <1>7, <1>8, <2>1, <2>2, <2>3 DEF WorkerStep
<1>9. CASE RequestStep
  BY <1>1, <1>2, <1>3, <1>9 DEF RequestStep, ApiRead, ApiCheck
<1>10. CASE Environment
  <2>1. ASSUME NEW k \in JobIds, RunAfterPasses(k) PROVE AppliedStep
    BY <2>1, BecomeDueApplied DEF InHand, RunAfterPasses
  <2>. QED BY <1>1, <1>10, <2>1 DEF Environment, TaskRuns, PowerDrift
<1>11. CASE Crash \/ UNCHANGED vars
  BY <1>1, <1>11 DEF Crash, vars
<1>. QED BY <1>8, <1>9, <1>10, <1>11 DEF Next

(* Where the worker can be after it was done with a row. *)
LEMMA FinishedStep ==
    ASSUME InHand, [Next]_vars, crashes' = crashes, worker.pc = "succeed"
    PROVE  UNCHANGED worker \/ (worker.job \in JobIds' /\ jobs'[worker.job].status = "succeeded")
<1>1. worker.job \in JobIds
  BY HandRow DEF Resting
<1>2. ~WorkerBoot /\ ~Raise /\ ~HandlerStep /\ \A k \in JobIds : ~Claim(k)
  BY DEF WorkerBoot, Raise, MayRaise, HandlerPcs, Claim, At, HandlerStep, Enter, PowerAct,
         PowerExit, PowerOff, Delete, Reclone, ApplyPlan, RestoreDisk, Repin, PickVmid, Clone,
         Configure, StartVm, Publish, ProbeMoot, ProbeDone, ProbeAgain, Backup, Release
<1>3. ~Crash
  BY DEF Crash, InHand, TypeOK
<1>4. CASE Succeed
  BY <1>1, <1>4, SetStatusUpdates DEF InHand, Succeed, JobStatuses, Updated, JobIds
<1>5. CASE RequestStep \/ Environment \/ UNCHANGED vars
  BY <1>5 DEF RequestStep, Provision, ApiRead, ApiCheck, ApiInsert, Environment, TaskRuns,
              PowerDrift, RunAfterPasses, vars
<1>. QED BY <1>2, <1>3, <1>4, <1>5 DEF Next, WorkerStep

(* The worker goes down only by crashing. *)
LEMMA StaysUp ==
    ASSUME InHand, [Next]_vars, crashes' = crashes, ~At("down")
    PROVE  ~At("down")'
<1>1. ~Crash
  BY DEF Crash, InHand, TypeOK
<1>2. CASE RequestStep \/ Environment \/ UNCHANGED vars
  BY <1>2 DEF RequestStep, Provision, ApiRead, ApiCheck, ApiInsert, Environment, TaskRuns,
              PowerDrift, RunAfterPasses, vars, At
<1>3. CASE HandlerStep
  <2>1. ASSUME NEW pc, NEW seen, GoTo(pc, seen), pc # "down" PROVE ~At("down")'
    BY <2>1 DEF GoTo, At, InHand, TypeOK, Worker
  <2>2. AfterOff # "down" /\ AfterGone # "down"
    BY DEF AfterOff, AfterGone
  <2>. QED BY <1>3, <2>1, <2>2
           DEF HandlerStep, Enter, PowerAct, PowerExit, PowerOff, Delete, Reclone, ApplyPlan,
               RestoreDisk, Repin, PickVmid, Clone, Configure, StartVm, Publish, ProbeMoot,
               ProbeDone, ProbeAgain, Backup, Release
<1>4. CASE WorkerBoot \/ Raise \/ Succeed \/ \E k \in JobIds : Claim(k)
  BY <1>4 DEF WorkerBoot, Raise, Succeed, Claim, FirstStep, IdleWorker, At
<1>. QED BY <1>1, <1>2, <1>3, <1>4 DEF Next, WorkerStep

LEMMA CrashesCount ==
    ASSUME InHand, [Next]_vars, crashes' = 0
    PROVE  crashes = 0
<1>1. crashes' = crashes \/ crashes' = crashes + 1
  BY DEF Next, RequestStep, Provision, ApiRead, ApiCheck, ApiInsert, Environment, TaskRuns,
         PowerDrift, RunAfterPasses, vars, Crash, WorkerStep, HandlerStep, Enter, PowerAct,
         PowerExit, PowerOff, Delete, Reclone, ApplyPlan, RestoreDisk, Repin, PickVmid, Clone,
         Configure, StartVm, Publish, ProbeMoot, ProbeDone, ProbeAgain, Backup, Release,
         WorkerBoot, Raise, Succeed, Claim
<1>. QED BY <1>1 DEF InHand, TypeOK

LEMMA NextAppliedInv ==
    ASSUME InHand, AppliedInv, [Next]_vars
    PROVE  AppliedInv'
<1>. SUFFICES ASSUME crashes' = 0 PROVE AppliedInv'
  BY DEF AppliedInv
<1>1. crashes = 0 /\ crashes' = crashes /\ ~At("down")'
  BY CrashesCount, StaysUp DEF AppliedInv
<1>. SUFFICES ASSUME NEW k \in JobIds'
              PROVE  /\ jobs'[k].applied \in {0, 1}
                     /\ jobs'[k].applied = 1 => jobs'[k].status = "succeeded" \/ Finished(k)'
  BY <1>1 DEF AppliedInv
<1>2. CASE k \notin JobIds
  BY <1>2, NextApplied DEF AppliedStep
<1>3. CASE k \in JobIds /\ Recorded(k)
  <2>1. jobs[k].status = "running" /\ ~Finished(k)
    BY <1>3, HandRow DEF Recorded, Me, Finished
  <2>2. jobs[k].applied = 0
    BY <1>1, <1>3, <2>1 DEF AppliedInv
  <2>. QED BY <1>3, <2>2 DEF Recorded, Finished
<1>4. CASE k \in JobIds /\ ~Recorded(k)
  <2>1. jobs'[k].applied = jobs[k].applied /\ jobs[k].applied \in {0, 1}
    BY <1>1, <1>4, NextApplied DEF AppliedStep, AppliedInv
  <2>2. CASE jobs[k].status = "succeeded"
    BY <1>4, <2>1, <2>2, NextStays DEF Stays, Active, ACTIVE_JOB_STATUSES
  <2>3. CASE Finished(k)
    BY <1>1, <2>1, <2>3, FinishedStep DEF Finished
  <2>. QED BY <1>1, <1>4, <2>1, <2>2, <2>3 DEF AppliedInv
<1>. QED BY <1>2, <1>3, <1>4

LEMMA AppliedOnce ==
    ASSUME InHand, AppliedInv
    PROVE  AppliedOnceUncrashed
<1>. SUFFICES ASSUME crashes = 0, NEW k \in JobIds
              PROVE  jobs[k].applied <= 1 /\ (jobs[k].applied = 1 => jobs[k].status # "dead")
  BY DEF AppliedOnceUncrashed
<1>1. Finished(k) => jobs[k].status = "running"
  BY HandRow DEF Finished, Me, Resting
<1>. QED BY <1>1 DEF AppliedInv

(* Failures, retries and races apply no job twice, and no job whose        *)
(* success is recorded ends dead, until the worker crashes.                *)
THEOREM AppliedOnceAlways == Spec => []AppliedOnceUncrashed
<1>1. Init => AppliedInv
  BY DEF Init, AppliedInv, IdleWorker, At, JobIds
<1>2. Inv /\ AppliedInv /\ [Next]_vars => AppliedInv'
  BY InvInHand, NextAppliedInv
<1>3. Inv /\ AppliedInv => AppliedOnceUncrashed
  BY InvInHand, AppliedOnce
<1>. QED BY <1>1, <1>2, <1>3, InvAlways, PTL DEF Spec
-----------------------------------------------------------------------------
(* What is true of each server, whoever works on it: an absent or unpinned *)
(* VM has no power task waiting and its status says that it is being made, *)
(* replaced or given up; all other statuses have an address.               *)
Bare         == {"absent", "raw"}
BareStatuses == { "absent", "provisioning", "rebuilding", "restoring", "destroying",
                  "destroyed", "error" }

ServerOk(v, waiting, s, h) ==
    /\ v # "exposed"
    /\ v \in Bare => waiting = {} /\ s \in BareStatuses
    /\ v # "absent" => "vmid" \in h
    /\ s = "destroyed" => h = {} /\ v = "absent"
    /\ "backup" \in h => "ip" \in h
    /\ s \notin BareStatuses => "ip" \in h

ServersOk == \A i \in Instances : ServerOk(vm[i], tasks[i], status[i], held[i])

(* A verb that does not replace or delete the VM is only ever asked of a   *)
(* server that has its address, and keeps it until it is destroyed.        *)
SettledVerbs == Verbs \ {"rebuild", "destroy"}
Addressed(i) == "ip" \in held[i] \/ status[i] = "destroyed"

RequestsOk ==
    /\ \A k \in JobIds : jobs[k].type \in SettledVerbs => Addressed(jobs[k].inst)
    /\ \A t \in Threads :
          api[t].pc # "idle" /\ api[t].verb \in SettledVerbs => Addressed(api[t].inst)

(* While its create job is active a server has no job but that one and the *)
(* readiness probes, and no request is past the check for one.  A handler  *)
(* leaves it provisioning, booting or running; stopped is what a pass of   *)
(* the reconciler may write.                                               *)
CreateStatuses == {"provisioning", "booting", "running", "stopped"}

CreateOk ==
    \A k \in JobIds : jobs[k].type = "create" /\ Active(k) =>
        /\ status[jobs[k].inst] \in CreateStatuses
        /\ \A j \in JobIds : j # k /\ jobs[j].inst = jobs[k].inst => jobs[j].type = "await_ready"
        /\ \A t \in Threads : api[t].pc = "checked" => api[t].inst # jobs[k].inst

(* What the handler has established when it reaches a step. *)
Placed(pc, type, v, s, h) ==
    /\ pc = "clone" => "vmid" \in h
    /\ pc = "configure" /\ type = "rebuild" => s = "rebuilding"
    /\ pc \in {"start_vm", "publish"} =>
          (type \in BootVerbs => s = Through[type]) /\ v # "raw" /\ "ip" \in h
    /\ pc = "publish" => v # "absent"
    /\ pc = "release" => v = "absent"

PlaceOk ==
    worker.pc \notin Resting =>
        Placed(worker.pc, Me.type, vm[Srv], status[Srv], held[Srv])

SafetyInv == ServersOk /\ RequestsOk /\ CreateOk /\ PlaceOk

-----------------------------------------------------------------------------
(* Statuses: a destroyed server stays destroyed, an absent one has no row. *)
LEMMA DestroyedStays ==
    ASSUME Inv, [Next]_vars, NEW i \in Instances, status[i] = "destroyed"
    PROVE  status'[i] = "destroyed"
<1>1. [Contract!Next]_status
  BY StepMaps
<1>2. TRANSITIONS["destroyed"] = {}
  BY DEF TRANSITIONS, ALL_STATES
<1>3. \A s : ~CanTransition("destroyed", s)
  BY <1>2 DEF CanTransition
<1>4. status \in [Instances -> RowStatuses]
  BY DEF Inv, TypeOK
<1>5. ASSUME NEW j \in Instances, Contract!Move(j) PROVE status'[i] = "destroyed"
  BY <1>3, <1>4, <1>5, SameTable DEF Contract!Move
<1>6. ASSUME NEW j \in Instances, Contract!ForceError(j) PROVE status'[i] = "destroyed"
  BY <1>4, <1>6, SameTable DEF Contract!ForceError, TERMINAL_STATES
<1>7. ASSUME NEW j \in Instances, Contract!Create(j) PROVE status'[i] = "destroyed"
  BY <1>4, <1>7 DEF Contract!Create
<1>. QED BY <1>1, <1>5, <1>6, <1>7 DEF Contract!Next

(* Assets are given up only with the server. *)
LEMMA AddressedStays ==
    ASSUME Inv, [Next]_vars, NEW i \in Instances, Addressed(i)
    PROVE  Addressed(i)'
<1>1. CASE status[i] = "destroyed"
  BY <1>1, DestroyedStays DEF Addressed
<1>2. CASE "ip" \in held[i] /\ Release
  <2>1. /\ status' = [status EXCEPT ![Srv] = "destroyed"]
        /\ held' = [held EXCEPT ![Srv] = {}]
    BY <1>2 DEF Release
  <2>2. /\ status \in [Instances -> RowStatuses]
        /\ held \in [Instances -> SUBSET Assets]
    BY DEF Inv, TypeOK
  <2>. QED BY <1>2, <2>1, <2>2 DEF Addressed
<1>3. CASE "ip" \in held[i] /\ ~Release
  <2>1. held \in [Instances -> SUBSET Assets]
    BY DEF Inv, TypeOK
  <2>2. held[i] \subseteq held'[i]
    <3>1. CASE HandlerStep
      BY <1>3, <2>1, <3>1
         DEF HandlerStep, Enter, PowerAct, PowerExit, PowerOff, Delete, Reclone, ApplyPlan,
             RestoreDisk, Repin, PickVmid, Clone, Configure, StartVm, Publish, ProbeMoot,
             ProbeDone, ProbeAgain, Backup
    <3>2. CASE ~HandlerStep
      BY <3>2 DEF Next, RequestStep, Provision, ApiRead, ApiCheck, ApiInsert, Environment,
                  TaskRuns, PowerDrift, RunAfterPasses, vars, Crash, WorkerStep, WorkerBoot,
                  Raise, Succeed, Claim
    <3>. QED BY <3>1, <3>2
  <2>. QED BY <1>3, <2>2 DEF Addressed
<1>. QED BY <1>1, <1>2, <1>3 DEF Addressed

(* A row or a request that comes to be is of an addressed server. *)
LEMMA ReadIsAddressed ==
    ASSUME Inv, ServersOk, NEW t \in Threads, NEW i \in Instances, NEW v \in SettledVerbs,
           ApiRead(t, i, v)
    PROVE  Addressed(i)
<1>1. /\ status[i] \in VERB_FROM_STATES[v] /\ status[i] # "absent"
      /\ v = "restore_backup" => "backup" \in held[i]
      /\ ServerOk(vm[i], tasks[i], status[i], held[i])
  BY DEF ApiRead, CanEnqueue, ServersOk
<1>2. v # "restore_backup" => VERB_FROM_STATES[v] \subseteq {"running", "stopped"}
  BY DEF VERB_FROM_STATES, SettledVerbs, Verbs, PowerVerbs, BootVerbs
<1>. QED BY <1>1, <1>2 DEF ServerOk, BareStatuses, Addressed

LEMMA NextRequestsOk ==
    ASSUME Inv, ServersOk, RequestsOk, [Next]_vars
    PROVE  RequestsOk'
<1>1. \A i \in Instances : Addressed(i) => Addressed(i)'
  BY AddressedStays
<1>2. ASSUME NEW k \in JobIds', jobs'[k].type \in SettledVerbs
      PROVE  Addressed(jobs[k].inst)'
  <2>1. CASE k \in JobIds
    BY <1>1, <1>2, <2>1, InvInHand, NextRows, RowAt DEF RowsStep, Kept, RequestsOk, Inv, Addressed
  <2>2. CASE k \notin JobIds
    <3>1. "create" \notin SettledVerbs /\ "await_ready" \notin SettledVerbs
      BY DEF SettledVerbs, Verbs, PowerVerbs, BootVerbs
    <3>2. PICK t \in Threads : /\ api[t].pc = "checked"
                               /\ jobs'[k].type = api[t].verb /\ jobs'[k].inst = api[t].inst
      BY <1>2, <2>2, <3>1, InvInHand, NextRows DEF RowsStep
    <3>3. Addressed(api[t].inst) /\ api[t].inst \in Instances
      BY <1>2, <3>2 DEF RequestsOk, Inv, TypeOK, Request, IdleRequest
    <3>. QED BY <1>1, <3>2, <3>3 DEF Addressed
  <2>. QED BY <2>1, <2>2
<1>3. ASSUME NEW t \in Threads, api'[t].pc # "idle", api'[t].verb \in SettledVerbs
      PROVE  Addressed(api[t].inst)'
  <2>1. ASSUME api[t].pc # "idle", api'[t].inst = api[t].inst, api'[t].verb = api[t].verb
        PROVE  Addressed(api[t].inst)'
    <3>1. api[t].inst \in Instances /\ Addressed(api[t].inst)
      BY <1>3, <2>1 DEF RequestsOk, Inv, TypeOK, Request, IdleRequest
    <3>. QED BY <1>1, <2>1, <3>1 DEF Addressed
  <2>2. ASSUME UNCHANGED api PROVE Addressed(api[t].inst)'
    BY <1>3, <2>1, <2>2
  <2>3. ASSUME NEW u \in Threads, NEW i \in Instances, NEW v \in UserVerbs, ApiRead(u, i, v)
        PROVE  Addressed(api[t].inst)'
    <3>1. CASE u = t
      <4>1. api'[t].inst = i /\ api'[t].verb = v
        BY <2>3, <3>1 DEF ApiRead, Inv, TypeOK
      <4>2. Addressed(i)
        BY <1>3, <2>3, <4>1, ReadIsAddressed
      <4>. QED BY <1>1, <4>1, <4>2 DEF Addressed
    <3>2. CASE u # t
      <4>1. api'[t] = api[t]
        BY <2>3, <3>2 DEF ApiRead, Inv, TypeOK
      <4>. QED BY <1>3, <2>1, <4>1
    <3>. QED BY <3>1, <3>2
  <2>4. ASSUME NEW u \in Threads, ApiCheck(u) PROVE Addressed(api[t].inst)'
    <3>1. api[u] \in Request
      BY <2>4 DEF ApiCheck, Inv, TypeOK, IdleRequest
    <3>2. CASE u = t
      <4>1. api'[t] = IdleRequest \/ api'[t] = [api[t] EXCEPT !.pc = "checked"]
        BY <2>4, <3>2 DEF ApiCheck, Inv, TypeOK
      <4>2. api'[t].inst = api[t].inst /\ api'[t].verb = api[t].verb /\ api[t].pc # "idle"
        BY <1>3, <3>1, <3>2, <4>1 DEF IdleRequest, Request
      <4>. QED BY <2>1, <4>2
    <3>3. CASE u # t
      <4>1. api'[t] = api[t]
        BY <2>4, <3>3 DEF ApiCheck, Inv, TypeOK
      <4>. QED BY <1>3, <2>1, <4>1
    <3>. QED BY <3>2, <3>3
  <2>5. ASSUME NEW u \in Threads, ApiInsert(u) PROVE Addressed(api[t].inst)'
    <3>1. api'[t] = IdleRequest \/ api'[t] = api[t]
      BY <2>5 DEF ApiInsert, Inv, TypeOK
    <3>. QED BY <1>3, <2>1, <3>1 DEF IdleRequest
  <2>6. CASE RequestStep
    BY <2>2, <2>3, <2>4, <2>5, <2>6 DEF RequestStep, Provision
  <2>7. CASE ~RequestStep
    BY <2>2, <2>7 DEF Next, HandlerStep, Enter, PowerAct, PowerExit, PowerOff, Delete, Reclone,
             ApplyPlan, RestoreDisk, Repin, PickVmid, Clone, Configure, StartVm, Publish,
             ProbeMoot, ProbeDone, ProbeAgain, Backup, Release, Environment, TaskRuns,
             PowerDrift, RunAfterPasses, vars, Crash, WorkerStep, WorkerBoot, Raise, Succeed,
             Claim
  <2>. QED BY <2>6, <2>7
<1>. QED BY <1>2, <1>3 DEF RequestsOk
(***************************************************************************)
(* How a server is created is also true beside the reconciler, so it is    *)
(* said of less than Inv: the rows exist, and the worker is at a step that *)
(* fits its job, whatever status it has loaded.                            *)
(***************************************************************************)
StepOk == worker.pc \notin Resting => StepFits(worker.pc, Me.type, worker.seen)

Ordered == InHand /\ RowsExist /\ StepOk

LEMMA OrderedInHand == Ordered => InHand
BY DEF Ordered

LEMMA InvOrdered == Inv => Ordered
BY InvInHand DEF Inv, BusyInv, Ordered, StepOk

LEMMA FitRow ==
    ASSUME Ordered, worker.pc \notin Resting
    PROVE  /\ worker.job \in JobIds /\ Me \in Job /\ Srv \in Instances
           /\ StepFits(worker.pc, Me.type, worker.seen)
BY HandRow DEF Ordered, StepOk

(* What happens to the status of a server that is being created. *)
LEMMA CreatedStatus ==
    ASSUME Ordered, CreateOk, [Next]_vars, NEW k \in JobIds, jobs[k].type = "create",
           Active(k), Active(k)'
    PROVE  status'[jobs[k].inst] \in CreateStatuses
<1>. USE DEF CreateStatuses
<1> DEFINE i == jobs[k].inst
<1>1. /\ i \in Instances /\ status[i] \in CreateStatuses
      /\ status \in [Instances -> RowStatuses]
      /\ \A j \in JobIds : j # k /\ jobs[j].inst = i => jobs[j].type = "await_ready"
  BY RowAt DEF Ordered, InHand, TypeOK, CreateOk
<1>2. CASE status'[i] = status[i]
  BY <1>1, <1>2
<1>3. ASSUME NEW j \in Instances, Provision(j) PROVE status'[i] = status[i]
  BY <1>1, <1>3 DEF Provision
<1>4. ASSUME worker.pc \notin Resting, Srv = i
      PROVE  Me.type = "await_ready" \/ (worker.job = k /\ Me.type = "create")
  BY <1>1, <1>4, FitRow DEF Srv, Me
<1>5. CASE Raise /\ status'[i] # status[i]
  <2>1. worker.pc \notin Resting /\ worker.pc \in HandlerPcs \ {"probe"}
    BY <1>5 DEF Raise, MayRaise, HandlerPcs, Resting, At
  <2>2. Exhausted(worker.job) /\ Srv = i /\ FailRow(worker.job)
    BY <1>1, <1>5 DEF Raise
  <2>3. worker.job = k
    BY <1>4, <2>1, <2>2, FitRow
       DEF StepFits, HandlerPcs, Through, PowerVerbs, BootVerbs
  <2>4. jobs'[k].status = "dead"
    BY <2>2, <2>3, FailRowUpdates DEF Ordered, InHand, Updated
  <2>. QED BY <2>4 DEF Active, ACTIVE_JOB_STATUSES
<1>6. CASE (Enter \/ PowerExit \/ Release) /\ status'[i] # status[i]
  <2>1. /\ worker.pc \notin Resting /\ worker.pc \in {"enter", "power_exit", "release"}
        /\ Srv = i
    BY <1>1, <1>6 DEF Enter, PowerExit, Release, At, Resting
  <2>. QED BY <1>4, <2>1, FitRow DEF StepFits, Through, PowerVerbs, BootVerbs
<1>7. CASE (Publish \/ ProbeDone) /\ status'[i] # status[i]
  BY <1>1, <1>7 DEF Publish, ProbeDone
<1>8. CASE HandlerStep
  BY <1>2, <1>6, <1>7, <1>8
     DEF HandlerStep, PowerAct, PowerOff, Delete, Reclone, ApplyPlan, RestoreDisk, Repin,
         PickVmid, Clone, Configure, StartVm, ProbeMoot, ProbeAgain, Backup
<1>9. CASE ~HandlerStep
  BY <1>2, <1>3, <1>5, <1>9
     DEF Next, RequestStep, ApiRead, ApiCheck, ApiInsert, Environment, TaskRuns, PowerDrift,
         RunAfterPasses, vars, Crash, WorkerStep, WorkerBoot, Succeed, Claim
<1>. QED BY <1>8, <1>9

(* A request gets past enqueue()'s guard only if no row is active. *)
LEMMA CheckedStep ==
    ASSUME Ordered, [Next]_vars, NEW t \in Threads, api'[t].pc = "checked"
    PROVE  api'[t] = api[t] \/ (~HasActiveJob(api'[t].inst) /\ UNCHANGED jobs)
<1>1. api \in [Threads -> { IdleRequest } \cup Request]
  BY DEF Ordered, InHand, TypeOK
<1>2. ASSUME NEW u \in Threads, NEW i \in Instances, NEW v \in UserVerbs, ApiRead(u, i, v)
      PROVE  api'[t] = api[t]
  BY <1>1, <1>2 DEF ApiRead
<1>3. ASSUME NEW u \in Threads, ApiCheck(u)
      PROVE  api'[t] = api[t] \/ (~HasActiveJob(api'[t].inst) /\ UNCHANGED jobs)
  <2>1. api[u] \in Request /\ UNCHANGED jobs
    BY <1>1, <1>3 DEF ApiCheck, IdleRequest
  <2>2. CASE u = t
    <3>1. ~HasActiveJob(api[t].inst) /\ api'[t] = [api[t] EXCEPT !.pc = "checked"]
      BY <1>1, <1>3, <2>2 DEF ApiCheck, IdleRequest
    <3>2. api'[t].inst = api[t].inst
      BY <2>1, <2>2, <3>1 DEF Request
    <3>. QED BY <2>1, <3>1, <3>2
  <2>. QED BY <1>1, <1>3, <2>2 DEF ApiCheck
<1>4. ASSUME NEW u \in Threads, ApiInsert(u) PROVE api'[t] = api[t]
  BY <1>1, <1>4 DEF ApiInsert, IdleRequest
<1>5. CASE RequestStep
  BY <1>2, <1>3, <1>4, <1>5 DEF RequestStep, Provision
<1>6. CASE ~RequestStep
  BY <1>6 DEF Next, HandlerStep, Enter, PowerAct, PowerExit, PowerOff, Delete, Reclone,
           ApplyPlan, RestoreDisk, Repin, PickVmid, Clone, Configure, StartVm, Publish,
           ProbeMoot, ProbeDone, ProbeAgain, Backup, Release, Environment, TaskRuns,
           PowerDrift, RunAfterPasses, vars, Crash, WorkerStep, WorkerBoot, Raise, Succeed,
           Claim
<1>. QED BY <1>5, <1>6

(* A create row is inserted together with its server, and alone. *)
LEMMA NewCreate ==
    ASSUME Ordered, [Next]_vars, NEW k \in JobIds', k \notin JobIds, jobs'[k].type = "create"
    PROVE  /\ status[jobs'[k].inst] = "absent" /\ status'[jobs'[k].inst] = "provisioning"
           /\ \A j \in JobIds' : j # k => j \in JobIds
           /\ UNCHANGED api
<1>1. \A t \in Threads : api[t].pc = "checked" => api[t].verb # "create"
  BY DEF Ordered, InHand, TypeOK, Request, IdleRequest, Verbs, PowerVerbs, BootVerbs
<1>2. PICK i \in Instances : Provision(i) /\ jobs'[k].inst = i
  BY <1>1, OrderedInHand, NextRows DEF RowsStep
<1>3. /\ Added("create", i) /\ status[i] = "absent" /\ status'[i] = "provisioning"
      /\ UNCHANGED api
  BY <1>2, AppendAdds DEF Ordered, InHand, TypeOK, Provision, Insert, JobTypes
<1>4. \A j \in JobIds' : j \notin JobIds => j = Len(jobs) + 1
  BY <1>3, AddedGrows DEF Ordered, InHand
<1>. QED BY <1>2, <1>3, <1>4

LEMMA NextCreateOk ==
    ASSUME Ordered, CreateOk, [Next]_vars
    PROVE  CreateOk'
<1>. USE DEF CreateStatuses
<1>. SUFFICES ASSUME NEW k \in JobIds', jobs'[k].type = "create", Active(k)'
              PROVE  /\ status'[jobs'[k].inst] \in CreateStatuses
                     /\ \A j \in JobIds' : j # k /\ jobs'[j].inst = jobs'[k].inst
                            => jobs'[j].type = "await_ready"
                     /\ \A t \in Threads :
                            api'[t].pc = "checked" => api'[t].inst # jobs'[k].inst
  BY DEF CreateOk
<1> DEFINE i == jobs'[k].inst
<1>1. CASE k \in JobIds
  <2>1. jobs[k].type = "create" /\ jobs[k].inst = i /\ Active(k) /\ i \in Instances
    BY <1>1, OrderedInHand, NextRows, RowAt DEF RowsStep, Kept, Ordered, InHand
  <2>2. /\ status[i] \in CreateStatuses
        /\ \A j \in JobIds : j # k /\ jobs[j].inst = i => jobs[j].type = "await_ready"
        /\ \A t \in Threads : api[t].pc = "checked" => api[t].inst # i
    BY <1>1, <2>1 DEF CreateOk
  <2>3. status'[i] \in CreateStatuses
    BY <1>1, <2>1, CreatedStatus
  <2>4. ASSUME NEW j \in JobIds', j # k, jobs'[j].inst = i
        PROVE  jobs'[j].type = "await_ready"
    <3>1. CASE j \in JobIds
      BY <2>2, <2>4, <3>1, OrderedInHand, NextRows DEF RowsStep, Kept
    <3>2. CASE j \notin JobIds
      <4>1. ~(\E s \in Instances : Provision(s) /\ jobs'[j].inst = s)
        BY <2>2, <2>4 DEF Provision
      <4>. QED BY <2>2, <2>4, <3>2, <4>1, OrderedInHand, NextRows DEF RowsStep
    <3>. QED BY <3>1, <3>2
  <2>5. ASSUME NEW t \in Threads, api'[t].pc = "checked"
        PROVE  api'[t].inst # i
    <3>1. HasActiveJob(i)
      BY <1>1, <2>1 DEF HasActiveJob
    <3>. QED BY <2>2, <2>5, <3>1, CheckedStep
  <2>. QED BY <2>3, <2>4, <2>5
<1>2. CASE k \notin JobIds
  <2>1. /\ status[i] = "absent" /\ status'[i] = "provisioning" /\ UNCHANGED api
        /\ \A j \in JobIds' : j # k => j \in JobIds
    BY <1>2, NewCreate
  <2>2. ASSUME NEW j \in JobIds', j # k PROVE jobs'[j].inst # i
    <3>1. j \in JobIds /\ status[jobs[j].inst] # "absent" /\ jobs'[j].inst = jobs[j].inst
      BY <2>1, <2>2, OrderedInHand, NextRows DEF Ordered, RowsExist, RowsStep, Kept
    <3>. QED BY <2>1, <3>1
  <2>3. \A t \in Threads : api'[t].pc = "checked" => api'[t].inst # i
    BY <2>1 DEF Ordered, RowsExist
  <2>. QED BY <2>1, <2>2, <2>3
<1>. QED BY <1>1, <1>2

-----------------------------------------------------------------------------
(* A step that changes one server, and leaves it in order. *)
LEMMA OneServer ==
    ASSUME ServersOk, NEW i \in Instances,
           \A j \in Instances : j # i =>
              /\ vm'[j] = vm[j] /\ tasks'[j] = tasks[j]
              /\ status'[j] = status[j] /\ held'[j] = held[j],
           ServerOk(vm'[i], tasks'[i], status'[i], held'[i])
    PROVE  ServersOk'
BY DEF ServersOk

(* The worker stays with its job and reaches a step it has prepared. *)
LEMMA AtWork ==
    ASSUME Inv, ServersOk, [Next]_vars, worker.pc \notin Resting, worker'.job = worker.job,
           \A j \in Instances : j # Srv =>
              /\ vm'[j] = vm[j] /\ tasks'[j] = tasks[j]
              /\ status'[j] = status[j] /\ held'[j] = held[j],
           ServerOk(vm'[Srv], tasks'[Srv], status'[Srv], held'[Srv]),
           Placed(worker'.pc, Me.type, vm'[Srv], status'[Srv], held'[Srv])
    PROVE  ServersOk' /\ PlaceOk'
<1>1. worker.job \in JobIds /\ Srv \in Instances
  BY BusyRow
<1>2. Me'.type = Me.type /\ Srv' = Srv
  BY <1>1, InvInHand, NextRows DEF RowsStep, Kept, Me, Srv
<1>3. ServersOk'
  BY <1>1, OneServer
<1>. QED BY <1>2, <1>3 DEF PlaceOk

(* What the worker knows of the server it works on. *)
LEMMA BusySafe ==
    ASSUME Inv, SafetyInv, worker.pc \notin Resting
    PROVE  /\ Srv \in Instances /\ vm[Srv] \in VmStates
           /\ tasks[Srv] \subseteq PxTasks /\ held[Srv] \subseteq Assets
           /\ ServerOk(vm[Srv], tasks[Srv], status[Srv], held[Srv])
           /\ Placed(worker.pc, Me.type, vm[Srv], status[Srv], held[Srv])
           /\ Me.type \in SettledVerbs => "ip" \in held[Srv] \/ status[Srv] = "destroyed"
           /\ Me.type = "create" => status[Srv] \in CreateStatuses
<1>1. Srv \in Instances /\ worker.job \in JobIds /\ Active(worker.job)
  BY BusyRow, BusyActive, InvInHand
<1>2. vm[Srv] \in VmStates /\ tasks[Srv] \subseteq PxTasks /\ held[Srv] \subseteq Assets
  BY <1>1 DEF Inv, TypeOK
<1>. QED BY <1>1, <1>2 DEF SafetyInv, ServersOk, PlaceOk, RequestsOk, CreateOk, Addressed,
             Srv, Me
-----------------------------------------------------------------------------
(* The handlers, step by step.                                             *)
LEMMA EnterSafe ==
    ASSUME Inv, SafetyInv, [Next]_vars, Enter
    PROVE  ServersOk' /\ PlaceOk'
<1>1. /\ worker.pc \notin Resting /\ worker'.job = worker.job
      /\ worker'.pc \in {"act", "power_off"} /\ UNCHANGED << held, vm, tasks >>
  BY DEF Enter, external, At, Resting, GoTo, Inv, TypeOK, Worker
<1>2. /\ ServerOk(vm[Srv], tasks[Srv], status[Srv], held[Srv]) /\ Srv \in Instances
      /\ Me.type \in DOMAIN Through \ {"create"} /\ worker.seen = status[Srv]
  BY <1>1, BusySafe, BusyRow DEF Enter, At, StepFits
<1>3. \A j \in Instances : j # Srv => status'[j] = status[j]
  BY DEF Enter, Inv, TypeOK
<1>4. \/ status'[Srv] = status[Srv]
      \/ status'[Srv] = Through[Me.type] /\ CanTransition(status[Srv], Through[Me.type])
  BY <1>2 DEF Enter, Inv, TypeOK
<1>5. Through[Me.type] \in { "starting", "stopping", "rebooting", "resizing", "rebuilding",
                             "destroying", "restoring" }
  BY <1>2 DEF Through
<1>6. CanTransition(status[Srv], Through[Me.type]) /\ status[Srv] \in BareStatuses
        => Through[Me.type] \in BareStatuses
  BY <1>5 DEF CanTransition, TRANSITIONS, ALL_STATES, BareStatuses
<1>7. ServerOk(vm[Srv], tasks[Srv], status'[Srv], held[Srv])
  BY <1>2, <1>4, <1>5, <1>6 DEF ServerOk, BareStatuses, CanTransition
<1>8. Placed(worker'.pc, Me.type, vm'[Srv], status'[Srv], held'[Srv])
  BY <1>1 DEF Placed
<1>. QED BY <1>1, <1>3, <1>7, <1>8, AtWork DEF SafetyInv

(* Power tasks are posted for a VM that is on or off. *)
LEMMA PowerActSafe ==
    ASSUME Inv, SafetyInv, [Next]_vars, PowerAct
    PROVE  ServersOk' /\ PlaceOk'
<1>1. /\ worker.pc \notin Resting /\ worker'.job = worker.job
      /\ worker'.pc = "power_exit" /\ UNCHANGED << status, held, vm >>
      /\ \A j \in Instances : j # Srv => tasks'[j] = tasks[j]
  BY DEF PowerAct, external, At, Resting, GoTo, Inv, TypeOK, Worker
<1>2. /\ ServerOk(vm[Srv], tasks[Srv], status[Srv], held[Srv]) /\ Srv \in Instances
      /\ Me.type \in PowerVerbs /\ status[Srv] = Through[Me.type]
  BY <1>1, BusySafe, BusyRow DEF PowerAct, At, StepFits
<1>3. status[Srv] \notin BareStatuses
  BY <1>2 DEF PowerVerbs, Through, BareStatuses
<1>4. ServerOk(vm[Srv], tasks'[Srv], status[Srv], held[Srv])
  BY <1>2, <1>3 DEF ServerOk
<1>5. Placed(worker'.pc, Me.type, vm'[Srv], status'[Srv], held'[Srv])
  BY <1>1 DEF Placed
<1>. QED BY <1>1, <1>4, <1>5, AtWork DEF SafetyInv

(* The final commits of handlers that leave the VM alone. *)
LEMMA EndedSafe ==
    ASSUME Inv, SafetyInv, [Next]_vars, PowerExit \/ Publish \/ ProbeDone
    PROVE  ServersOk' /\ PlaceOk'
<1> DEFINE s == status'[Srv]
<1>1. /\ worker.pc \notin Resting /\ worker'.job = worker.job
      /\ worker.pc \in {"power_exit", "publish", "probe"}
      /\ worker'.pc = "succeed" /\ UNCHANGED << held, vm, tasks >>
      /\ \A j \in Instances : j # Srv => status'[j] = status[j]
  BY DEF PowerExit, Publish, ProbeDone, external, At, Resting, GoTo, Inv, TypeOK, Worker
<1>2. /\ ServerOk(vm[Srv], tasks[Srv], status[Srv], held[Srv]) /\ Srv \in Instances
      /\ Placed(worker.pc, Me.type, vm[Srv], status[Srv], held[Srv])
      /\ worker.seen = status[Srv] /\ StepFits(worker.pc, Me.type, worker.seen)
  BY <1>1, BusySafe, BusyRow
<1>3. status'[Srv] \in {"stopped", "running", "booting"}
  <2>1. Me.type \in PowerVerbs => PowerTo[Me.type] \in {"stopped", "running"}
    BY DEF PowerTo
  <2>. QED BY <1>2, <2>1 DEF PowerExit, Publish, ProbeDone, At, StepFits, Inv, TypeOK
<1>4. vm[Srv] \notin Bare /\ "ip" \in held[Srv]
  <2>1. CASE PowerExit
    BY <1>2, <2>1 DEF PowerExit, At, StepFits, ServerOk, PowerVerbs, Through, BareStatuses
  <2>2. CASE Publish
    BY <1>2, <2>2 DEF Publish, At, Placed, Bare
  <2>3. CASE ProbeDone
    BY <1>2, <2>3 DEF ProbeDone, ServerOk, BareStatuses
  <2>. QED BY <2>1, <2>2, <2>3
<1>5. ServerOk(vm[Srv], tasks[Srv], status'[Srv], held[Srv])
  BY <1>2, <1>3, <1>4 DEF ServerOk
<1>6. Placed(worker'.pc, Me.type, vm'[Srv], status'[Srv], held'[Srv])
  BY <1>1 DEF Placed
<1>. QED BY <1>1, <1>5, <1>6, AtWork DEF SafetyInv

LEMMA PowerOffSafe ==
    ASSUME Inv, SafetyInv, [Next]_vars, PowerOff
    PROVE  ServersOk' /\ PlaceOk'
<1>1. /\ worker.pc \notin Resting /\ worker'.job = worker.job
      /\ worker'.pc \in {AfterOff, AfterGone} /\ UNCHANGED << status, held, tasks >>
      /\ \A j \in Instances : j # Srv => vm'[j] = vm[j]
  BY DEF PowerOff, At, Resting, GoTo, Inv, TypeOK, Worker
<1>2. /\ ServerOk(vm[Srv], tasks[Srv], status[Srv], held[Srv]) /\ Srv \in Instances
      /\ vm[Srv] \in VmStates
  BY <1>1, BusySafe
<1>3. vm'[Srv] = PoweredOff(vm[Srv]) \/ vm'[Srv] = vm[Srv]
  BY <1>2 DEF PowerOff, Inv, TypeOK
<1>4. ServerOk(vm'[Srv], tasks[Srv], status[Srv], held[Srv])
  BY <1>2, <1>3 DEF PoweredOff, ServerOk, VmStates, Bare
<1>5. worker'.pc = "release" => vm'[Srv] = "absent"
  <2>1. CASE Gone
    BY <1>2, <2>1 DEF PowerOff, Gone, ServerOk
  <2>2. CASE ~Gone
    BY <2>2 DEF PowerOff, AfterOff, GoTo, Inv, TypeOK, Worker
  <2>. QED BY <2>1, <2>2
<1>6. worker'.pc \in {"apply", "restore_disk", "delete", "reclone", "release"}
  BY <1>1 DEF AfterOff, AfterGone
<1>7. Placed(worker'.pc, Me.type, vm'[Srv], status'[Srv], held'[Srv])
  BY <1>5, <1>6 DEF Placed
<1>. QED BY <1>1, <1>4, <1>7, AtWork DEF SafetyInv

LEMMA DeleteSafe ==
    ASSUME Inv, SafetyInv, [Next]_vars, Delete
    PROVE  ServersOk' /\ PlaceOk'
<1>1. /\ worker.pc \notin Resting /\ worker'.job = worker.job
      /\ worker'.pc = AfterGone /\ UNCHANGED << status, held >>
      /\ \A j \in Instances : j # Srv => vm'[j] = vm[j] /\ tasks'[j] = tasks[j]
  BY DEF Delete, At, Resting, GoTo, Inv, TypeOK, Worker
<1>2. /\ ServerOk(vm[Srv], tasks[Srv], status[Srv], held[Srv]) /\ Srv \in Instances
      /\ Me.type \in {"rebuild", "destroy"} /\ status[Srv] = Through[Me.type]
  BY <1>1, BusySafe, BusyRow DEF Delete, At, StepFits
<1>3. status[Srv] \in {"rebuilding", "destroying"}
  BY <1>2 DEF Through, BootVerbs
<1>4. vm'[Srv] = "absent" /\ tasks'[Srv] = {}
  BY <1>2 DEF Delete, Inv, TypeOK
<1>5. ServerOk(vm'[Srv], tasks'[Srv], status[Srv], held[Srv])
  BY <1>2, <1>3, <1>4 DEF ServerOk, BareStatuses
<1>6. Placed(worker'.pc, Me.type, vm'[Srv], status'[Srv], held'[Srv])
  BY <1>1, <1>4 DEF Placed, AfterGone
<1>. QED BY <1>1, <1>5, <1>6, AtWork DEF SafetyInv

(* A clone finds no task that could start it before it is pinned. *)
LEMMA RecloneSafe ==
    ASSUME Inv, SafetyInv, [Next]_vars, Reclone
    PROVE  ServersOk' /\ PlaceOk'
<1>1. /\ worker.pc \notin Resting /\ worker'.job = worker.job
      /\ worker'.pc = "configure" /\ UNCHANGED << status, held, tasks >>
      /\ \A j \in Instances : j # Srv => vm'[j] = vm[j]
  BY DEF Reclone, At, Resting, GoTo, Inv, TypeOK, Worker
<1>2. /\ ServerOk(vm[Srv], tasks[Srv], status[Srv], held[Srv]) /\ Srv \in Instances
      /\ Me.type = "rebuild" /\ status[Srv] = Through["rebuild"]
  BY <1>1, BusySafe, BusyRow DEF Reclone, At, StepFits
<1>3. status[Srv] = "rebuilding"
  BY <1>2 DEF Through, BootVerbs
<1>4. vm[Srv] = "absent" /\ vm'[Srv] = "raw" /\ "vmid" \in held[Srv]
  BY <1>2 DEF Reclone, Inv, TypeOK
<1>5. ServerOk(vm'[Srv], tasks[Srv], status[Srv], held[Srv])
  BY <1>2, <1>3, <1>4 DEF ServerOk, BareStatuses, Bare
<1>6. Placed(worker'.pc, Me.type, vm'[Srv], status'[Srv], held'[Srv])
  BY <1>1, <1>3 DEF Placed
<1>. QED BY <1>1, <1>5, <1>6, AtWork DEF SafetyInv

LEMMA ApplyPlanSafe ==
    ASSUME Inv, SafetyInv, [Next]_vars, ApplyPlan
    PROVE  ServersOk' /\ PlaceOk'
<1>1. /\ worker.pc \notin Resting /\ worker'.job = worker.job
      /\ worker'.pc = "start_vm" /\ UNCHANGED << status, held, vm, tasks >>
  BY DEF ApplyPlan, external, At, Resting, GoTo, Inv, TypeOK, Worker
<1>2. /\ ServerOk(vm[Srv], tasks[Srv], status[Srv], held[Srv]) /\ Srv \in Instances
      /\ Me.type = "resize" /\ status[Srv] = Through["resize"]
  BY <1>1, BusySafe, BusyRow DEF ApplyPlan, At, StepFits
<1>3. status[Srv] = "resizing"
  BY <1>2 DEF Through, BootVerbs
<1>4. Placed(worker'.pc, Me.type, vm'[Srv], status'[Srv], held'[Srv])
  BY <1>1, <1>2, <1>3 DEF Placed, ServerOk, BareStatuses, Bare
<1>. QED BY <1>1, <1>2, <1>4, AtWork DEF SafetyInv
(* The disk is replaced under restoring, and its waiting tasks fail. *)
LEMMA RestoreDiskSafe ==
    ASSUME Inv, SafetyInv, [Next]_vars, RestoreDisk
    PROVE  ServersOk' /\ PlaceOk'
<1>1. /\ worker.pc \notin Resting /\ worker'.job = worker.job
      /\ UNCHANGED << status, held >>
      /\ \A j \in Instances : j # Srv => vm'[j] = vm[j] /\ tasks'[j] = tasks[j]
  BY DEF RestoreDisk, At, Resting, GoTo, Inv, TypeOK, Worker
<1>2. /\ ServerOk(vm[Srv], tasks[Srv], status[Srv], held[Srv]) /\ Srv \in Instances
      /\ Me.type \in {"rollback", "restore_backup"} /\ status[Srv] = Through[Me.type]
      /\ Me.type \in SettledVerbs => "ip" \in held[Srv] \/ status[Srv] = "destroyed"
  BY <1>1, BusySafe, BusyRow DEF RestoreDisk, At, StepFits
<1>3. status[Srv] = "restoring" /\ "ip" \in held[Srv]
  BY <1>2 DEF Through, BootVerbs, SettledVerbs, Verbs
<1>4. tasks'[Srv] = {}
  BY <1>2 DEF RestoreDisk, Inv, TypeOK
<1>5. CASE Me.type = "rollback"
  <2>1. vm'[Srv] = "off" /\ vm[Srv] = "off" /\ worker'.pc = "start_vm"
    BY <1>2, <1>5 DEF RestoreDisk, GoTo, Inv, TypeOK, Worker
  <2>2. ServerOk(vm'[Srv], tasks'[Srv], status[Srv], held[Srv])
    BY <1>2, <1>4, <2>1 DEF ServerOk, Bare
  <2>3. Placed(worker'.pc, Me.type, vm'[Srv], status'[Srv], held'[Srv])
    BY <1>1, <1>2, <1>3, <2>1 DEF Placed
  <2>. QED BY <1>1, <2>2, <2>3, AtWork DEF SafetyInv
<1>6. CASE Me.type = "restore_backup"
  <2>1. vm'[Srv] = "raw" /\ "vmid" \in held[Srv] /\ worker'.pc = "repin"
    BY <1>2, <1>6 DEF RestoreDisk, GoTo, Inv, TypeOK, Worker
  <2>2. ServerOk(vm'[Srv], tasks'[Srv], status[Srv], held[Srv])
    BY <1>2, <1>3, <1>4, <2>1 DEF ServerOk, Bare, BareStatuses
  <2>3. Placed(worker'.pc, Me.type, vm'[Srv], status'[Srv], held'[Srv])
    BY <2>1 DEF Placed
  <2>. QED BY <1>1, <2>2, <2>3, AtWork DEF SafetyInv
<1>. QED BY <1>2, <1>5, <1>6

LEMMA RepinSafe ==
    ASSUME Inv, SafetyInv, [Next]_vars, Repin
    PROVE  ServersOk' /\ PlaceOk'
<1>1. /\ worker.pc \notin Resting /\ worker'.job = worker.job
      /\ worker'.pc = "start_vm" /\ UNCHANGED << status, held, tasks >>
      /\ \A j \in Instances : j # Srv => vm'[j] = vm[j]
  BY DEF Repin, At, Resting, GoTo, Inv, TypeOK, Worker
<1>2. /\ ServerOk(vm[Srv], tasks[Srv], status[Srv], held[Srv]) /\ Srv \in Instances
      /\ Me.type = "restore_backup" /\ status[Srv] = Through["restore_backup"]
      /\ Me.type \in SettledVerbs => "ip" \in held[Srv] \/ status[Srv] = "destroyed"
  BY <1>1, BusySafe, BusyRow DEF Repin, At, StepFits
<1>3. status[Srv] = "restoring" /\ "ip" \in held[Srv]
  BY <1>2 DEF Through, BootVerbs, SettledVerbs, Verbs
<1>4. vm'[Srv] = IF vm[Srv] = "raw" THEN "off" ELSE vm[Srv]
  BY <1>2, <1>3 DEF Repin, Inv, TypeOK
<1>5. ServerOk(vm'[Srv], tasks[Srv], status[Srv], held[Srv])
  BY <1>2, <1>3, <1>4 DEF ServerOk, Bare
<1>6. Placed(worker'.pc, Me.type, vm'[Srv], status'[Srv], held'[Srv])
  BY <1>1, <1>2, <1>3, <1>4 DEF Placed
<1>. QED BY <1>1, <1>5, <1>6, AtWork DEF SafetyInv

(* create: a server that is being created is not destroyed meanwhile. *)
LEMMA PickVmidSafe ==
    ASSUME Inv, SafetyInv, [Next]_vars, PickVmid
    PROVE  ServersOk' /\ PlaceOk'
<1>1. /\ worker.pc \notin Resting /\ worker'.job = worker.job
      /\ worker'.pc = "clone" /\ UNCHANGED << status, vm, tasks >>
      /\ \A j \in Instances : j # Srv => held'[j] = held[j]
  BY DEF PickVmid, external, At, Resting, GoTo, Inv, TypeOK, Worker
<1>2. /\ ServerOk(vm[Srv], tasks[Srv], status[Srv], held[Srv]) /\ Srv \in Instances
      /\ status[Srv] \in CreateStatuses
  BY <1>1, BusySafe, BusyRow DEF PickVmid, At, StepFits
<1>3. held'[Srv] = held[Srv] \cup {"vmid"}
  BY <1>2 DEF PickVmid, Inv, TypeOK
<1>4. ServerOk(vm[Srv], tasks[Srv], status[Srv], held'[Srv])
  BY <1>2, <1>3 DEF ServerOk, CreateStatuses
<1>5. Placed(worker'.pc, Me.type, vm'[Srv], status'[Srv], held'[Srv])
  BY <1>1, <1>3 DEF Placed
<1>. QED BY <1>1, <1>4, <1>5, AtWork DEF SafetyInv

LEMMA CloneSafe ==
    ASSUME Inv, SafetyInv, [Next]_vars, Clone
    PROVE  ServersOk' /\ PlaceOk'
<1>1. /\ worker.pc \notin Resting /\ worker'.job = worker.job /\ worker.pc = "clone"
      /\ worker'.pc = "configure" /\ UNCHANGED << status, held, tasks >>
      /\ \A j \in Instances : j # Srv => vm'[j] = vm[j]
  BY DEF Clone, At, Resting, GoTo, Inv, TypeOK, Worker
<1>2. /\ ServerOk(vm[Srv], tasks[Srv], status[Srv], held[Srv]) /\ Srv \in Instances
      /\ Me.type = "create" /\ "vmid" \in held[Srv]
      /\ status[Srv] \in CreateStatuses
  BY <1>1, BusySafe, BusyRow DEF StepFits, Placed
<1>3. vm'[Srv] = IF vm[Srv] = "absent" THEN "raw" ELSE vm[Srv]
  BY <1>2 DEF Clone, Inv, TypeOK
<1>4. ServerOk(vm'[Srv], tasks[Srv], status[Srv], held[Srv])
  BY <1>2, <1>3 DEF ServerOk, Bare, CreateStatuses
<1>5. Placed(worker'.pc, Me.type, vm'[Srv], status'[Srv], held'[Srv])
  BY <1>1, <1>2 DEF Placed
<1>. QED BY <1>1, <1>4, <1>5, AtWork DEF SafetyInv

LEMMA ConfigureSafe ==
    ASSUME Inv, SafetyInv, [Next]_vars, Configure
    PROVE  ServersOk' /\ PlaceOk'
<1>1. /\ worker.pc \notin Resting /\ worker'.job = worker.job /\ worker.pc = "configure"
      /\ worker'.pc = "start_vm" /\ UNCHANGED << status, tasks >>
      /\ \A j \in Instances : j # Srv => vm'[j] = vm[j] /\ held'[j] = held[j]
  BY DEF Configure, At, Resting, GoTo, Inv, TypeOK, Worker
<1>2. /\ ServerOk(vm[Srv], tasks[Srv], status[Srv], held[Srv]) /\ Srv \in Instances
      /\ Me.type \in {"create", "rebuild"}
      /\ Me.type = "rebuild" => status[Srv] = "rebuilding"
      /\ Me.type = "create" => status[Srv] \in CreateStatuses
  BY <1>1, BusySafe, BusyRow DEF StepFits, Placed
<1>3. /\ vm'[Srv] = IF vm[Srv] = "raw" THEN "off" ELSE vm[Srv]
      /\ held'[Srv] = held[Srv] \cup {"ip"} /\ vm[Srv] # "absent"
  BY <1>2 DEF Configure, Inv, TypeOK
<1>4. ServerOk(vm'[Srv], tasks[Srv], status[Srv], held'[Srv])
  BY <1>2, <1>3 DEF ServerOk, Bare, CreateStatuses
<1>5. Through["rebuild"] = "rebuilding" /\ "create" \notin BootVerbs
  BY DEF Through, BootVerbs
<1>6. Placed(worker'.pc, Me.type, vm'[Srv], status'[Srv], held'[Srv])
  BY <1>1, <1>2, <1>3, <1>5 DEF Placed
<1>. QED BY <1>1, <1>4, <1>6, AtWork DEF SafetyInv

(* No handler starts a VM that is not pinned. *)
LEMMA StartVmSafe ==
    ASSUME Inv, SafetyInv, [Next]_vars, StartVm
    PROVE  ServersOk' /\ PlaceOk'
<1>1. /\ worker.pc \notin Resting /\ worker'.job = worker.job /\ worker.pc = "start_vm"
      /\ worker'.pc = "publish" /\ UNCHANGED << status, held, vm >>
      /\ \A j \in Instances : j # Srv => tasks'[j] = tasks[j]
  BY DEF StartVm, At, Resting, GoTo, Inv, TypeOK, Worker
<1>2. /\ ServerOk(vm[Srv], tasks[Srv], status[Srv], held[Srv]) /\ Srv \in Instances
      /\ Placed(worker.pc, Me.type, vm[Srv], status[Srv], held[Srv])
  BY <1>1, BusySafe
<1>3. vm[Srv] \notin Bare
  BY <1>1, <1>2 DEF StartVm, Placed, Bare
<1>4. ServerOk(vm[Srv], tasks'[Srv], status[Srv], held[Srv])
  BY <1>2, <1>3 DEF ServerOk
<1>5. Placed(worker'.pc, Me.type, vm'[Srv], status'[Srv], held'[Srv])
  BY <1>1, <1>2, <1>3 DEF Placed, Bare
<1>. QED BY <1>1, <1>4, <1>5, AtWork DEF SafetyInv

LEMMA BackupSafe ==
    ASSUME Inv, SafetyInv, [Next]_vars, Backup
    PROVE  ServersOk' /\ PlaceOk'
<1>1. /\ worker.pc \notin Resting /\ worker'.job = worker.job
      /\ worker'.pc = "succeed" /\ UNCHANGED << status, vm, tasks >>
      /\ \A j \in Instances : j # Srv => held'[j] = held[j]
  BY DEF Backup, external, At, Resting, GoTo, Inv, TypeOK, Worker
<1>2. /\ ServerOk(vm[Srv], tasks[Srv], status[Srv], held[Srv]) /\ Srv \in Instances
      /\ Me.type = "backup"
      /\ Me.type \in SettledVerbs => "ip" \in held[Srv] \/ status[Srv] = "destroyed"
  BY <1>1, BusySafe, BusyRow DEF Backup, At, StepFits
<1>3. /\ held'[Srv] = held[Srv] \cup {"backup"} /\ vm[Srv] # "absent"
      /\ "ip" \in held[Srv]
  BY <1>2 DEF Backup, Inv, TypeOK, SettledVerbs, Verbs, ServerOk
<1>4. ServerOk(vm[Srv], tasks[Srv], status[Srv], held'[Srv])
  BY <1>2, <1>3 DEF ServerOk
<1>5. Placed(worker'.pc, Me.type, vm'[Srv], status'[Srv], held'[Srv])
  BY <1>1 DEF Placed
<1>. QED BY <1>1, <1>4, <1>5, AtWork DEF SafetyInv

(* destroy gives up the assets of a server whose VM is gone. *)
LEMMA ReleaseSafe ==
    ASSUME Inv, SafetyInv, [Next]_vars, Release
    PROVE  ServersOk' /\ PlaceOk'
<1>1. /\ worker.pc \notin Resting /\ worker'.job = worker.job /\ worker.pc = "release"
      /\ worker'.pc = "succeed" /\ UNCHANGED << vm, tasks >>
      /\ \A j \in Instances : j # Srv => held'[j] = held[j] /\ status'[j] = status[j]
  BY DEF Release, external, At, Resting, GoTo, Inv, TypeOK, Worker
<1>2. /\ ServerOk(vm[Srv], tasks[Srv], status[Srv], held[Srv]) /\ Srv \in Instances
      /\ vm[Srv] = "absent"
  BY <1>1, BusySafe DEF Placed
<1>3. held'[Srv] = {} /\ status'[Srv] = "destroyed"
  BY <1>2 DEF Release, Inv, TypeOK
<1>4. ServerOk(vm[Srv], tasks[Srv], status'[Srv], held'[Srv])
  BY <1>2, <1>3 DEF ServerOk, Bare, BareStatuses
<1>5. Placed(worker'.pc, Me.type, vm'[Srv], status'[Srv], held'[Srv])
  BY <1>1 DEF Placed
<1>. QED BY <1>1, <1>4, <1>5, AtWork DEF SafetyInv

LEMMA ProbeSafe ==
    ASSUME Inv, SafetyInv, [Next]_vars, ProbeMoot \/ ProbeAgain
    PROVE  ServersOk' /\ PlaceOk'
<1>1. /\ worker.pc \notin Resting /\ worker'.job = worker.job
      /\ worker'.pc = "succeed" /\ UNCHANGED << status, held, vm, tasks >>
  BY DEF ProbeMoot, ProbeAgain, external, At, Resting, GoTo, Inv, TypeOK, Worker
<1>2. Placed(worker'.pc, Me.type, vm'[Srv], status'[Srv], held'[Srv])
  BY <1>1 DEF Placed
<1>. QED BY <1>1, <1>2, BusySafe, AtWork DEF SafetyInv

-----------------------------------------------------------------------------
(* Everybody else: the worker stays where it is while something happens to *)
(* a server.                                                               *)
LEMMA StillPlaced ==
    ASSUME Inv, SafetyInv, [Next]_vars, UNCHANGED << worker, held >>,
           worker.pc \notin Resting,
           status'[Srv] = status[Srv],
           vm[Srv] \in Bare => vm'[Srv] = vm[Srv],
           vm[Srv] \notin Bare => vm'[Srv] \notin Bare
    PROVE  PlaceOk'
<1>1. Me'.type = Me.type /\ Srv' = Srv
  BY BusyRow, InvInHand, NextRows DEF RowsStep, Kept, Me, Srv
<1>2. Placed(worker.pc, Me.type, vm[Srv], status[Srv], held[Srv])
  BY BusySafe
<1>3. Placed(worker.pc, Me.type, vm'[Srv], status[Srv], held[Srv])
  BY <1>2 DEF Placed, Bare
<1>. QED BY <1>1, <1>3 DEF PlaceOk

LEMMA RequestSafe ==
    ASSUME Inv, SafetyInv, [Next]_vars, RequestStep
    PROVE  ServersOk' /\ PlaceOk'
<1>1. UNCHANGED << worker, held, vm, tasks >>
  BY DEF RequestStep, Provision, ApiRead, ApiCheck, ApiInsert, external
<1>2. ASSUME NEW i \in Instances, Provision(i)
      PROVE  /\ \A j \in Instances : j # i => status'[j] = status[j]
             /\ status[i] = "absent" /\ status'[i] = "provisioning"
  BY <1>2 DEF Provision, Inv, TypeOK
<1>3. ServersOk'
  <2>1. ASSUME NEW i \in Instances, Provision(i) PROVE ServersOk'
    <3>1. ServerOk(vm[i], tasks[i], "provisioning", held[i])
      BY <1>2, <2>1 DEF SafetyInv, ServersOk, ServerOk, BareStatuses
    <3>. QED BY <1>1, <1>2, <2>1, <3>1, OneServer DEF SafetyInv
  <2>2. CASE UNCHANGED status
    BY <1>1, <2>2 DEF SafetyInv, ServersOk
  <2>. QED BY <2>1, <2>2 DEF RequestStep, ApiRead, ApiCheck, ApiInsert
<1>4. ASSUME worker.pc \notin Resting PROVE status'[Srv] = status[Srv]
  <2>1. status[Srv] # "absent" /\ Srv \in Instances
    BY <1>4, BusyRow DEF ALL_STATES
  <2>. QED BY <1>2, <2>1 DEF RequestStep, ApiRead, ApiCheck, ApiInsert
<1>5. PlaceOk'
  <2>1. CASE worker.pc \in Resting
    BY <1>1, <2>1 DEF PlaceOk
  <2>2. CASE worker.pc \notin Resting
    BY <1>1, <1>4, <2>2, StillPlaced
  <2>. QED BY <2>1, <2>2
<1>. QED BY <1>3, <1>5

(* A task finds the VM on or off, never unpinned. *)
LEMMA EnvironmentSafe ==
    ASSUME Inv, SafetyInv, [Next]_vars, Environment
    PROVE  ServersOk' /\ PlaceOk'
<1>1. UNCHANGED << worker, held, status >>
  BY DEF Environment, TaskRuns, PowerDrift, RunAfterPasses
<1>2. PICK i : /\ \A j \in Instances : j # i => vm'[j] = vm[j] /\ tasks'[j] = tasks[j]
               /\ i \in Instances => /\ vm[i] \in Bare => vm'[i] = vm[i] /\ tasks'[i] = tasks[i]
                                     /\ vm[i] \notin Bare => vm'[i] \in {"on", "off"}
  <2>1. \A i \in Instances : /\ ServerOk(vm[i], tasks[i], status[i], held[i])
                             /\ vm[i] \in VmStates
    BY DEF SafetyInv, ServersOk, Inv, TypeOK
  <2>2. ASSUME NEW i \in Instances, NEW t \in PxTasks, TaskRuns(i, t)
        PROVE  /\ \A j \in Instances : j # i => vm'[j] = vm[j] /\ tasks'[j] = tasks[j]
               /\ vm[i] \notin Bare /\ vm'[i] \in {"on", "off"}
    <3>1. vm[i] \in {"on", "off"}
      BY <2>1, <2>2 DEF TaskRuns, ServerOk, Bare, VmStates
    <3>. QED BY <2>2, <3>1 DEF TaskRuns, PoweredOn, PoweredOff, Inv, TypeOK, Bare
  <2>3. ASSUME NEW i \in Instances, PowerDrift(i)
        PROVE  /\ \A j \in Instances : j # i => vm'[j] = vm[j] /\ tasks'[j] = tasks[j]
               /\ vm[i] \notin Bare /\ vm'[i] \in {"on", "off"}
    BY <2>3 DEF PowerDrift, Inv, TypeOK, Bare
  <2>4. ASSUME NEW k \in JobIds, RunAfterPasses(k)
        PROVE  UNCHANGED << vm, tasks >>
    BY <2>4 DEF RunAfterPasses, external
  <2>5. CASE UNCHANGED << vm, tasks >>
    BY <2>1, <2>5 DEF ServerOk, Bare, VmStates
  <2>. QED BY <2>2, <2>3, <2>4, <2>5 DEF Environment
<1>3. ServersOk'
  <2>1. CASE i \notin Instances
    BY <1>1, <1>2, <2>1 DEF SafetyInv, ServersOk
  <2>2. CASE i \in Instances
    <3>1. ServerOk(vm[i], tasks[i], status[i], held[i])
      BY <2>2 DEF SafetyInv, ServersOk
    <3>2. ServerOk(vm'[i], tasks'[i], status[i], held[i])
      BY <1>2, <2>2, <3>1 DEF ServerOk, Bare
    <3>. QED BY <1>1, <1>2, <2>2, <3>2, OneServer DEF SafetyInv
  <2>. QED BY <2>1, <2>2
<1>4. PlaceOk'
  <2>1. CASE worker.pc \in Resting
    BY <1>1, <2>1 DEF PlaceOk
  <2>2. CASE worker.pc \notin Resting
    BY <1>1, <1>2, <2>2, BusySafe, StillPlaced DEF Bare
  <2>. QED BY <2>1, <2>2
<1>. QED BY <1>3, <1>4

LEMMA WorkerSafe ==
    ASSUME Inv, SafetyInv, [Next]_vars,
           WorkerBoot \/ Crash \/ Succeed \/ Raise \/ \E k \in JobIds : Claim(k)
    PROVE  ServersOk' /\ PlaceOk'
<1>1. UNCHANGED << held, vm, tasks >>
  BY DEF WorkerBoot, Crash, Succeed, Raise, Claim, external
<1>2. ServersOk'
  <2>1. CASE UNCHANGED status
    BY <1>1, <2>1 DEF SafetyInv, ServersOk
  <2>2. CASE Raise /\ status' # status
    <3>1. worker.pc \notin Resting
      BY <2>2 DEF Raise, MayRaise, HandlerPcs, Resting, At
    <3>2. status' = [status EXCEPT ![Srv] = "error"] /\ status[Srv] # "destroyed"
      BY <2>2 DEF Raise, TERMINAL_STATES
    <3>3. ServerOk(vm[Srv], tasks[Srv], "error", held[Srv]) /\ Srv \in Instances
      BY <3>1, BusySafe DEF ServerOk, BareStatuses
    <3>. QED BY <1>1, <3>2, <3>3, OneServer DEF SafetyInv, Inv, TypeOK
  <2>. QED BY <2>1, <2>2 DEF WorkerBoot, Crash, Succeed, Claim
<1>3. PlaceOk'
  <2>1. CASE worker'.pc \in Resting
    BY <2>1 DEF PlaceOk
  <2>2. ASSUME NEW k \in JobIds, Claim(k) PROVE PlaceOk'
    <3>1. worker'.pc \notin {"clone", "configure", "start_vm", "publish", "release"}
      BY <2>2 DEF Claim, FirstStep
    <3>. QED BY <3>1 DEF PlaceOk, Placed
  <2>. QED BY <2>1, <2>2 DEF WorkerBoot, Crash, Succeed, Raise, IdleWorker, DownWorker, Resting
<1>. QED BY <1>2, <1>3

LEMMA NextSafe ==
    ASSUME Inv, SafetyInv, [Next]_vars
    PROVE  SafetyInv'
<1>1. CASE HandlerStep
  BY <1>1, EnterSafe, PowerActSafe, EndedSafe, PowerOffSafe, DeleteSafe, RecloneSafe,
     ApplyPlanSafe, RestoreDiskSafe, RepinSafe, PickVmidSafe, CloneSafe, ConfigureSafe,
     StartVmSafe, BackupSafe, ReleaseSafe, ProbeSafe, NextRequestsOk, InvOrdered,
     NextCreateOk DEF HandlerStep, SafetyInv
<1>2. CASE UNCHANGED vars
  <2>1. UNCHANGED << jobs, status, held, worker, api, vm, tasks, crashes, drifts >>
    BY <1>2 DEF vars
  <2>2. ServersOk' /\ PlaceOk'
    BY <2>1 DEF SafetyInv, ServersOk, PlaceOk, Me, Srv
  <2>. QED BY <2>2, NextRequestsOk, InvOrdered, NextCreateOk DEF SafetyInv
<1>. QED BY <1>1, <1>2, RequestSafe, WorkerSafe, EnvironmentSafe, NextRequestsOk, InvOrdered,
            NextCreateOk
         DEF Next, WorkerStep, SafetyInv

LEMMA InitSafe == Init => SafetyInv
<1>. SUFFICES ASSUME Init PROVE SafetyInv
  OBVIOUS
<1>1. JobIds = {} /\ worker.pc \in Resting /\ \A t \in Threads : api[t].pc = "idle"
  BY DEF Init, JobIds, IdleWorker, Resting, IdleRequest
<1>2. ServersOk
  BY DEF Init, ServersOk, ServerOk, Bare, BareStatuses
<1>. QED BY <1>1, <1>2 DEF SafetyInv, RequestsOk, CreateOk, PlaceOk

(* In every reachable state the VM of each server is one that the worker's *)
(* place in its job accounts for, with the allocations that belong to it.  *)
THEOREM SafetyAlways == Spec => []SafetyInv
BY InitSafe, NextSafe, InvAlways, PTL DEF Spec

(* No VM is ever powered on between its clone, or its restore, and the     *)
(* pinning of its address, whatever tasks are still waiting at Proxmox.    *)
THEOREM NeverExposedAlways == Spec => []NeverExposed
<1>1. SafetyInv => NeverExposed
  BY DEF SafetyInv, ServersOk, ServerOk, NeverExposed
<1>. QED BY <1>1, SafetyAlways, PTL

(* A destroyed server keeps nothing, whoever raced with its destroy.       *)
THEOREM DestroyedReleasesAlways == Spec => []DestroyedReleasesAll
<1>1. SafetyInv => DestroyedReleasesAll
  BY DEF SafetyInv, ServersOk, ServerOk, DestroyedReleasesAll
<1>. QED BY <1>1, SafetyAlways, PTL

(* A VM disappears, or its disk is replaced, only under a status that says *)
(* so: the row cannot have been taken out of it by anybody else.           *)
LEMMA DiskLostStep ==
    ASSUME Inv, SafetyInv, [Next]_vars, NEW i \in Instances, DiskLost(i)
    PROVE  status[i] \in {"rebuilding", "restoring", "destroying"}
<1>1. vm'[i] # vm[i] /\ vm \in [Instances -> VmStates] /\ vm'[i] \in Bare
  BY DEF DiskLost, Inv, TypeOK, Bare
<1>2. ASSUME worker.pc \notin Resting PROVE worker.seen = status[Srv]
  BY <1>2, BusyRow
<1>3. CASE Delete
  <2>1. i = Srv /\ worker.pc \notin Resting /\ At("delete")
    BY <1>1, <1>3 DEF Delete, At, Resting
  <2>2. Me.type \in {"rebuild", "destroy"} /\ status[i] = Through[Me.type]
    BY <2>1, BusyRow DEF At, StepFits
  <2>. QED BY <2>2 DEF Through, BootVerbs
<1>4. CASE RestoreDisk
  <2>1. i = Srv /\ worker.pc \notin Resting /\ At("restore_disk")
    BY <1>1, <1>4 DEF RestoreDisk, At, Resting
  <2>2. Me.type \in {"rollback", "restore_backup"} /\ status[i] = Through[Me.type]
    BY <2>1, BusyRow DEF At, StepFits
  <2>. QED BY <2>2 DEF Through, BootVerbs
<1>5. ~PowerOff /\ ~Reclone /\ ~Repin /\ ~Clone /\ ~Configure
  BY <1>1 DEF PowerOff, Reclone, Repin, Clone, Configure, PoweredOff, DiskLost, Bare
<1>6. ~Environment
  <2>1. vm[i] \in Bare => tasks[i] = {}
    BY DEF SafetyInv, ServersOk, ServerOk
  <2>2. \A j \in Instances, t \in PxTasks : ~TaskRuns(j, t)
    BY <1>1, <2>1 DEF TaskRuns, PoweredOn, PoweredOff, DiskLost, Bare, VmStates
  <2>3. \A j \in Instances : ~PowerDrift(j)
    BY <1>1 DEF PowerDrift, Bare
  <2>. QED BY <1>1, <2>2, <2>3 DEF Environment, RunAfterPasses, external
<1>7. ~RequestStep /\ ~Crash /\ ~UNCHANGED vars
  BY <1>1 DEF RequestStep, Provision, ApiRead, ApiCheck, ApiInsert, Crash, external, vars
<1>8. CASE HandlerStep
  BY <1>1, <1>3, <1>4, <1>5, <1>8
     DEF HandlerStep, external, Enter, PowerAct, PowerExit, ApplyPlan, PickVmid, StartVm,
         Publish, ProbeMoot, ProbeDone, ProbeAgain, Backup, Release
<1>9. ~WorkerBoot /\ ~Raise /\ ~Succeed /\ \A k \in JobIds : ~Claim(k)
  BY <1>1 DEF WorkerBoot, Raise, Succeed, Claim, external
<1>. QED BY <1>6, <1>7, <1>8, <1>9 DEF Next, WorkerStep

(* Nobody loses a disk behind running, stopped or a plain power verb.      *)
THEOREM DiskLostOnlyInTheOpen == Spec => DiskLostInTheOpen
<1>1. Inv /\ SafetyInv /\ [Next]_vars =>
        [\A i \in Instances :
            DiskLost(i) => status[i] \in {"rebuilding", "restoring", "destroying"}]_vars
  BY DiskLostStep
<1>. QED BY <1>1, InvAlways, SafetyAlways, PTL DEF Spec, DiskLostInTheOpen
-----------------------------------------------------------------------------
(* Beside the reconciler a handler's loaded status may be out of date: a   *)
(* pass writes running or stopped over it at any time.  Less is invariant  *)
(* then, and enough for one thing: of a destroyed server a busy worker has *)
(* loaded that it is destroyed, and no handler moves it from there.        *)
Fits(pc, type) ==
    /\ pc = "enter" => type \in DOMAIN Through
    /\ pc \in {"act", "power_exit"} => type \in PowerVerbs

HandlerKnows ==
    worker.pc \notin Resting =>
        /\ worker.job \in JobIds
        /\ Fits(worker.pc, Me.type)
        /\ status[Srv] = "destroyed" => worker.seen = "destroyed"

RowsKept == jobs' \in Seq(Job) /\ \A k \in JobIds : k \in JobIds' /\ Kept(k)

DestroyedKept == \A i \in Instances : status[i] = "destroyed" => status'[i] = "destroyed"

Working == worker.pc \notin Resting

LEMMA WorkingRow ==
    ASSUME TypeOK, HandlerKnows, Working
    PROVE  /\ worker.job \in JobIds /\ Me \in Job /\ Me.type \in JobTypes
           /\ Srv \in Instances /\ status[Srv] \in RowStatuses /\ worker.seen \in Statuses
           /\ Fits(worker.pc, Me.type)
           /\ status[Srv] = "destroyed" => worker.seen = "destroyed"
<1>1. worker.job \in JobIds /\ Fits(worker.pc, Me.type)
      /\ (status[Srv] = "destroyed" => worker.seen = "destroyed")
  BY DEF HandlerKnows, Working
<1>2. worker.seen \in Statuses
  BY DEF TypeOK, Worker, Statuses
<1>. QED BY <1>1, <1>2, RowAt DEF Me, Srv

LEMMA NoWayBack == \A s : ~CanTransition("destroyed", s)
BY DEF CanTransition, TRANSITIONS, ALL_STATES

(* A handler's step to pc, that leaves the status alone or makes an        *)
(* allowed transition of the loaded one.                                   *)
LEMMA Advances ==
    ASSUME TypeOK, HandlerKnows, Working, RowsKept, NEW pc \in WorkerPcs, NEW s, GoTo(pc, s),
           Fits(pc, Me.type),
           \/ status' = status /\ s \in {worker.seen, status[Srv]}
           \/ /\ CanTransition(worker.seen, s) /\ s \in RowStatuses
              /\ status' = [status EXCEPT ![Srv] = s]
    PROVE  /\ status' \in [Instances -> RowStatuses] /\ worker' \in Worker
           /\ HandlerKnows' /\ DestroyedKept
<1>1. s \in Statuses
  BY WorkingRow DEF Statuses
<1>2. /\ worker' \in Worker /\ worker'.pc = pc /\ worker'.seen = s
      /\ worker'.job = worker.job
  BY <1>1, GoToWorker DEF TypeOK
<1>3. worker'.job \in JobIds' /\ Me'.type = Me.type /\ Srv' = Srv
  BY <1>2, WorkingRow DEF RowsKept, Kept, Me, Srv
<1>4. status \in [Instances -> RowStatuses] /\ Srv \in Instances
  BY WorkingRow DEF TypeOK
<1>5. CASE status' = status /\ s \in {worker.seen, status[Srv]}
  <2>1. status'[Srv'] = "destroyed" => s = "destroyed"
    BY <1>3, <1>5, WorkingRow
  <2>. QED BY <1>2, <1>3, <1>4, <1>5, <2>1 DEF HandlerKnows, DestroyedKept
<1>6. CASE /\ CanTransition(worker.seen, s) /\ s \in RowStatuses
           /\ status' = [status EXCEPT ![Srv] = s]
  <2>1. status[Srv] # "destroyed"
    BY <1>6, WorkingRow, NoWayBack
  <2>2. status' \in [Instances -> RowStatuses] /\ status'[Srv] = s
        /\ \A i \in Instances : i # Srv => status'[i] = status[i]
    BY <1>4, <1>6
  <2>. QED BY <1>2, <1>3, <2>1, <2>2 DEF HandlerKnows, DestroyedKept
<1>. QED BY <1>5, <1>6

LEMMA JobsUnchangedKept ==
    ASSUME TypeOK, UNCHANGED jobs
    PROVE  RowsKept
BY DEF TypeOK, RowsKept, Kept, JobIds

LEMMA UpdatedRowsKept ==
    ASSUME NEW k \in JobIds, NEW s, Updated(k, s)
    PROVE  RowsKept
BY DEF Updated, RowsKept, JobIds

LEMMA RecordedRowsKept ==
    ASSUME TypeOK, HandlerKnows, Working, jobs' = Record(worker.job)
    PROVE  RowsKept
BY WorkingRow, RecordUpdates DEF RowsKept, Kept, JobIds

LEMMA AddedRowsKept ==
    ASSUME TypeOK, NEW type, NEW i, Added(type, i)
    PROVE  RowsKept
BY AddedKeeps DEF RowsKept, Added

LEMMA HandlerRowsKept ==
    ASSUME TypeOK, HandlerKnows, Working, HandlerStep
    PROVE  RowsKept
<1>1. CASE UNCHANGED jobs
  BY <1>1, JobsUnchangedKept
<1>2. CASE PowerExit \/ ProbeDone \/ Backup \/ Release
  BY <1>2, RecordedRowsKept DEF PowerExit, ProbeDone, Backup, Release
<1>3. CASE Publish
  BY <1>3, WorkingRow, PublishAdds, AddedRowsKept DEF Publish
<1>4. CASE ProbeAgain
  <2>1. Me.poll + 1 \in Nat /\ "await_ready" \in JobTypes /\ Srv \in Instances
    BY WorkingRow DEF Job, JobTypes
  <2>. QED BY <1>4, <2>1, AppendAdds, AddedRowsKept DEF ProbeAgain
<1>. QED BY <1>1, <1>2, <1>3, <1>4
         DEF HandlerStep, Enter, PowerAct, PowerOff, Delete, Reclone, ApplyPlan, RestoreDisk,
             Repin, PickVmid, Clone, Configure, StartVm, ProbeMoot

(* What is not the worker's own. *)
RestTyped ==
    /\ held' \in [Instances -> SUBSET Assets]
    /\ api' \in [Threads -> { IdleRequest } \cup Request]
    /\ vm' \in [Instances -> VmStates]
    /\ tasks' \in [Instances -> SUBSET PxTasks]
    /\ crashes' \in Nat /\ drifts' \in Nat

LEMMA HandlerRestTyped ==
    ASSUME TypeOK, HandlerKnows, Working, HandlerStep
    PROVE  RestTyped
<1>1. /\ Srv \in Instances /\ vm[Srv] \in VmStates /\ tasks[Srv] \subseteq PxTasks
      /\ held[Srv] \subseteq Assets /\ PoweredOff(vm[Srv]) \in VmStates
  BY WorkingRow DEF TypeOK, PoweredOff, VmStates
<1>2. {"absent", "raw", "off"} \subseteq VmStates /\ "start" \in PxTasks
      /\ {"vmid", "ip", "backup"} \subseteq Assets
  BY DEF VmStates, PxTasks, Assets
<1>3. CASE Enter \/ PowerExit \/ ApplyPlan \/ Publish \/ ProbeMoot \/ ProbeDone \/ ProbeAgain
  BY <1>3 DEF Enter, PowerExit, ApplyPlan, Publish, ProbeMoot, ProbeDone, ProbeAgain, external,
              TypeOK, RestTyped
<1>4. CASE PowerAct
  <2>1. PowerTask[Me.type] \in PxTasks
    BY <1>4, WorkingRow DEF PowerAct, At, Fits, PowerTask, PowerVerbs, PxTasks
  <2>. QED BY <1>1, <1>4, <2>1 DEF PowerAct, TypeOK, RestTyped
<1>5. CASE PowerOff
  BY <1>1, <1>5 DEF PowerOff, TypeOK, RestTyped
<1>6. CASE Delete
  BY <1>1, <1>2, <1>6 DEF Delete, TypeOK, RestTyped
<1>7. CASE Reclone
  BY <1>1, <1>2, <1>7 DEF Reclone, TypeOK, RestTyped
<1>8. CASE RestoreDisk
  BY <1>1, <1>2, <1>8 DEF RestoreDisk, TypeOK, RestTyped
<1>9. CASE Repin
  BY <1>1, <1>2, <1>9 DEF Repin, TypeOK, RestTyped
<1>10. CASE PickVmid
  BY <1>1, <1>2, <1>10 DEF PickVmid, external, TypeOK, RestTyped
<1>11. CASE Clone
  BY <1>1, <1>2, <1>11 DEF Clone, TypeOK, RestTyped
<1>12. CASE Configure
  BY <1>1, <1>2, <1>12 DEF Configure, TypeOK, RestTyped
<1>13. CASE StartVm
  BY <1>1, <1>2, <1>13 DEF StartVm, TypeOK, RestTyped
<1>14. CASE Backup
  BY <1>1, <1>2, <1>14 DEF Backup, external, TypeOK, RestTyped
<1>15. CASE Release
  BY <1>1, <1>15 DEF Release, external, TypeOK, RestTyped
<1>. QED BY <1>3, <1>4, <1>5, <1>6, <1>7, <1>8, <1>9, <1>10, <1>11, <1>12, <1>13, <1>14, <1>15
         DEF HandlerStep

(* Where a handler's step goes, and what it makes of the status. *)
Advanced ==
    \E pc \in WorkerPcs : \E s :
        /\ GoTo(pc, s) /\ Fits(pc, Me.type)
        /\ \/ status' = status /\ s \in {worker.seen, status[Srv]}
           \/ /\ CanTransition(worker.seen, s) /\ s \in RowStatuses
              /\ status' = [status EXCEPT ![Srv] = s]

LEMMA HandlerAdvances ==
    ASSUME TypeOK, HandlerKnows, Working, HandlerStep
    PROVE  Advanced
<1> DEFINE Remains(pc, s) == GoTo(pc, s) /\ UNCHANGED status /\ s \in {worker.seen, status[Srv]}
           Turns(pc, s) == /\ GoTo(pc, s) /\ status' = [status EXCEPT ![Srv] = s]
                           /\ CanTransition(worker.seen, s) /\ s \in RowStatuses
           Free == WorkerPcs \ {"enter", "act", "power_exit"}
<1>1. ASSUME NEW pc \in Free, NEW s, Remains(pc, s) \/ Turns(pc, s)
      PROVE  Advanced
  BY <1>1 DEF Advanced, Fits
<1>2. /\ {"start_vm", "succeed", "configure", "publish", "clone", "power_off"} \subseteq Free
      /\ AfterOff \in Free /\ AfterGone \in Free
  BY DEF WorkerPcs, HandlerPcs, AfterOff, AfterGone
<1>3. {"booting", "running", "destroyed"} \subseteq RowStatuses
  BY DEF RowStatuses, ALL_STATES
<1>. HIDE DEF Free
<1>4. CASE Enter
  <2>1. Me.type \in DOMAIN Through
    BY <1>4, WorkingRow DEF Enter, At, Fits
  <2> DEFINE s == Through[Me.type]
             pc == IF Me.type \in PowerVerbs THEN "act" ELSE "power_off"
  <2>2. s \in RowStatuses
    BY <2>1, ThroughTyped DEF RowStatuses
  <2>3. pc \in WorkerPcs /\ Fits(pc, Me.type)
    BY DEF WorkerPcs, HandlerPcs, Fits
  <2>4. GoTo(pc, s) /\ \/ UNCHANGED status /\ worker.seen = s
                       \/ CanTransition(worker.seen, s) /\ status' = [status EXCEPT ![Srv] = s]
    BY <1>4 DEF Enter
  <2>. HIDE DEF s, pc
  <2>. QED BY <2>2, <2>3, <2>4 DEF Advanced
<1>5. CASE PowerAct
  <2>1. Fits("power_exit", Me.type) /\ "power_exit" \in WorkerPcs
    BY <1>5, WorkingRow DEF PowerAct, At, Fits, WorkerPcs, HandlerPcs
  <2>. QED BY <1>5, <2>1 DEF PowerAct, Advanced
<1>6. CASE PowerExit
  <2>1. PowerTo[Me.type] \in RowStatuses
    BY <1>6, WorkingRow DEF PowerExit, At, Fits, PowerTo, RowStatuses, ALL_STATES
  <2>2. Turns("succeed", PowerTo[Me.type])
    BY <1>6, <2>1 DEF PowerExit
  <2>. QED BY <1>1, <1>2, <2>2
<1>7. CASE PowerOff
  <2>1. Remains(AfterOff, worker.seen) \/ Remains(AfterGone, worker.seen)
    BY <1>7 DEF PowerOff
  <2>. QED BY <1>1, <1>2, <2>1
<1>8. CASE Delete
  <2>1. Remains(AfterGone, worker.seen)
    BY <1>8 DEF Delete
  <2>. QED BY <1>1, <1>2, <2>1
<1>9. CASE Reclone \/ Clone
  <2>1. Remains("configure", worker.seen)
    BY <1>9 DEF Reclone, Clone
  <2>. QED BY <1>1, <1>2, <2>1
<1>10. CASE ApplyPlan \/ Configure
  <2>1. Remains("start_vm", status[Srv])
    BY <1>10 DEF ApplyPlan, Configure
  <2>. QED BY <1>1, <1>2, <2>1
<1>11. CASE RestoreDisk
  <2>1. "repin" \in Free
    BY DEF Free, WorkerPcs, HandlerPcs
  <2>2. Remains("start_vm", worker.seen) \/ Remains("repin", worker.seen)
    BY <1>11 DEF RestoreDisk
  <2>. QED BY <1>1, <1>2, <2>1, <2>2
<1>12. CASE Repin
  <2>1. Remains("start_vm", worker.seen)
    BY <1>12 DEF Repin
  <2>. QED BY <1>1, <1>2, <2>1
<1>13. CASE PickVmid
  <2>1. Remains("clone", IF "vmid" \in held[Srv] THEN worker.seen ELSE status[Srv])
    BY <1>13 DEF PickVmid
  <2>. QED BY <1>1, <1>2, <2>1
<1>14. CASE StartVm
  <2>1. Remains("publish", worker.seen)
    BY <1>14 DEF StartVm
  <2>. QED BY <1>1, <1>2, <2>1
<1>15. CASE Publish
  <2>1. Turns("succeed", "booting")
    BY <1>3, <1>15 DEF Publish
  <2>. QED BY <1>1, <1>2, <2>1
<1>16. CASE ProbeMoot \/ ProbeAgain \/ Backup
  <2>1. Remains("succeed", worker.seen)
    BY <1>16 DEF ProbeMoot, ProbeAgain, Backup
  <2>. QED BY <1>1, <1>2, <2>1
<1>17. CASE ProbeDone
  <2>1. CanTransition("booting", "running")
    BY DEF CanTransition, TRANSITIONS, ALL_STATES
  <2>2. Turns("succeed", "running")
    BY <1>3, <1>17, <2>1 DEF ProbeDone
  <2>. QED BY <1>1, <1>2, <2>2
<1>18. CASE Release
  <2>1. Turns("succeed", "destroyed")
    BY <1>3, <1>18 DEF Release
  <2>. QED BY <1>1, <1>2, <2>1
<1>. QED BY <1>4, <1>5, <1>6, <1>7, <1>8, <1>9, <1>10, <1>11, <1>12, <1>13, <1>14, <1>15,
            <1>16, <1>17, <1>18 DEF HandlerStep

Known == TypeOK /\ HandlerKnows

LEMMA HandlerKnown ==
    ASSUME Known, HandlerStep
    PROVE  Known' /\ DestroyedKept
<1>1. Working
  BY DEF Working, Resting, HandlerStep, At, Enter, PowerAct, PowerExit, PowerOff, Delete,
         Reclone, ApplyPlan, RestoreDisk, Repin, PickVmid, Clone, Configure, StartVm, Publish,
         ProbeMoot, ProbeDone, ProbeAgain, Backup, Release
<1>2. RowsKept /\ RestTyped /\ Advanced
  BY <1>1, HandlerRowsKept, HandlerRestTyped, HandlerAdvances DEF Known
<1>3. PICK pc \in WorkerPcs : \E s :
        /\ GoTo(pc, s) /\ Fits(pc, Me.type)
        /\ \/ status' = status /\ s \in {worker.seen, status[Srv]}
           \/ /\ CanTransition(worker.seen, s) /\ s \in RowStatuses
              /\ status' = [status EXCEPT ![Srv] = s]
  BY <1>2 DEF Advanced
<1>4. /\ status' \in [Instances -> RowStatuses] /\ worker' \in Worker
      /\ HandlerKnows' /\ DestroyedKept
  BY <1>1, <1>2, <1>3, Advances DEF Known
<1>. QED BY <1>2, <1>4 DEF Known, TypeOK, RestTyped, RowsKept

(* A worker that comes to rest knows nothing; what it leaves is typed. *)
LEMMA RestingKnown ==
    ASSUME Known, worker' \in {IdleWorker, DownWorker}, RowsKept, RestTyped,
           status' \in [Instances -> RowStatuses]
    PROVE  Known'
<1>1. worker' \in Worker /\ worker'.pc \in Resting
  BY DEF IdleWorker, DownWorker, Worker, WorkerPcs, Resting
<1>2. HandlerKnows'
  BY <1>1 DEF HandlerKnows
<1>. QED BY <1>1, <1>2 DEF Known, TypeOK, RestTyped, RowsKept

LEMMA WorkerKnown ==
    ASSUME Known, WorkerStep
    PROVE  Known' /\ DestroyedKept
<1>1. CASE WorkerBoot
  <2>1. RowsKept /\ RestTyped
    BY <1>1, RequeueKeeps DEF WorkerBoot, external, Known, TypeOK, RowsKept, RestTyped, JobIds
  <2>. QED BY <1>1, <2>1, RestingKnown DEF WorkerBoot, DestroyedKept, Known, TypeOK
<1>2. ASSUME NEW k \in JobIds, Claim(k)
      PROVE  Known' /\ DestroyedKept
  <2> DEFINE pc == FirstStep(jobs[k].type)
             seen == status[jobs[k].inst]
  <2>1. /\ worker' = [ pc |-> pc, job |-> k, seen |-> seen ]
        /\ UNCHANGED << status, held, api, vm, tasks, drifts, crashes >>
    BY <1>2 DEF Claim, external
  <2>2. RowsKept
    BY <1>2, SetStatusUpdates, UpdatedRowsKept DEF Claim, Known, JobStatuses
  <2>3. jobs[k].type \in JobTypes /\ seen \in RowStatuses /\ k \in Nat
    BY RowAt DEF Known
  <2>4. pc \in WorkerPcs /\ Fits(pc, jobs[k].type)
    BY <2>3 DEF FirstStep, WorkerPcs, HandlerPcs, JobTypes, Verbs, PowerVerbs, BootVerbs, Fits,
                Through
  <2>. HIDE DEF pc, seen
  <2>5. worker' \in Worker
    BY <2>1, <2>3, <2>4 DEF Worker
  <2>6. worker'.job \in JobIds' /\ Me'.type = jobs[k].type /\ Srv' = jobs[k].inst
    BY <2>1, <2>2 DEF RowsKept, Kept, Me, Srv
  <2>7. HandlerKnows'
    BY <2>1, <2>4, <2>6 DEF HandlerKnows, seen
  <2>. QED BY <2>1, <2>2, <2>5, <2>7 DEF Known, TypeOK, RowsKept, DestroyedKept
<1>3. CASE HandlerStep
  BY <1>3, HandlerKnown
<1>4. CASE Raise
  <2>1. Working
    BY <1>4 DEF Raise, MayRaise, HandlerPcs, Working, Resting, At
  <2>2. RowsKept
    BY <1>4, <2>1, WorkingRow, FailRowUpdates, UpdatedRowsKept DEF Raise, Known
  <2>3. RestTyped
    BY <1>4 DEF Raise, external, Known, TypeOK, RestTyped
  <2>4. status' \in [Instances -> RowStatuses] /\ DestroyedKept
    <3>1. Srv \in Instances /\ status \in [Instances -> RowStatuses] /\ "error" \in RowStatuses
      BY <2>1, WorkingRow DEF Known, TypeOK, RowStatuses, ALL_STATES
    <3>. QED BY <1>4, <3>1 DEF Raise, DestroyedKept, TERMINAL_STATES
  <2>. QED BY <1>4, <2>2, <2>3, <2>4, RestingKnown DEF Raise
<1>5. CASE Succeed
  <2>1. Working
    BY <1>5 DEF Succeed, Working, Resting, At
  <2>2. RowsKept
    BY <1>5, <2>1, WorkingRow, SetStatusUpdates, UpdatedRowsKept DEF Succeed, Known, JobStatuses
  <2>. QED BY <1>5, <2>2, RestingKnown
           DEF Succeed, external, Known, TypeOK, RestTyped, DestroyedKept
<1>. QED BY <1>1, <1>2, <1>3, <1>4, <1>5 DEF WorkerStep

(* A step that leaves the worker alone and destroys no server.             *)
LEMMA StillKnown ==
    ASSUME Known, UNCHANGED worker, RowsKept, RestTyped,
           status' \in [Instances -> RowStatuses],
           \A i \in Instances : status'[i] = "destroyed" => status[i] = "destroyed"
    PROVE  Known'
<1>1. ASSUME Working PROVE HandlerKnows'
  <2>1. worker'.job \in JobIds' /\ Me'.type = Me.type /\ Srv' = Srv /\ Srv \in Instances
    BY <1>1, WorkingRow DEF RowsKept, Kept, Me, Srv, Known
  <2>. QED BY <1>1, <2>1, WorkingRow DEF HandlerKnows, Known
<1>2. HandlerKnows'
  BY <1>1 DEF Working, HandlerKnows
<1>. QED BY <1>2 DEF Known, TypeOK, RestTyped, RowsKept

LEMMA NextKnown ==
    ASSUME Known, [Next]_vars
    PROVE  Known' /\ DestroyedKept
<1>1. ASSUME NEW i \in Instances, Provision(i)
      PROVE  Known' /\ DestroyedKept
  <2>1. /\ status[i] = "absent" /\ status' = [status EXCEPT ![i] = "provisioning"]
        /\ UNCHANGED << held, worker, api, vm, tasks, drifts, crashes >>
    BY <1>1 DEF Provision, external
  <2>2. RowsKept
    BY <1>1, AppendAdds, AddedRowsKept DEF Provision, Insert, JobTypes, Known
  <2>3. /\ status' \in [Instances -> RowStatuses] /\ DestroyedKept
        /\ \A j \in Instances : status'[j] = "destroyed" => status[j] = "destroyed"
    BY <2>1 DEF Known, TypeOK, RowStatuses, ALL_STATES, DestroyedKept
  <2>. QED BY <2>1, <2>2, <2>3, StillKnown DEF Known, TypeOK, RestTyped
<1>2. ASSUME NEW t \in Threads, NEW i \in Instances, NEW v \in UserVerbs, ApiRead(t, i, v)
      PROVE  Known' /\ DestroyedKept
  <2> DEFINE req == [ pc |-> "read", inst |-> i, verb |-> v ]
  <2>1. req \in Request
    BY LifecycleAssumption DEF Request
  <2>2. api' = [api EXCEPT ![t] = req]
    BY <1>2 DEF ApiRead
  <2>. HIDE DEF req
  <2>. QED BY <1>2, <2>1, <2>2, StillKnown, JobsUnchangedKept
           DEF ApiRead, external, Known, TypeOK, RestTyped, DestroyedKept
<1>3. ASSUME NEW t \in Threads, ApiCheck(t)
      PROVE  Known' /\ DestroyedKept
  <2>1. api[t] \in Request
    BY <1>3 DEF ApiCheck, Known, TypeOK, IdleRequest
  <2>2. [api[t] EXCEPT !.pc = "checked"] \in Request
    BY <2>1 DEF Request
  <2>. QED BY <1>3, <2>2, StillKnown, JobsUnchangedKept
           DEF ApiCheck, external, Known, TypeOK, RestTyped, DestroyedKept
<1>4. ASSUME NEW t \in Threads, ApiInsert(t)
      PROVE  Known' /\ DestroyedKept
  <2>1. api[t].verb \in JobTypes /\ api[t].inst \in Instances
    BY <1>4 DEF ApiInsert, Known, TypeOK, Request, IdleRequest, JobTypes
  <2>2. RowsKept
    BY <1>4, <2>1, AppendAdds, AddedRowsKept DEF Known, ApiInsert, Insert
  <2>. QED BY <1>4, <2>2, StillKnown
           DEF ApiInsert, external, Known, TypeOK, RestTyped, DestroyedKept
<1>5. CASE WorkerStep
  BY <1>5, WorkerKnown
<1>6. CASE Crash
  BY <1>6, RestingKnown, JobsUnchangedKept
     DEF Crash, external, Known, TypeOK, RestTyped, DestroyedKept
<1>7. ASSUME NEW i \in Instances, NEW t \in PxTasks, TaskRuns(i, t)
      PROVE  Known' /\ DestroyedKept
  <2>1. /\ vm[i] \in VmStates /\ tasks[i] \subseteq PxTasks
        /\ PoweredOn(vm[i]) \in VmStates /\ PoweredOff(vm[i]) \in VmStates
    BY DEF Known, TypeOK, PoweredOn, PoweredOff, VmStates
  <2>2. vm' \in [Instances -> VmStates] /\ tasks' \in [Instances -> SUBSET PxTasks]
    BY <1>7, <2>1 DEF TaskRuns, Known, TypeOK, PxTasks
  <2>. QED BY <1>7, <2>2, StillKnown, JobsUnchangedKept
           DEF TaskRuns, Known, TypeOK, RestTyped, DestroyedKept
<1>8. ASSUME NEW i \in Instances, PowerDrift(i)
      PROVE  Known' /\ DestroyedKept
  <2>1. vm' \in [Instances -> VmStates] /\ drifts' \in Nat
    BY <1>8 DEF PowerDrift, Known, TypeOK, VmStates
  <2>. QED BY <1>8, <2>1, StillKnown, JobsUnchangedKept
           DEF PowerDrift, Known, TypeOK, RestTyped, DestroyedKept
<1>9. ASSUME NEW k \in JobIds, RunAfterPasses(k)
      PROVE  Known' /\ DestroyedKept
  <2>1. RowsKept
    BY <1>9, BecomeDueUpdates, UpdatedRowsKept DEF RunAfterPasses, Known
  <2>. QED BY <1>9, <2>1, StillKnown
           DEF RunAfterPasses, external, Known, TypeOK, RestTyped, DestroyedKept
<1>10. CASE UNCHANGED vars
  BY <1>10, StillKnown, JobsUnchangedKept DEF vars, Known, TypeOK, RestTyped, DestroyedKept
<1>. QED BY <1>1, <1>2, <1>3, <1>4, <1>5, <1>6, <1>7, <1>8, <1>9, <1>10
         DEF Next, RequestStep, Environment

RecInv == HandlerKnows /\ RecTypeOK

LEMMA PassStep ==
    ASSUME RecInv, RecStep
    PROVE  RecInv' /\ (RecCommit \/ UNCHANGED status)
<1>1. Known /\ MaxAborts \in Nat /\ aborts \in Nat
  BY MaxAbortsAssumption DEF RecInv, RecTypeOK, Known
<1>2. CASE RecLoad
  <2>1. rec' \in Pass
    BY <1>1, <1>2 DEF RecLoad, Pass, Known, TypeOK
  <2>. QED BY <1>1, <1>2, <2>1 DEF RecLoad, vars, RecInv, RecTypeOK, Known, TypeOK, HandlerKnows,
               Me, Srv, JobIds
<1>3. ASSUME NEW i \in Instances, RecCheck(i)
      PROVE  RecInv' /\ UNCHANGED status
  <2>1. rec \in Pass
    BY <1>3 DEF RecCheck, RecInv, RecTypeOK, NoPass
  <2>2. Decided \subseteq Instances
    BY DEF Decided
  <2> DEFINE rest == [rec EXCEPT !.todo = @ \ {i}, !.locked = Decided]
  <2>4. rest \in Pass
    BY <2>1, <2>2 DEF Pass
  <2>5. rec' = rest \/ rec' = [rest EXCEPT !.pc = "ask", !.cur = i]
    BY <1>3 DEF RecCheck
  <2>. HIDE DEF rest
  <2>3. rec' \in Pass
    BY <2>4, <2>5 DEF Pass
  <2>. QED BY <1>1, <1>3, <2>3 DEF RecCheck, vars, RecInv, RecTypeOK, Known, TypeOK, HandlerKnows,
               Me, Srv, JobIds
<1>4. CASE RecAsk
  <2>1. rec \in Pass
    BY <1>4 DEF RecAsk, RecInv, RecTypeOK, NoPass
  <2> DEFINE r == IF Actual(rec.cur) # Expected(rec.loaded[rec.cur])
                    THEN Actual(rec.cur) ELSE NoRepair
  <2>2. r \in {NoRepair, "running", "stopped"}
    BY DEF Actual
  <2>3. rec' = [rec EXCEPT !.pc = "scan", !.cur = Nobody, !.repair[rec.cur] = r]
    BY <1>4 DEF RecAsk
  <2>. HIDE DEF r
  <2>4. rec' \in Pass
    BY <2>1, <2>2, <2>3 DEF Pass
  <2>. QED BY <1>1, <1>4, <2>4 DEF RecAsk, vars, RecInv, RecTypeOK, Known, TypeOK, HandlerKnows,
               Me, Srv, JobIds
<1>5. CASE RecCommit
  <2>1. rec \in Pass
    BY <1>5 DEF RecCommit, RecInv, RecTypeOK, NoPass
  <2>2. \A i \in Decided : rec.repair[i] \in {"running", "stopped"}
    BY <2>1 DEF Pass, Decided
  <2>3. /\ status' \in [Instances -> RowStatuses]
        /\ \A i \in Instances : status'[i] = "destroyed" => status[i] = "destroyed"
    BY <1>1, <1>5, <2>2 DEF RecCommit, Known, TypeOK, RowStatuses, ALL_STATES
  <2>4. RowsKept /\ RestTyped /\ UNCHANGED worker
    BY <1>1, <1>5, JobsUnchangedKept DEF RecCommit, external, Known, TypeOK, RestTyped
  <2>5. Known'
    BY <1>1, <2>3, <2>4, StillKnown
  <2>. QED BY <1>5, <2>5 DEF RecCommit, RecInv, RecTypeOK, Known
<1>6. CASE RecAbort
  BY <1>1, <1>6 DEF RecAbort, vars, RecInv, RecTypeOK, Known, TypeOK, HandlerKnows, Me, Srv, JobIds
<1>. QED BY <1>2, <1>3, <1>4, <1>5, <1>6 DEF RecStep

LEMMA RecNextInv ==
    ASSUME RecInv, [RecNext]_recvars
    PROVE  RecInv' /\ (RecCommit \/ DestroyedKept)
<1>1. CASE ServerStep \/ UNCHANGED recvars
  <2>1. [Next]_vars /\ UNCHANGED <<rec, aborts>> /\ Known
    BY <1>1 DEF ServerStep, recvars, RecInv, RecTypeOK, Known
  <2>2. Known' /\ DestroyedKept
    BY <2>1, NextKnown
  <2>. QED BY <2>1, <2>2 DEF RecInv, RecTypeOK, Known
<1>2. CASE RecStep
  BY <1>2, PassStep DEF DestroyedKept
<1>. QED BY <1>1, <1>2 DEF RecNext

(* Beside the reconciler everything keeps its type and a busy worker knows *)
(* of a destroyed server that it is destroyed, for any number of servers,  *)
(* passes and jobs.                                                        *)
THEOREM RecInvAlways == RecSpec => []RecInv
<1>1. RecInit => RecInv
  <2>1. Init => TypeOK /\ worker = IdleWorker
    BY InitInv DEF Inv, Init
  <2>. QED BY <2>1 DEF RecInit, RecInv, RecTypeOK, HandlerKnows, IdleWorker, Resting
<1>2. RecInv /\ [RecNext]_recvars => RecInv'
  BY RecNextInv
<1>. QED BY <1>1, <1>2, PTL DEF RecSpec

(* A destroyed server comes back only by the commit of a pass that had     *)
(* decided on its repair (reconciler.py:46-62).                            *)
THEOREM DestroyedForGoodAlways == RecSpec => DestroyedForGood
<1>1. RecInv /\ [RecNext]_recvars =>
        [\A i \in Instances : status[i] = "destroyed" =>
            \/ status'[i] = "destroyed"
            \/ i \in Decided /\ RecCommit]_recvars
  <2>. SUFFICES ASSUME RecInv, [RecNext]_recvars, NEW i \in Instances, status[i] = "destroyed"
                PROVE  status'[i] = "destroyed" \/ (i \in Decided /\ RecCommit)
    OBVIOUS
  <2>1. CASE DestroyedKept
    BY <2>1 DEF DestroyedKept
  <2>2. CASE RecCommit
    BY <2>2 DEF RecCommit
  <2>. QED BY <2>1, <2>2, RecNextInv
<1>. QED BY <1>1, RecInvAlways, PTL DEF RecSpec, DestroyedForGood

-----------------------------------------------------------------------------
(***************************************************************************)
(* NoLimbo and NoStrandedRow beside the reconciler.  What a busy worker    *)
(* has loaded is the status of its server unless a pass wrote running or   *)
(* stopped over that; neither is in flight, so nobody has to answer for    *)
(* it.  Where the two agree the invariant is Inv; the rest is about the    *)
(* states in which a pass has overtaken the handler.                       *)
(***************************************************************************)
Overtaken == worker.pc \notin Resting /\ status[Srv] \in {"running", "stopped"}

BusyBeside ==
    IF worker.pc \in Resting
    THEN worker.job = 0
    ELSE /\ worker.job \in JobIds
         /\ Me.status = "running"
         /\ worker.seen = status[Srv] \/ status[Srv] \in {"running", "stopped"}
         /\ StepFits(worker.pc, Me.type, worker.seen)

BesideInv == TypeOK /\ BusyBeside /\ NoStrandedRow /\ RowsExist /\ LimboInv

LEMMA InvBeside == Inv => BesideInv
BY DEF Inv, BesideInv, BusyInv, BusyBeside

LEMMA BesideInvs == BesideInv => Inv \/ Overtaken
BY DEF Inv, BesideInv, BusyInv, BusyBeside, Overtaken

LEMMA BesideInHand == BesideInv => InHand
BY DEF BesideInv, InHand, BusyBeside, RowInHand

LEMMA OvertakenRow ==
    ASSUME BesideInv, Overtaken
    PROVE  /\ worker.job \in JobIds /\ worker.job # 0 /\ worker.pc \notin Resting
           /\ Me \in Job /\ Me.status = "running" /\ Me.type \in JobTypes
           /\ Srv \in Instances /\ status[Srv] \in {"running", "stopped"}
           /\ StepFits(worker.pc, Me.type, worker.seen)
           /\ Known
<1>1. /\ worker.job \in JobIds /\ Me.status = "running" /\ TypeOK
      /\ StepFits(worker.pc, Me.type, worker.seen)
  BY DEF BesideInv, BusyBeside, Overtaken
<1>2. Me \in Job /\ Me.type \in JobTypes /\ Srv \in Instances /\ worker.job # 0
  BY <1>1, RowAt DEF Me, Srv
<1>3. Fits(worker.pc, Me.type)
  BY <1>1 DEF StepFits, Fits
<1>. QED BY <1>1, <1>2, <1>3 DEF Overtaken, Known, HandlerKnows

(* The row of a handler that was overtaken answers for nobody.             *)
LEMMA OvertakenLimbo ==
    ASSUME BesideInv, Overtaken, worker'.job \in {0, worker.job},
           \A k \in JobIds : /\ k \in JobIds' /\ Kept(k)
                             /\ k # worker.job => jobs'[k].status = jobs[k].status,
           \A i \in Instances : status'[i] \in InFlight =>
              (i # Srv /\ status'[i] = status[i]) \/ \E k \in JobIds' : AnswersFor(k, i)'
    PROVE  LimboInv'
<1>. SUFFICES ASSUME NEW i \in Instances, status'[i] \in InFlight,
                     i # Srv /\ status'[i] = status[i]
              PROVE  \E k \in JobIds' : AnswersFor(k, i)'
  BY DEF LimboInv
<1>1. PICK k \in JobIds : AnswersFor(k, i)
  BY DEF BesideInv, LimboInv
<1>2. k # worker.job /\ k # 0
  BY <1>1, OvertakenRow, RowAt DEF AnswersFor, Srv, Me, BesideInv
<1>3. AnswersFor(k, i)'
  BY <1>1, <1>2 DEF AnswersFor, Active, Finished, Kept
<1>. QED BY <1>3

(* No step makes a server's row vanish.                                    *)
LEMMA StillExist ==
    ASSUME BesideInv, Grown, UNCHANGED api,
           \A i \in Instances : status[i] # "absent" => status'[i] # "absent"
    PROVE  RowsExist'
<1>1. \A t \in Threads : api[t].pc # "idle" => api[t].inst \in Instances
  BY DEF BesideInv, TypeOK, Request, IdleRequest
<1>2. \A k \in JobIds : k \in JobIds' /\ Kept(k) /\ jobs[k].inst \in Instances
  BY GrownIds, RowAt DEF BesideInv, Grown
<1>. QED BY <1>1, <1>2 DEF BesideInv, RowsExist, Grown, Kept

-----------------------------------------------------------------------------
(* A handler goes on to a step of its own, whatever the status is.         *)
Onward ==
    \E pc \in WorkerPcs \ Resting : \E s :
        /\ GoTo(pc, s) /\ StepFits(pc, Me.type, s)
        /\ \/ status' = status /\ s \in {worker.seen, status[Srv]}
           \/ /\ status' = [status EXCEPT ![Srv] = s] /\ s \in ALL_STATES
              /\ \/ s \notin InFlight
                 \/ /\ Me.type \in DOMAIN Through /\ s = Through[Me.type]
                    /\ pc # "succeed" /\ UNCHANGED jobs
                 \/ s = "booting" /\ Added("await_ready", Srv)

LEMMA HandlerOnward ==
    ASSUME BesideInv, Overtaken, HandlerStep
    PROVE  Onward
<1> DEFINE Free == {"succeed", "clone"}
           Remains(pc, s) == GoTo(pc, s) /\ UNCHANGED status /\ s \in {worker.seen, status[Srv]}
           Settles(pc, s) == /\ GoTo(pc, s) /\ status' = [status EXCEPT ![Srv] = s]
                             /\ s \in ALL_STATES \ InFlight
           OnlyIts == /\ Me.type \in DOMAIN Through
                      /\ worker.seen = Through[Me.type]
<1>1. ASSUME NEW pc \in WorkerPcs \ Resting, NEW s, StepFits(pc, Me.type, s),
             Remains(pc, s) \/ Settles(pc, s)
      PROVE  Onward
  BY <1>1 DEF Onward
<1>2. \A s : StepFits("succeed", Me.type, s)
  BY DEF StepFits
<1>3. HandlerPcs \subseteq WorkerPcs \ Resting /\ "succeed" \in WorkerPcs \ Resting
  BY DEF WorkerPcs, HandlerPcs, Resting
<1>4. StepFits(worker.pc, Me.type, worker.seen)
  BY OvertakenRow
<1>5. CASE Enter
  <2>1. Me.type \in DOMAIN Through \ {"create"}
    BY <1>4, <1>5 DEF Enter, At, StepFits
  <2> DEFINE s == Through[Me.type]
             pc == IF Me.type \in PowerVerbs THEN "act" ELSE "power_off"
  <2>2. s \in ALL_STATES
    BY <2>1, ThroughTyped
  <2>3. pc \in HandlerPcs /\ pc # "succeed" /\ StepFits(pc, Me.type, s)
    BY <2>1 DEF HandlerPcs, StepFits, Through, BootVerbs, PowerVerbs
  <2>4. GoTo(pc, s) /\ UNCHANGED jobs /\ \/ UNCHANGED status /\ worker.seen = s
                                         \/ status' = [status EXCEPT ![Srv] = s]
    BY <1>5 DEF Enter
  <2>5. s = Through[Me.type]
    OBVIOUS
  <2>. HIDE DEF s, pc
  <2>. QED BY <1>3, <2>1, <2>2, <2>3, <2>4, <2>5 DEF Onward
<1>6. CASE PowerAct
  <2>1. StepFits("power_exit", Me.type, worker.seen) /\ Remains("power_exit", worker.seen)
    BY <1>4, <1>6 DEF PowerAct, At, StepFits
  <2>2. "power_exit" \in HandlerPcs
    BY DEF HandlerPcs
  <2>. QED BY <1>1, <1>3, <2>1, <2>2
<1>7. CASE PowerExit
  <2>1. Me.type \in PowerVerbs
    BY <1>4, <1>7 DEF PowerExit, At, StepFits
  <2>2. PowerTo[Me.type] \in ALL_STATES \ InFlight
    BY <2>1 DEF PowerTo, ALL_STATES, InFlight
  <2>3. Settles("succeed", PowerTo[Me.type])
    BY <1>7, <2>2 DEF PowerExit
  <2>. QED BY <1>1, <1>2, <1>3, <2>3
<1>8. CASE PowerOff
  <2>1. Me.type \in BootVerbs \cup {"destroy"} /\ worker.seen = Through[Me.type]
    BY <1>4, <1>8 DEF PowerOff, At, StepFits
  <2>2. AfterOff \in HandlerPcs /\ StepFits(AfterOff, Me.type, worker.seen)
    BY <2>1 DEF AfterOff, HandlerPcs, StepFits, BootVerbs
  <2>3. Me.type \in {"rebuild", "destroy"} =>
          AfterGone \in HandlerPcs /\ StepFits(AfterGone, Me.type, worker.seen)
    BY <2>1 DEF AfterGone, HandlerPcs, StepFits
  <2>4. \/ Remains(AfterOff, worker.seen)
        \/ Remains(AfterGone, worker.seen) /\ Me.type \in {"rebuild", "destroy"}
    BY <1>8 DEF PowerOff
  <2>. QED BY <1>1, <1>3, <2>2, <2>3, <2>4
<1>9. CASE Delete
  <2>1. Me.type \in {"rebuild", "destroy"} /\ worker.seen = Through[Me.type]
    BY <1>4, <1>9 DEF Delete, At, StepFits, Through
  <2>2. AfterGone \in HandlerPcs /\ StepFits(AfterGone, Me.type, worker.seen)
    BY <1>4, <1>9, <2>1 DEF AfterGone, HandlerPcs, StepFits, Delete, At
  <2>3. Remains(AfterGone, worker.seen)
    BY <1>9 DEF Delete
  <2>. QED BY <1>1, <1>3, <2>2, <2>3
<1>10. CASE Reclone \/ Clone
  <2>1. "configure" \in HandlerPcs /\ StepFits("configure", Me.type, worker.seen)
    BY <1>4, <1>10 DEF HandlerPcs, StepFits, Reclone, Clone, At
  <2>2. Remains("configure", worker.seen)
    BY <1>10 DEF Reclone, Clone
  <2>. QED BY <1>1, <1>3, <2>1, <2>2
<1>11. CASE ApplyPlan \/ Configure
  <2>1. "start_vm" \in HandlerPcs /\ StepFits("start_vm", Me.type, status[Srv])
    BY <1>4, <1>11 DEF HandlerPcs, StepFits, ApplyPlan, Configure, At, BootVerbs
  <2>2. Remains("start_vm", status[Srv])
    BY <1>11 DEF ApplyPlan, Configure
  <2>. QED BY <1>1, <1>3, <2>1, <2>2
<1>12. CASE RestoreDisk
  <2>1. /\ {"start_vm", "repin"} \subseteq HandlerPcs
        /\ StepFits("start_vm", Me.type, worker.seen)
        /\ Me.type = "restore_backup" => StepFits("repin", Me.type, worker.seen)
    BY <1>4, <1>12 DEF HandlerPcs, StepFits, RestoreDisk, At, BootVerbs
  <2>2. \/ Remains("start_vm", worker.seen)
        \/ Me.type = "restore_backup" /\ Remains("repin", worker.seen)
    BY <1>12 DEF RestoreDisk
  <2>. QED BY <1>1, <1>3, <2>1, <2>2
<1>13. CASE Repin
  <2>1. "start_vm" \in HandlerPcs /\ StepFits("start_vm", Me.type, worker.seen)
    BY <1>4, <1>13 DEF HandlerPcs, StepFits, Repin, At, BootVerbs
  <2>2. Remains("start_vm", worker.seen)
    BY <1>13 DEF Repin
  <2>. QED BY <1>1, <1>3, <2>1, <2>2
<1>14. CASE PickVmid
  <2> DEFINE s == IF "vmid" \in held[Srv] THEN worker.seen ELSE status[Srv]
  <2>1. "clone" \in HandlerPcs /\ StepFits("clone", Me.type, s)
    BY <1>4, <1>14 DEF HandlerPcs, StepFits, PickVmid, At
  <2>2. Remains("clone", s)
    BY <1>14 DEF PickVmid
  <2>. QED BY <1>1, <1>3, <2>1, <2>2
<1>15. CASE StartVm
  <2>1. "publish" \in HandlerPcs /\ StepFits("publish", Me.type, worker.seen)
    BY <1>4, <1>15 DEF HandlerPcs, StepFits, StartVm, At
  <2>2. Remains("publish", worker.seen)
    BY <1>15 DEF StartVm
  <2>. QED BY <1>1, <1>3, <2>1, <2>2
<1>16. CASE Publish
  <2>1. "booting" \in ALL_STATES
    BY DEF ALL_STATES
  <2>2. Added("await_ready", Srv)
    BY <1>16, OvertakenRow, PublishAdds DEF Publish, Known
  <2>3. GoTo("succeed", "booting") /\ status' = [status EXCEPT ![Srv] = "booting"]
    BY <1>16 DEF Publish
  <2>. QED BY <1>2, <1>3, <2>1, <2>2, <2>3 DEF Onward
<1>17. CASE ProbeMoot \/ ProbeAgain \/ Backup
  <2>1. Remains("succeed", worker.seen)
    BY <1>17 DEF ProbeMoot, ProbeAgain, Backup
  <2>. QED BY <1>1, <1>2, <1>3, <2>1
<1>18. CASE ProbeDone
  <2>1. Settles("succeed", "running")
    BY <1>18 DEF ProbeDone, ALL_STATES, InFlight
  <2>. QED BY <1>1, <1>2, <1>3, <2>1
<1>19. CASE Release
  <2>1. Settles("succeed", "destroyed")
    BY <1>19 DEF Release, ALL_STATES, InFlight
  <2>. QED BY <1>1, <1>2, <1>3, <2>1
<1>. QED BY <1>5, <1>6, <1>7, <1>8, <1>9, <1>10, <1>11, <1>12, <1>13, <1>14, <1>15, <1>16,
            <1>17, <1>18, <1>19 DEF HandlerStep

LEMMA OnwardGrows ==
    ASSUME BesideInv, Overtaken, HandlerStep, status'[Srv] # "absent"
    PROVE  Grown
<1>1. CASE UNCHANGED jobs
  BY <1>1, UnchangedGrows DEF BesideInv
<1>2. CASE PowerExit \/ ProbeDone \/ Backup \/ Release
  BY <1>2, OvertakenRow, RecordGrows DEF PowerExit, ProbeDone, Backup, Release, BesideInv
<1>3. CASE Publish
  BY <1>3, OvertakenRow, PublishAdds, AddedGrows DEF Publish, BesideInv
<1>4. CASE ProbeAgain
  <2>1. Me.poll + 1 \in Nat /\ "await_ready" \in JobTypes /\ Srv \in Instances
    BY OvertakenRow DEF Job, JobTypes
  <2>. QED BY <1>4, <2>1, AppendAdds, AddedGrows DEF ProbeAgain, BesideInv
<1>. QED BY <1>1, <1>2, <1>3, <1>4
         DEF HandlerStep, Enter, PowerAct, PowerOff, Delete, Reclone, ApplyPlan, RestoreDisk,
             Repin, PickVmid, Clone, Configure, StartVm, ProbeMoot

LEMMA HandlerBeside ==
    ASSUME BesideInv, Overtaken, HandlerStep
    PROVE  BesideInv'
<1>1. PICK pc \in WorkerPcs \ Resting : \E s :
        /\ GoTo(pc, s) /\ StepFits(pc, Me.type, s)
        /\ \/ status' = status /\ s \in {worker.seen, status[Srv]}
           \/ /\ status' = [status EXCEPT ![Srv] = s] /\ s \in ALL_STATES
              /\ \/ s \notin InFlight
                 \/ /\ Me.type \in DOMAIN Through /\ s = Through[Me.type]
                    /\ pc # "succeed" /\ UNCHANGED jobs
                 \/ s = "booting" /\ Added("await_ready", Srv)
  BY HandlerOnward DEF Onward
<1>2. PICK s :
        /\ GoTo(pc, s) /\ StepFits(pc, Me.type, s)
        /\ \/ status' = status /\ s \in {worker.seen, status[Srv]}
           \/ /\ status' = [status EXCEPT ![Srv] = s] /\ s \in ALL_STATES
              /\ \/ s \notin InFlight
                 \/ /\ Me.type \in DOMAIN Through /\ s = Through[Me.type]
                    /\ pc # "succeed" /\ UNCHANGED jobs
                 \/ s = "booting" /\ Added("await_ready", Srv)
  BY <1>1
<1>3. /\ worker.job \in JobIds /\ worker.job # 0 /\ Me.status = "running"
      /\ Srv \in Instances /\ status[Srv] \in {"running", "stopped"}
      /\ status \in [Instances -> RowStatuses]
  BY OvertakenRow DEF Known, TypeOK
<1>4. worker'.pc = pc /\ worker'.seen = s /\ worker'.job = worker.job
  BY <1>2 DEF GoTo, BesideInv, TypeOK, Worker
<1>5. /\ \A i \in Instances : i # Srv => status'[i] = status[i]
      /\ status'[Srv] = status[Srv] \/ (status'[Srv] = s /\ s \in ALL_STATES)
  BY <1>2, <1>3
<1>6. status'[Srv] # "absent"
  BY <1>3, <1>5 DEF ALL_STATES
<1>7. Grown
  BY <1>6, OnwardGrows
<1>8. \A k \in JobIds : k \in JobIds' /\ Kept(k) /\ jobs'[k].status = jobs[k].status
  BY <1>7, GrownIds DEF Grown, BesideInv
<1>9. Me'.type = Me.type /\ Srv' = Srv /\ Me'.status = "running"
  BY <1>3, <1>4, <1>8 DEF Me, Srv, Kept
<1>10. TypeOK'
  BY OvertakenRow, HandlerKnown DEF Known
<1>11. BusyBeside'
  <2>1. s = status'[Srv] \/ status'[Srv] \in {"running", "stopped"}
    BY <1>2, <1>3, <1>5
  <2>. QED BY <1>1, <1>2, <1>3, <1>4, <1>8, <1>9, <2>1 DEF BusyBeside
<1>12. NoStrandedRow'
  <2>1. worker.pc # "down" /\ pc # "down"
    BY <1>1, OvertakenRow DEF Resting
  <2>. QED BY <1>4, <1>7, <1>8, <2>1 DEF BesideInv, NoStrandedRow, Grown, At
<1>13. RowsExist'
  <2>1. UNCHANGED api
    BY DEF HandlerStep, Enter, PowerAct, PowerExit, PowerOff, Delete, Reclone, ApplyPlan,
           RestoreDisk, Repin, PickVmid, Clone, Configure, StartVm, Publish, ProbeMoot,
           ProbeDone, ProbeAgain, Backup, Release
  <2>. QED BY <1>5, <1>6, <1>7, <2>1, StillExist
<1>14. ASSUME NEW i \in Instances, i = Srv, status'[i] \in InFlight
       PROVE  \E k \in JobIds' : AnswersFor(k, i)'
  <2>1. status'[Srv] = s /\ \/ /\ Me.type \in DOMAIN Through /\ s = Through[Me.type]
                               /\ pc # "succeed" /\ UNCHANGED jobs
                            \/ s = "booting" /\ Added("await_ready", Srv)
    BY <1>2, <1>3, <1>14 DEF InFlight
  <2>2. CASE /\ Me.type \in DOMAIN Through /\ s = Through[Me.type]
             /\ pc # "succeed" /\ UNCHANGED jobs
    <3>1. Me.type \in DOMAIN OwnStatus /\ OwnStatus[Me.type] = s
      BY <2>2, ThroughTyped
    <3>2. PICK k \in JobIds : k = worker.job
      BY <1>3
    <3>3. /\ jobs'[k].inst = i /\ jobs'[k].type = Me.type /\ jobs'[k].status = "running"
          /\ status'[i] = s
      BY <1>3, <1>8, <1>14, <2>1, <3>2 DEF Me, Srv, Kept
    <3>4. AnswersFor(k, i)'
      BY <1>4, <2>2, <3>1, <3>3 DEF AnswersFor, Active, ACTIVE_JOB_STATUSES, Finished
    <3>. QED BY <1>8, <3>2, <3>4
  <2>3. CASE s = "booting" /\ Added("await_ready", Srv)
    <3>1. PICK k \in JobIds' : k = Len(jobs) + 1 /\ k \notin JobIds
      BY <1>6, <2>3, AddedGrows DEF BesideInv
    <3>2. "await_ready" \in DOMAIN OwnStatus /\ OwnStatus["await_ready"] = "booting"
      BY DEF OwnStatus, Through
    <3>3. AnswersFor(k, i)'
      BY <1>3, <1>4, <1>14, <2>1, <2>3, <3>1, <3>2
         DEF Added, AnswersFor, Active, ACTIVE_JOB_STATUSES, Finished
    <3>. QED BY <3>3
  <2>. QED BY <2>1, <2>2, <2>3
<1>15. LimboInv'
  <2>1. ASSUME NEW i \in Instances, status'[i] \in InFlight
        PROVE  (i # Srv /\ status'[i] = status[i]) \/ \E k \in JobIds' : AnswersFor(k, i)'
    <3>1. CASE i = Srv
      BY <1>14, <2>1, <3>1
    <3>. QED BY <1>5, <3>1
  <2>. QED BY <1>4, <1>8, <2>1, OvertakenLimbo
<1>. QED BY <1>10, <1>11, <1>12, <1>13, <1>15 DEF BesideInv

-----------------------------------------------------------------------------
(* Steps that leave an overtaken handler alone.                            *)
LEMMA StillBeside ==
    ASSUME BesideInv, Overtaken, TypeOK', Grown, ApiRowsExist', UNCHANGED worker,
           \A i \in Instances : status[i] # "absent" => status'[i] = status[i],
           \A i \in Instances : status'[i] \in InFlight =>
              status'[i] = status[i] \/ \E k \in JobIds' : AnswersFor(k, i)'
    PROVE  BesideInv'
<1>1. \A k \in JobIds : /\ k \in JobIds' /\ Kept(k) /\ jobs'[k].status = jobs[k].status
                        /\ jobs[k].inst \in Instances /\ status[jobs[k].inst] # "absent"
  BY GrownIds, RowAt DEF BesideInv, RowsExist, Grown
<1>2. /\ worker.job \in JobIds /\ worker.pc \notin Resting /\ Me.status = "running"
      /\ Srv \in Instances /\ status[Srv] \in {"running", "stopped"}
      /\ StepFits(worker.pc, Me.type, worker.seen)
  BY OvertakenRow
<1>3. Me'.type = Me.type /\ Srv' = Srv /\ Me'.status = "running" /\ status'[Srv] = status[Srv]
  BY <1>1, <1>2 DEF Me, Srv, Kept
<1>4. BusyBeside'
  BY <1>1, <1>2, <1>3 DEF BusyBeside
<1>5. NoStrandedRow'
  BY <1>1 DEF BesideInv, NoStrandedRow, Grown, At
<1>6. RowsExist'
  BY <1>1 DEF RowsExist, Grown, Kept, ApiRowsExist
<1>7. LimboInv'
  <2>1. ASSUME NEW i \in Instances, status'[i] \in InFlight
        PROVE  (i # Srv /\ status'[i] = status[i]) \/ \E k \in JobIds' : AnswersFor(k, i)'
    <3>1. i # Srv \/ status'[i] # status[i]
      BY <1>2, <2>1 DEF InFlight
    <3>. QED BY <1>3, <2>1, <3>1
  <2>. QED BY <1>1, <2>1, OvertakenLimbo
<1>. QED BY <1>4, <1>5, <1>6, <1>7 DEF BesideInv

LEMMA ProvisionBeside ==
    ASSUME BesideInv, Overtaken, TypeOK', NEW i \in Instances, Provision(i)
    PROVE  BesideInv'
<1>1. /\ status[i] = "absent" /\ status' = [status EXCEPT ![i] = "provisioning"]
      /\ UNCHANGED << held, worker, api, vm, tasks, drifts, crashes >>
  BY DEF Provision, external
<1>2. /\ status'[i] = "provisioning"
      /\ \A j \in Instances : j # i => status'[j] = status[j]
  BY <1>1 DEF BesideInv, TypeOK
<1>3. Added("create", i)
  BY AppendAdds DEF BesideInv, Provision, Insert, JobTypes
<1>4. Grown /\ Len(jobs) + 1 \in JobIds' /\ Len(jobs) + 1 \notin JobIds
  BY <1>2, <1>3, AddedGrows DEF BesideInv
<1>5. ApiRowsExist'
  <2>1. \A t \in Threads : api[t].pc # "idle" => api[t].inst \in Instances
    BY DEF BesideInv, TypeOK, Request, IdleRequest
  <2>. QED BY <1>1, <1>2, <2>1 DEF BesideInv, RowsExist, ApiRowsExist
<1>6. \E k \in JobIds' : AnswersFor(k, i)'
  <2>1. PICK k \in JobIds' : k = Len(jobs) + 1
    BY <1>4
  <2>2. "create" \in DOMAIN OwnStatus /\ OwnStatus["create"] = "provisioning"
    BY DEF OwnStatus, Through
  <2>3. k # worker.job
    BY <1>4, <2>1, OvertakenRow
  <2>4. AnswersFor(k, i)'
    BY <1>1, <1>2, <1>3, <2>1, <2>2, <2>3
       DEF Added, AnswersFor, Active, ACTIVE_JOB_STATUSES, Finished
  <2>. QED BY <2>4
<1>. QED BY <1>1, <1>2, <1>4, <1>5, <1>6, StillBeside

LEMMA RequestBeside ==
    ASSUME BesideInv, Overtaken, TypeOK', RequestStep
    PROVE  BesideInv'
<1>1. ASSUME NEW t \in Threads, NEW i \in Instances, NEW v \in UserVerbs, ApiRead(t, i, v)
      PROVE  BesideInv'
  <2>1. /\ status[i] # "absent" /\ api' = [api EXCEPT ![t] = [ pc |-> "read", inst |-> i,
                                                               verb |-> v ]]
        /\ UNCHANGED << jobs, status, worker >>
    BY <1>1 DEF ApiRead
  <2>2. ApiRowsExist'
    BY <2>1 DEF BesideInv, TypeOK, RowsExist, ApiRowsExist
  <2>. QED BY <2>1, <2>2, UnchangedGrows, StillBeside DEF BesideInv
<1>2. ASSUME NEW t \in Threads, ApiCheck(t)
      PROVE  BesideInv'
  <2> DEFINE req == IF HasActiveJob(api[t].inst) THEN IdleRequest
                    ELSE [api[t] EXCEPT !.pc = "checked"]
  <2>1. api[t] \in Request /\ status[api[t].inst] # "absent"
    BY <1>2 DEF ApiCheck, BesideInv, TypeOK, IdleRequest, RowsExist
  <2>2. req.pc # "idle" => req.inst = api[t].inst
    BY <2>1 DEF Request, IdleRequest
  <2>3. api' = [api EXCEPT ![t] = req] /\ UNCHANGED << jobs, status, worker >>
    BY <1>2 DEF ApiCheck
  <2>. HIDE DEF req
  <2>4. ApiRowsExist'
    BY <2>1, <2>2, <2>3 DEF BesideInv, TypeOK, RowsExist, ApiRowsExist
  <2>. QED BY <2>3, <2>4, UnchangedGrows, StillBeside DEF BesideInv
<1>3. ASSUME NEW t \in Threads, ApiInsert(t)
      PROVE  BesideInv'
  <2>1. /\ api[t].pc = "checked" /\ api' = [api EXCEPT ![t] = IdleRequest]
        /\ jobs' = Append(jobs, NewJob(api[t].verb, api[t].inst, TRUE, 0))
        /\ UNCHANGED << status, worker >>
    BY <1>3 DEF ApiInsert, Insert
  <2>2. /\ api[t].verb \in JobTypes /\ api[t].inst \in Instances
        /\ status[api[t].inst] # "absent"
    BY <2>1 DEF BesideInv, TypeOK, Request, IdleRequest, RowsExist, JobTypes
  <2>3. Added(api[t].verb, api[t].inst)
    BY <2>1, <2>2, AppendAdds DEF BesideInv
  <2>4. Grown
    BY <2>1, <2>2, <2>3, AddedGrows DEF BesideInv
  <2>5. ApiRowsExist'
    BY <2>1 DEF BesideInv, TypeOK, RowsExist, ApiRowsExist, IdleRequest
  <2>. QED BY <2>1, <2>4, <2>5, StillBeside
<1>. QED BY <1>1, <1>2, <1>3, ProvisionBeside DEF RequestStep

LEMMA EnvironmentBeside ==
    ASSUME BesideInv, Overtaken, TypeOK', Environment \/ UNCHANGED vars
    PROVE  BesideInv'
<1>1. UNCHANGED << status, worker, api >>
  BY DEF Environment, TaskRuns, PowerDrift, RunAfterPasses, vars
<1>2. Grown
  <2>1. CASE UNCHANGED jobs
    BY <2>1, UnchangedGrows DEF BesideInv
  <2>2. ASSUME NEW k \in JobIds, RunAfterPasses(k)
        PROVE  Grown
    BY <2>2, BecomeDueUpdates, UpdatedGrows DEF RunAfterPasses, BesideInv
  <2>. QED BY <2>1, <2>2 DEF Environment, TaskRuns, PowerDrift, vars
<1>3. ApiRowsExist'
  BY <1>1 DEF BesideInv, RowsExist, ApiRowsExist
<1>. QED BY <1>1, <1>2, <1>3, StillBeside

(* Steps with which an overtaken handler comes to rest.                    *)
LEMMA RestBeside ==
    ASSUME BesideInv, Overtaken, TypeOK', UNCHANGED api,
           \A k \in JobIds : Kept(k) /\ (k # worker.job => jobs'[k] = jobs[k]),
           JobIds' = JobIds,
           worker' = DownWorker \/ (worker' = IdleWorker /\ jobs'[worker.job].status # "running"),
           \A i \in Instances : status'[i] # status[i] => i = Srv /\ status'[i] = "error"
    PROVE  BesideInv'
<1>1. worker'.pc \in Resting /\ worker'.job = 0 /\ (worker'.pc = "down" \/ worker' = IdleWorker)
  BY DEF IdleWorker, DownWorker, Resting
<1>2. BusyBeside'
  BY <1>1 DEF BusyBeside
<1>3. NoStrandedRow'
  <2>1. worker.pc # "down"
    BY OvertakenRow DEF Resting
  <2>. QED BY <1>1, <2>1 DEF BesideInv, NoStrandedRow, At, DownWorker
<1>4. RowsExist'
  <2>1. \A t \in Threads : api[t].pc # "idle" => api[t].inst \in Instances
    BY DEF BesideInv, TypeOK, Request, IdleRequest
  <2>2. \A i \in Instances : status[i] # "absent" => status'[i] # "absent"
    OBVIOUS
  <2>. QED BY <2>1, <2>2, RowAt DEF BesideInv, RowsExist, Kept
<1>5. LimboInv'
  <2>1. ASSUME NEW i \in Instances, status'[i] \in InFlight
        PROVE  i # Srv /\ status'[i] = status[i]
    BY <2>1, OvertakenRow DEF InFlight
  <2>. QED BY <1>1, <2>1, OvertakenLimbo
<1>. QED BY <1>2, <1>3, <1>4, <1>5 DEF BesideInv

LEMMA WorkerBeside ==
    ASSUME BesideInv, Overtaken, TypeOK', WorkerStep \/ Crash
    PROVE  BesideInv'
<1>1. CASE WorkerBoot \/ \E k \in JobIds : Claim(k)
  BY <1>1, OvertakenRow DEF WorkerBoot, Claim, At, Resting
<1>2. CASE HandlerStep
  BY <1>2, HandlerBeside
<1>3. CASE Raise
  <2> DEFINE s == IF Exhausted(worker.job) THEN "dead" ELSE "failed"
  <2>1. Updated(worker.job, s) /\ s # "running"
    BY <1>3, OvertakenRow, FailRowUpdates DEF Raise, BesideInv
  <2>2. \A i \in Instances : status'[i] # status[i] => i = Srv /\ status'[i] = "error"
    BY <1>3, OvertakenRow DEF Raise, BesideInv, TypeOK
  <2>. HIDE DEF s
  <2>3. /\ \A k \in JobIds : Kept(k) /\ (k # worker.job => jobs'[k] = jobs[k])
        /\ JobIds' = JobIds /\ jobs'[worker.job].status # "running"
    BY <2>1 DEF Updated, JobIds
  <2>. QED BY <1>3, <2>2, <2>3, RestBeside DEF Raise
<1>4. CASE Succeed
  <2>1. Updated(worker.job, "succeeded")
    BY <1>4, OvertakenRow, SetStatusUpdates DEF Succeed, BesideInv, JobStatuses
  <2>2. /\ \A k \in JobIds : Kept(k) /\ (k # worker.job => jobs'[k] = jobs[k])
        /\ JobIds' = JobIds /\ jobs'[worker.job].status # "running"
    BY <2>1 DEF Updated, JobIds
  <2>. QED BY <1>4, <2>2, RestBeside DEF Succeed
<1>5. CASE Crash
  BY <1>5, RestBeside DEF Crash, Kept, JobIds
<1>. QED BY <1>1, <1>2, <1>3, <1>4, <1>5 DEF WorkerStep

LEMMA ServerBeside ==
    ASSUME BesideInv, [Next]_vars
    PROVE  BesideInv'
<1>1. CASE Inv
  BY <1>1, NextInv, InvBeside, PTL
<1>2. CASE Overtaken
  <2>1. TypeOK'
    BY <1>2, OvertakenRow, NextKnown DEF Known
  <2>. QED BY <1>2, <2>1, RequestBeside, WorkerBeside, EnvironmentBeside DEF Next
<1>. QED BY <1>1, <1>2, BesideInvs

(* The commit of a pass takes servers out of flight and puts none in.      *)
LEMMA PassBeside ==
    ASSUME BesideInv, RecTypeOK, RecStep, TypeOK'
    PROVE  BesideInv'
<1>1. CASE UNCHANGED vars
  <2>1. UNCHANGED << jobs, status, worker, api >>
    BY <1>1 DEF vars
  <2>. QED BY <2>1 DEF BesideInv, BusyBeside, NoStrandedRow, RowsExist, LimboInv, AnswersFor,
               Finished, Active, Me, Srv, JobIds, At
<1>2. CASE RecCommit
  <2>1. UNCHANGED << jobs, worker, api >>
    BY <1>2 DEF RecCommit
  <2>2. \A i \in Instances : status'[i] = status[i] \/ status'[i] \in {"running", "stopped"}
    BY <1>2 DEF RecCommit, RecTypeOK, NoPass, Pass, Decided
  <2>3. \A k \in JobIds : jobs[k].inst \in Instances
    BY RowAt DEF BesideInv
  <2>4. BusyBeside'
    BY <2>1, <2>2, <2>3 DEF BesideInv, BusyBeside, Me, Srv, JobIds
  <2>5. NoStrandedRow'
    BY <2>1 DEF BesideInv, NoStrandedRow, JobIds, At
  <2>6. RowsExist'
    <3>1. \A t \in Threads : api[t].pc # "idle" => api[t].inst \in Instances
      BY DEF BesideInv, TypeOK, Request, IdleRequest
    <3>. QED BY <2>1, <2>2, <2>3, <3>1 DEF BesideInv, RowsExist, JobIds
  <2>7. LimboInv'
    BY <2>1, <2>2 DEF BesideInv, LimboInv, AnswersFor, Finished, Active, JobIds, InFlight
  <2>. QED BY <2>4, <2>5, <2>6, <2>7 DEF BesideInv
<1>. QED BY <1>1, <1>2 DEF RecStep, RecLoad, RecCheck, RecAsk, RecAbort

THEOREM BesideAlways == RecSpec => []BesideInv
<1>1. RecInit => BesideInv
  BY InitInv, InvBeside DEF RecInit
<1>2. RecInv /\ RecInv' /\ BesideInv /\ [RecNext]_recvars => BesideInv'
  <2>. SUFFICES ASSUME RecInv, RecInv', BesideInv, [RecNext]_recvars
                PROVE  BesideInv'
    OBVIOUS
  <2>1. CASE ServerStep \/ UNCHANGED recvars
    <3>1. [Next]_vars
      BY <2>1 DEF ServerStep, recvars
    <3>. QED BY <3>1, ServerBeside
  <2>2. CASE RecStep
    BY <2>2, PassBeside DEF RecInv, RecTypeOK
  <2>. QED BY <2>1, <2>2 DEF RecNext
<1>. QED BY <1>1, <1>2, RecInvAlways, PTL DEF RecSpec

(* No limbo beside the reconciler either: whatever a pass writes over a    *)
(* status that a handler has loaded, at whatever moment, a server in an    *)
(* in-flight status has a job (reconciler.py:46-62, handlers.py).          *)
THEOREM NoLimboBeside == RecSpec => []NoLimbo
<1>1. BesideInv => NoLimbo
  BY DEF BesideInv, LimboInv, NoLimbo, AnswersFor, HasActiveJob
<1>. QED BY <1>1, BesideAlways, PTL

(* Nor does a row stay running that no restart will queue again.           *)
THEOREM NoStrandedRowBeside == RecSpec => []NoStrandedRow
<1>1. BesideInv => NoStrandedRow
  BY DEF BesideInv
<1>. QED BY <1>1, BesideAlways, PTL

(* A settled row is history beside the reconciler as well: a pass reads    *)
(* the table and never writes it (reconciler.py:46-62).                    *)
THEOREM SettledRowsStayBeside == RecSpec => SettledStays
<1>1. BesideInv /\ [RecNext]_recvars =>
        [\A k \in JobIds : ~Active(k) => k \in JobIds' /\ jobs'[k] = jobs[k]]_vars
  <2>. SUFFICES ASSUME BesideInv, [RecNext]_recvars
                PROVE  Stays
    BY DEF Stays
  <2>1. CASE [Next]_vars
    BY <2>1, BesideInHand, NextStays
  <2>2. CASE UNCHANGED jobs
    BY <2>2 DEF Stays, JobIds
  <2>. QED BY <2>1, <2>2 DEF RecNext, ServerStep, RecStep, RecLoad, RecCheck, RecAsk, RecCommit,
               RecAbort, recvars, vars
<1>. QED BY <1>1, BesideAlways, PTL DEF RecSpec, SettledStays

(* What a handler does is recorded once, also if a pass has written over   *)
(* the status it works on, until the worker crashes.                       *)
THEOREM AppliedOnceBeside == RecSpec => []AppliedOnceUncrashed
<1>1. RecInit => AppliedInv
  BY DEF RecInit, Init, AppliedInv, IdleWorker, At, JobIds
<1>2. BesideInv /\ AppliedInv /\ [RecNext]_recvars => AppliedInv'
  <2>. SUFFICES ASSUME BesideInv, AppliedInv, [RecNext]_recvars
                PROVE  AppliedInv'
    OBVIOUS
  <2>1. CASE [Next]_vars
    BY <2>1, BesideInHand, NextAppliedInv
  <2>2. CASE UNCHANGED << jobs, worker, crashes >>
    BY <2>2 DEF AppliedInv, At, Finished, JobIds
  <2>. QED BY <2>1, <2>2 DEF RecNext, ServerStep, RecStep, RecLoad, RecCheck, RecAsk, RecCommit,
               RecAbort, recvars, vars
<1>3. BesideInv /\ AppliedInv => AppliedOnceUncrashed
  BY BesideInHand, AppliedOnce
<1>. QED BY <1>1, <1>2, <1>3, BesideAlways, PTL DEF RecSpec

-----------------------------------------------------------------------------
(***************************************************************************)
(* DestroyedReleasesAll beside the reconciler.  A VM has its vmid, and a   *)
(* destroyed server neither; a pass that writes a status over that makes   *)
(* the row come back with nothing.  What a handler needs to know is that   *)
(* it clones for a vmid it has picked and releases a VM that is gone.      *)
(***************************************************************************)
HeldOk(v, s, h) ==
    /\ v # "absent" => "vmid" \in h
    /\ s = "destroyed" => h = {} /\ v = "absent"

HeldBeside == \A i \in Instances : HeldOk(vm[i], status[i], held[i])

PlacedBeside(pc, v, h) ==
    /\ pc = "clone" => "vmid" \in h
    /\ pc = "release" => v = "absent"

PlaceBeside == worker.pc \notin Resting => PlacedBeside(worker.pc, vm[Srv], held[Srv])

ReleasesInv == HeldBeside /\ PlaceBeside /\ CreateOk

LEMMA BesideOrdered == BesideInv => Ordered
BY BesideInHand DEF BesideInv, BusyBeside, Ordered, StepOk

(* What a busy worker knows of the server it works on.                     *)
LEMMA ReleaseRow ==
    ASSUME BesideInv, ReleasesInv, worker.pc \notin Resting
    PROVE  /\ Srv \in Instances /\ vm[Srv] \in VmStates
           /\ HeldOk(vm[Srv], status[Srv], held[Srv])
           /\ PlacedBeside(worker.pc, vm[Srv], held[Srv])
           /\ StepFits(worker.pc, Me.type, worker.seen)
           /\ Me.type = "create" => status[Srv] # "destroyed"
<1>1. /\ Srv \in Instances /\ worker.job \in JobIds /\ Active(worker.job)
      /\ StepFits(worker.pc, Me.type, worker.seen)
  BY BesideOrdered, FitRow, BesideInHand, BusyActive
<1>2. vm[Srv] \in VmStates
  BY <1>1 DEF BesideInv, TypeOK
<1>3. Me.type = "create" => status[Srv] \in CreateStatuses
  BY <1>1 DEF ReleasesInv, CreateOk, Me, Srv
<1>4. HeldOk(vm[Srv], status[Srv], held[Srv]) /\ PlacedBeside(worker.pc, vm[Srv], held[Srv])
  BY <1>1 DEF ReleasesInv, HeldBeside, PlaceBeside
<1>. QED BY <1>1, <1>2, <1>3, <1>4 DEF CreateStatuses

(* A handler's step that leaves its own server in order.                   *)
Released(pc) ==
    /\ \A i \in Instances : i # Srv =>
          vm'[i] = vm[i] /\ status'[i] = status[i] /\ held'[i] = held[i]
    /\ worker'.job = worker.job /\ worker'.pc = pc
    /\ HeldOk(vm'[Srv], status'[Srv], held'[Srv])
    /\ PlacedBeside(pc, vm'[Srv], held'[Srv])

LEMMA ReleasedInv ==
    ASSUME BesideInv, ReleasesInv, [Next]_vars, worker.pc \notin Resting, NEW pc, Released(pc)
    PROVE  HeldBeside' /\ PlaceBeside'
<1>1. worker.job \in JobIds /\ Srv \in Instances
  BY BesideOrdered, FitRow
<1>2. Srv' = Srv
  BY <1>1, BesideInHand, NextRows DEF Released, RowsStep, Kept, Me, Srv
<1>3. HeldBeside'
  BY DEF Released, ReleasesInv, HeldBeside
<1>4. PlacedBeside(worker'.pc, vm'[Srv], held'[Srv])
  BY DEF Released
<1>. QED BY <1>2, <1>3, <1>4 DEF PlaceBeside

(* Steps that write only the status, and not "destroyed".                  *)
LEMMA StatusReleased ==
    ASSUME BesideInv, ReleasesInv, Enter \/ PowerExit \/ Publish \/ ProbeDone
    PROVE  \E pc \in WorkerPcs : Released(pc)
<1>1. /\ worker.pc \notin Resting /\ worker \in Worker /\ UNCHANGED << vm, held >>
      /\ status \in [Instances -> RowStatuses]
  BY DEF Enter, PowerExit, Publish, ProbeDone, external, At, Resting, BesideInv, TypeOK
<1>2. /\ Srv \in Instances /\ HeldOk(vm[Srv], status[Srv], held[Srv])
      /\ StepFits(worker.pc, Me.type, worker.seen)
  BY <1>1, ReleaseRow
<1>3. \E pc \in {"act", "power_off", "succeed"} : worker'.job = worker.job /\ worker'.pc = pc
  BY <1>1 DEF Enter, PowerExit, Publish, ProbeDone, GoTo, Worker
<1>4. /\ \A i \in Instances : i # Srv => status'[i] = status[i]
      /\ status'[Srv] = status[Srv] \/ status'[Srv] # "destroyed"
  <2>1. CASE Enter
    <3>1. Me.type \in DOMAIN Through
      BY <1>2, <2>1 DEF Enter, At, StepFits
    <3>2. Through[Me.type] # "destroyed"
      BY <3>1 DEF Through
    <3>. QED BY <1>1, <1>2, <2>1, <3>2 DEF Enter
  <2>2. CASE PowerExit
    <3>1. PowerTo[Me.type] # "destroyed"
      BY <1>2, <2>2 DEF PowerExit, At, StepFits, PowerTo, PowerVerbs
    <3>. QED BY <1>1, <1>2, <2>2, <3>1 DEF PowerExit
  <2>3. CASE Publish \/ ProbeDone
    BY <1>1, <1>2, <2>3 DEF Publish, ProbeDone
  <2>. QED BY <2>1, <2>2, <2>3
<1>5. HeldOk(vm'[Srv], status'[Srv], held'[Srv])
  BY <1>1, <1>2, <1>4 DEF HeldOk
<1>6. {"act", "power_off", "succeed"} \subseteq WorkerPcs
  BY DEF WorkerPcs, HandlerPcs
<1>. QED BY <1>1, <1>3, <1>4, <1>5, <1>6 DEF Released, PlacedBeside

(* Steps that change neither the VM nor what the row holds.                *)
LEMMA PlainReleased ==
    ASSUME BesideInv, ReleasesInv, PowerAct \/ ApplyPlan \/ StartVm \/ ProbeMoot \/ ProbeAgain
    PROVE  \E pc \in WorkerPcs : Released(pc)
<1>1. /\ worker.pc \notin Resting /\ worker \in Worker /\ UNCHANGED << vm, held, status >>
  BY DEF PowerAct, ApplyPlan, StartVm, ProbeMoot, ProbeAgain, external, At, Resting, BesideInv,
         TypeOK
<1>2. HeldOk(vm[Srv], status[Srv], held[Srv])
  BY <1>1, ReleaseRow
<1>3. \E pc \in {"power_exit", "start_vm", "publish", "succeed"} :
         worker'.job = worker.job /\ worker'.pc = pc
  BY <1>1 DEF PowerAct, ApplyPlan, StartVm, ProbeMoot, ProbeAgain, GoTo, Worker
<1>4. {"power_exit", "start_vm", "publish", "succeed"} \subseteq WorkerPcs
  BY DEF WorkerPcs, HandlerPcs
<1>. QED BY <1>1, <1>2, <1>3, <1>4 DEF Released, PlacedBeside

(* Powering off and deleting: the way to release leads past a VM's end.    *)
LEMMA PowerOffReleased ==
    ASSUME BesideInv, ReleasesInv, PowerOff
    PROVE  \E pc \in WorkerPcs : Released(pc)
<1>1. /\ worker.pc \notin Resting /\ worker \in Worker /\ UNCHANGED << held, status >>
      /\ vm \in [Instances -> VmStates]
  BY DEF PowerOff, At, Resting, BesideInv, TypeOK
<1>2. Srv \in Instances /\ vm[Srv] \in VmStates /\ HeldOk(vm[Srv], status[Srv], held[Srv])
  BY <1>1, ReleaseRow
<1>3. AfterOff \in {"apply", "restore_disk", "delete"} /\ AfterGone \in {"reclone", "release"}
  BY DEF AfterOff, AfterGone
<1>4. {"apply", "restore_disk", "delete", "reclone", "release"} \subseteq WorkerPcs
  BY DEF WorkerPcs, HandlerPcs
<1>5. CASE ~Gone /\ vm' = [vm EXCEPT ![Srv] = PoweredOff(@)] /\ GoTo(AfterOff, worker.seen)
  <2>1. "vmid" \in held[Srv] /\ vm[Srv] # "absent" /\ vm'[Srv] = PoweredOff(vm[Srv])
        /\ \A i \in Instances : i # Srv => vm'[i] = vm[i]
    BY <1>1, <1>2, <1>5 DEF Gone
  <2>2. worker'.job = worker.job /\ worker'.pc = AfterOff
    BY <1>1, <1>5 DEF GoTo, Worker
  <2>3. HeldOk(vm'[Srv], status'[Srv], held'[Srv])
    BY <1>1, <1>2, <2>1 DEF HeldOk
  <2>4. PlacedBeside(AfterOff, vm'[Srv], held'[Srv])
    BY <1>3 DEF PlacedBeside
  <2>. QED BY <1>1, <1>3, <1>4, <2>1, <2>2, <2>3, <2>4 DEF Released
<1>6. CASE Gone /\ GoTo(AfterGone, worker.seen) /\ UNCHANGED vm
  <2>1. worker'.job = worker.job /\ worker'.pc = AfterGone
    BY <1>1, <1>6 DEF GoTo, Worker
  <2>2. vm[Srv] = "absent"
    BY <1>2, <1>6 DEF Gone, HeldOk
  <2>3. PlacedBeside(AfterGone, vm'[Srv], held'[Srv])
    BY <1>3, <1>6, <2>2 DEF PlacedBeside
  <2>. QED BY <1>1, <1>2, <1>3, <1>4, <1>6, <2>1, <2>3 DEF Released
<1>. QED BY <1>5, <1>6 DEF PowerOff

LEMMA DeleteReleased ==
    ASSUME BesideInv, ReleasesInv, Delete
    PROVE  \E pc \in WorkerPcs : Released(pc)
<1>1. /\ worker.pc \notin Resting /\ worker \in Worker /\ UNCHANGED << held, status >>
      /\ vm \in [Instances -> VmStates]
  BY DEF Delete, At, Resting, BesideInv, TypeOK
<1>2. Srv \in Instances /\ HeldOk(vm[Srv], status[Srv], held[Srv])
  BY <1>1, ReleaseRow
<1>3. AfterGone \in {"reclone", "release"} /\ AfterGone \in WorkerPcs
  BY DEF AfterGone, WorkerPcs, HandlerPcs
<1>4. vm'[Srv] = "absent" /\ \A i \in Instances : i # Srv => vm'[i] = vm[i]
  BY <1>1, <1>2 DEF Delete
<1>5. worker'.job = worker.job /\ worker'.pc = AfterGone
  BY <1>1 DEF Delete, GoTo, Worker
<1>6. HeldOk(vm'[Srv], status'[Srv], held'[Srv]) /\ PlacedBeside(AfterGone, vm'[Srv], held'[Srv])
  BY <1>1, <1>2, <1>3, <1>4 DEF HeldOk, PlacedBeside
<1>. QED BY <1>1, <1>3, <1>4, <1>5, <1>6 DEF Released

(* Steps on a disk: they need the vmid or the VM, which a destroyed server *)
(* has not.                                                                *)
LEMMA DiskReleased ==
    ASSUME BesideInv, ReleasesInv, Reclone \/ RestoreDisk \/ Repin
    PROVE  \E pc \in WorkerPcs : Released(pc)
<1>1. /\ worker.pc \notin Resting /\ worker \in Worker /\ UNCHANGED << held, status >>
      /\ vm \in [Instances -> VmStates]
  BY DEF Reclone, RestoreDisk, Repin, At, Resting, BesideInv, TypeOK
<1>2. Srv \in Instances /\ HeldOk(vm[Srv], status[Srv], held[Srv])
  BY <1>1, ReleaseRow
<1>3. /\ \A i \in Instances : i # Srv => vm'[i] = vm[i]
      /\ vm'[Srv] = vm[Srv] \/ (vm'[Srv] \in {"raw", "off"} /\ "vmid" \in held[Srv])
  <2>1. CASE Reclone
    BY <1>1, <1>2, <2>1 DEF Reclone
  <2>2. CASE RestoreDisk
    BY <1>1, <1>2, <2>2 DEF RestoreDisk
  <2>3. CASE Repin
    BY <1>1, <1>2, <2>3 DEF Repin, HeldOk
  <2>. QED BY <2>1, <2>2, <2>3
<1>4. HeldOk(vm'[Srv], status'[Srv], held'[Srv])
  BY <1>1, <1>2, <1>3 DEF HeldOk
<1>5. \E pc \in {"configure", "start_vm", "repin"} : worker'.job = worker.job /\ worker'.pc = pc
  BY <1>1 DEF Reclone, RestoreDisk, Repin, GoTo, Worker
<1>6. {"configure", "start_vm", "repin"} \subseteq WorkerPcs
  BY DEF WorkerPcs, HandlerPcs
<1>. QED BY <1>1, <1>3, <1>4, <1>5, <1>6 DEF Released, PlacedBeside

(* Steps that give the server something: a server that is being created is *)
(* not destroyed, and one that has a VM is not either.                     *)
LEMMA HeldReleased ==
    ASSUME BesideInv, ReleasesInv, PickVmid \/ Clone \/ Configure \/ Backup
    PROVE  \E pc \in WorkerPcs : Released(pc)
<1>1. /\ worker.pc \notin Resting /\ worker \in Worker /\ UNCHANGED status
      /\ vm \in [Instances -> VmStates] /\ held \in [Instances -> SUBSET Assets]
  BY DEF PickVmid, Clone, Configure, Backup, At, Resting, BesideInv, TypeOK
<1>2. /\ Srv \in Instances /\ HeldOk(vm[Srv], status[Srv], held[Srv])
      /\ PlacedBeside(worker.pc, vm[Srv], held[Srv])
      /\ StepFits(worker.pc, Me.type, worker.seen)
      /\ Me.type = "create" => status[Srv] # "destroyed"
  BY <1>1, ReleaseRow
<1>3. \A i \in Instances : i # Srv => vm'[i] = vm[i] /\ held'[i] = held[i]
  BY <1>1 DEF PickVmid, Clone, Configure, Backup, external
<1>4. CASE PickVmid
  <2>1. held'[Srv] = held[Srv] \cup {"vmid"} /\ vm'[Srv] = vm[Srv] /\ Me.type = "create"
    BY <1>1, <1>2, <1>4 DEF PickVmid, external, At, StepFits
  <2>2. worker'.job = worker.job /\ worker'.pc = "clone" /\ "clone" \in WorkerPcs
    BY <1>1, <1>4 DEF PickVmid, GoTo, Worker, WorkerPcs, HandlerPcs
  <2>. QED BY <1>1, <1>2, <1>3, <2>1, <2>2 DEF Released, HeldOk, PlacedBeside
<1>5. CASE Clone
  <2>1. held'[Srv] = held[Srv] /\ Me.type = "create" /\ "vmid" \in held[Srv]
    BY <1>1, <1>2, <1>5 DEF Clone, At, StepFits, PlacedBeside
  <2>2. worker'.job = worker.job /\ worker'.pc = "configure" /\ "configure" \in WorkerPcs
    BY <1>1, <1>5 DEF Clone, GoTo, Worker, WorkerPcs, HandlerPcs
  <2>. QED BY <1>1, <1>2, <1>3, <2>1, <2>2 DEF Released, HeldOk, PlacedBeside
<1>6. CASE Configure
  <2>1. /\ held'[Srv] = held[Srv] \cup {"ip"} /\ vm[Srv] # "absent" /\ vm'[Srv] # "absent"
    BY <1>1, <1>2, <1>6 DEF Configure
  <2>2. worker'.job = worker.job /\ worker'.pc = "start_vm" /\ "start_vm" \in WorkerPcs
    BY <1>1, <1>6 DEF Configure, GoTo, Worker, WorkerPcs, HandlerPcs
  <2>. QED BY <1>1, <1>2, <1>3, <2>1, <2>2 DEF Released, HeldOk, PlacedBeside
<1>7. CASE Backup
  <2>1. /\ held'[Srv] = held[Srv] \cup {"backup"} /\ vm'[Srv] = vm[Srv] /\ vm[Srv] # "absent"
    BY <1>1, <1>2, <1>7 DEF Backup, external
  <2>2. worker'.job = worker.job /\ worker'.pc = "succeed" /\ "succeed" \in WorkerPcs
    BY <1>1, <1>7 DEF Backup, GoTo, Worker, WorkerPcs
  <2>. QED BY <1>1, <1>2, <1>3, <2>1, <2>2 DEF Released, HeldOk, PlacedBeside
<1>. QED BY <1>4, <1>5, <1>6, <1>7

LEMMA ReleaseReleased ==
    ASSUME BesideInv, ReleasesInv, Release
    PROVE  \E pc \in WorkerPcs : Released(pc)
<1>1. /\ worker.pc \notin Resting /\ worker.pc = "release" /\ worker \in Worker /\ UNCHANGED vm
      /\ status \in [Instances -> RowStatuses] /\ held \in [Instances -> SUBSET Assets]
  BY DEF Release, external, At, Resting, BesideInv, TypeOK
<1>2. Srv \in Instances /\ vm[Srv] = "absent"
  BY <1>1, ReleaseRow DEF PlacedBeside
<1>3. /\ held'[Srv] = {} /\ status'[Srv] = "destroyed"
      /\ \A i \in Instances : i # Srv => held'[i] = held[i] /\ status'[i] = status[i]
  BY <1>1, <1>2 DEF Release
<1>4. worker'.job = worker.job /\ worker'.pc = "succeed" /\ "succeed" \in WorkerPcs
  BY <1>1 DEF Release, GoTo, Worker, WorkerPcs
<1>. QED BY <1>1, <1>2, <1>3, <1>4 DEF Released, HeldOk, PlacedBeside

-----------------------------------------------------------------------------
(* The steps of everybody else.                                            *)
LEMMA StillReleased ==
    ASSUME BesideInv, ReleasesInv, [Next]_vars, UNCHANGED held,
           worker' = worker \/ worker'.pc \in Resting
             \/ (worker'.pc \notin {"clone", "release"}),
           \A i \in Instances :
              /\ vm'[i] = "absent" <=> vm[i] = "absent"
              /\ status'[i] = "destroyed" => status[i] = "destroyed"
    PROVE  HeldBeside' /\ PlaceBeside'
<1>1. HeldBeside'
  BY DEF ReleasesInv, HeldBeside, HeldOk
<1>2. CASE worker.pc \notin Resting /\ worker' = worker
  <2>1. worker.job \in JobIds /\ Srv \in Instances
    BY <1>2, BesideOrdered, FitRow
  <2>2. Srv' = Srv
    BY <1>2, <2>1, BesideInHand, NextRows DEF RowsStep, Kept, Me, Srv
  <2>. QED BY <1>1, <1>2, <2>1, <2>2 DEF ReleasesInv, PlaceBeside, PlacedBeside
<1>3. CASE ~(worker.pc \notin Resting /\ worker' = worker)
  BY <1>1, <1>3 DEF PlaceBeside, PlacedBeside
<1>. QED BY <1>2, <1>3

LEMMA NextReleased ==
    ASSUME BesideInv, ReleasesInv, [Next]_vars
    PROVE  ReleasesInv'
<1>. SUFFICES HeldBeside' /\ PlaceBeside'
  BY BesideOrdered, NextCreateOk DEF ReleasesInv
<1>1. CASE HandlerStep
  <2>1. worker.pc \notin Resting
    BY <1>1 DEF Resting, HandlerStep, At, Enter, PowerAct, PowerExit, PowerOff, Delete,
           Reclone, ApplyPlan, RestoreDisk, Repin, PickVmid, Clone, Configure, StartVm, Publish,
           ProbeMoot, ProbeDone, ProbeAgain, Backup, Release
  <2>2. \E pc \in WorkerPcs : Released(pc)
    BY <1>1, StatusReleased, PlainReleased, PowerOffReleased, DeleteReleased, DiskReleased,
       HeldReleased, ReleaseReleased DEF HandlerStep
  <2>. QED BY <2>1, <2>2, ReleasedInv
<1>2. CASE RequestStep
  <2>1. UNCHANGED << held, worker, vm >>
    BY <1>2 DEF RequestStep, Provision, ApiRead, ApiCheck, ApiInsert, external
  <2>2. \A i \in Instances : status'[i] = "destroyed" => status[i] = "destroyed"
    BY <1>2 DEF RequestStep, Provision, ApiRead, ApiCheck, ApiInsert, BesideInv, TypeOK
  <2>. QED BY <2>1, <2>2, StillReleased
<1>3. CASE Environment
  <2>1. UNCHANGED << held, worker, status >>
    BY <1>3 DEF Environment, TaskRuns, PowerDrift, RunAfterPasses
  <2>2. \A v \in VmStates : /\ PoweredOn(v) = "absent" <=> v = "absent"
                            /\ PoweredOff(v) = "absent" <=> v = "absent"
    BY DEF VmStates, PoweredOn, PoweredOff
  <2>3. \A i \in Instances : vm'[i] = "absent" <=> vm[i] = "absent"
    BY <1>3, <2>2 DEF Environment, TaskRuns, PowerDrift, RunAfterPasses, external, BesideInv,
                      TypeOK
  <2>. QED BY <2>1, <2>3, StillReleased
<1>4. CASE Raise
  <2>1. UNCHANGED << held, vm >> /\ worker'.pc \in Resting
    BY <1>4 DEF Raise, external, IdleWorker, Resting
  <2>2. \A i \in Instances : status'[i] = "destroyed" => status[i] = "destroyed"
    BY <1>4 DEF Raise, BesideInv, TypeOK
  <2>. QED BY <2>1, <2>2, StillReleased
<1>5. CASE WorkerBoot \/ Succeed \/ Crash \/ UNCHANGED vars
  <2>1. UNCHANGED << held, vm, status >> /\ (worker' = worker \/ worker'.pc \in Resting)
    BY <1>5 DEF WorkerBoot, Succeed, Crash, vars, external, IdleWorker, DownWorker, Resting
  <2>. QED BY <2>1, StillReleased
<1>6. ASSUME NEW k \in JobIds, Claim(k)
      PROVE  HeldBeside' /\ PlaceBeside'
  <2>1. UNCHANGED << held, vm, status >> /\ worker'.pc = FirstStep(jobs[k].type)
    BY <1>6 DEF Claim, external
  <2>2. worker'.pc \notin {"clone", "release"}
    BY <2>1 DEF FirstStep
  <2>. QED BY <2>1, <2>2, StillReleased
<1>. QED BY <1>1, <1>2, <1>3, <1>4, <1>5, <1>6 DEF Next, WorkerStep

(* A pass writes running or stopped and nothing else.                      *)
LEMMA PassReleased ==
    ASSUME BesideInv, RecTypeOK, ReleasesInv, RecStep
    PROVE  ReleasesInv'
<1>1. UNCHANGED << jobs, held, worker, api, vm >>
  BY DEF RecStep, RecLoad, RecCheck, RecAsk, RecCommit, RecAbort, vars, external
<1>2. \A i \in Instances : status'[i] = status[i] \/ status'[i] \in {"running", "stopped"}
  <2>1. CASE RecCommit
    BY <2>1 DEF RecCommit, RecTypeOK, NoPass, Pass, Decided
  <2>. QED BY <2>1 DEF RecStep, RecLoad, RecCheck, RecAsk, RecAbort, vars
<1>3. HeldBeside'
  BY <1>1, <1>2 DEF ReleasesInv, HeldBeside, HeldOk
<1>4. PlaceBeside'
  BY <1>1 DEF ReleasesInv, PlaceBeside, Me, Srv
<1>5. CreateOk'
  BY <1>1, <1>2, RowAt DEF BesideInv, ReleasesInv, CreateOk, CreateStatuses, Active, JobIds
<1>. QED BY <1>3, <1>4, <1>5 DEF ReleasesInv

(* A destroyed server holds nothing and its VM is gone beside the          *)
(* reconciler as well: a row that a late commit brings back gets neither   *)
(* vmid nor VM again (reconciler.py:46-62, handlers.py).                   *)
THEOREM DestroyedReleasesBeside == RecSpec => []DestroyedReleasesAll
<1>1. RecInit => ReleasesInv
  <2>. SUFFICES ASSUME Init PROVE ReleasesInv
    BY DEF RecInit
  <2>1. JobIds = {} /\ worker.pc \in Resting
    BY DEF Init, JobIds, IdleWorker, Resting
  <2>2. HeldBeside
    BY DEF Init, HeldBeside, HeldOk
  <2>. QED BY <2>1, <2>2 DEF ReleasesInv, PlaceBeside, CreateOk
<1>2. BesideInv /\ RecInv /\ ReleasesInv /\ [RecNext]_recvars => ReleasesInv'
  <2>. SUFFICES ASSUME BesideInv, RecInv, ReleasesInv, [RecNext]_recvars
                PROVE  ReleasesInv'
    OBVIOUS
  <2>1. CASE ServerStep \/ UNCHANGED recvars
    <3>1. [Next]_vars
      BY <2>1 DEF ServerStep, recvars
    <3>. QED BY <3>1, NextReleased
  <2>2. CASE RecStep
    BY <2>2, PassReleased DEF RecInv
  <2>. QED BY <2>1, <2>2 DEF RecNext
<1>3. ReleasesInv => DestroyedReleasesAll
  BY DEF ReleasesInv, HeldBeside, HeldOk, DestroyedReleasesAll
<1>. QED BY <1>1, <1>2, <1>3, BesideAlways, RecInvAlways, PTL DEF RecSpec
=============================================================================
