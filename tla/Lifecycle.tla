----------------------------- MODULE Lifecycle -----------------------------
(***************************************************************************)
(* The life of servers: API requests that read a row, check the queue and  *)
(* insert a job in separate statements; the one worker process that claims *)
(* jobs and runs the handlers of app/jobs/handlers.py, cut at every commit *)
(* and every Proxmox call, and may crash between any two of them; and the  *)
(* hypervisor, whose power tasks run after the handler has moved on.       *)
(***************************************************************************)
EXTENDS JobQueue, FiniteSets

CONSTANTS Threads,      \* API request threads
          UserVerbs,    \* the verbs users enqueue
          ReadyMax,     \* READY_MAX_ATTEMPTS: probes before booting -> running
          MaxRequests,  \* bound: job rows inserted by requests
          MaxCrashes,   \* bound: crashes of the worker process
          MaxDrifts     \* bound: power changes behind the control plane's back

ASSUME LifecycleAssumption ==
    /\ UserVerbs \subseteq Verbs
    /\ ReadyMax \in Nat \ {0}
    /\ MaxRequests \in Nat
    /\ MaxCrashes \in Nat
    /\ MaxDrifts \in Nat

VARIABLES
    status,     \* instances.status, "absent" before the row is inserted
    held,       \* what the row holds: a vmid, an IP address, a backup in PBS
    worker,     \* the worker process: where it is, its job, the status it loaded
    api,        \* per request thread: its place, server and verb
    vm,         \* the VM behind the row's vmid
    tasks,      \* power tasks Proxmox accepted and has not run yet
    crashes,    \* crashes so far
    drifts      \* power changes so far that no task explains

vars     == << jobs, status, held, worker, api, vm, tasks, crashes, drifts >>
external == << vm, tasks, drifts >>

Nobody == "none"    \* the status a worker without a job has loaded

IdleRequest == [ pc |-> "idle" ]
Request     == [ pc : {"read", "checked"}, inst : Instances, verb : Verbs ]
IdleWorker  == [ pc |-> "idle", job |-> 0, seen |-> Nobody ]
DownWorker  == [ pc |-> "down", job |-> 0, seen |-> Nobody ]

(***************************************************************************)
(* A VM is "raw" from its clone or restore until its NIC is pinned and its *)
(* ipfilter applied; one that is powered on while raw is "exposed".        *)
(***************************************************************************)
VmStates == { "absent", "raw", "off", "on", "exposed" }
PxTasks  == { "start", "shutdown", "reboot" }
Assets   == { "vmid", "ip", "backup" }

PoweredOn(s)  == CASE s = "off" -> "on" [] s = "raw" -> "exposed" [] OTHER -> s
PoweredOff(s) == CASE s = "on" -> "off" [] s = "exposed" -> "raw" [] OTHER -> s
IsRunning(s)  == s \in {"on", "exposed"}

(***************************************************************************)
(* Through[v]: the in-flight status a verb's handler passes through.       *)
(***************************************************************************)
Through ==
    [ v \in {"create", "start", "stop", "reboot", "destroy"} \cup BootVerbs |->
        CASE v = "create"  -> "provisioning"
          [] v = "start"   -> "starting"
          [] v = "stop"    -> "stopping"
          [] v = "reboot"  -> "rebooting"
          [] v = "resize"  -> "resizing"
          [] v = "rebuild" -> "rebuilding"
          [] v = "destroy" -> "destroying"
          [] OTHER         -> "restoring" ]

PowerTo   == [ v \in PowerVerbs |-> IF v = "stop" THEN "stopped" ELSE "running" ]

PowerTask == [ v \in PowerVerbs |-> IF v = "stop" THEN "shutdown" ELSE v ]

HandlerPcs == { "enter", "act", "power_exit", "power_off", "apply", "delete",
                "reclone", "pick_vmid", "clone", "configure", "restore_disk",
                "repin", "start_vm", "publish", "backup", "probe", "release" }
WorkerPcs  == HandlerPcs \cup { "down", "idle", "succeed" }

RowStatuses == ALL_STATES \cup {"absent"}
Worker      == [ pc : WorkerPcs, job : Nat, seen : RowStatuses \cup {Nobody} ]

TypeOK ==
    /\ jobs \in Seq(Job)
    /\ status \in [Instances -> RowStatuses]
    /\ held \in [Instances -> SUBSET Assets]
    /\ worker \in Worker
    /\ api \in [Threads -> { IdleRequest } \cup Request]
    /\ vm \in [Instances -> VmStates]
    /\ tasks \in [Instances -> SUBSET PxTasks]
    /\ crashes \in Nat
    /\ drifts \in Nat

(***************************************************************************)
(* Each server is either not created yet or one that an earlier life of    *)
(* the system left running or stopped; the queue is drained.               *)
(***************************************************************************)
Init ==
    /\ jobs = << >>
    /\ status \in [Instances -> {"absent", "running", "stopped"}]
    /\ held = [ i \in Instances |-> IF status[i] = "absent" THEN {} ELSE {"vmid", "ip"} ]
    /\ vm = [ i \in Instances |-> CASE status[i] = "absent"  -> "absent"
                                    [] status[i] = "running" -> "on"
                                    [] OTHER                 -> "off" ]
    /\ tasks = [ i \in Instances |-> {} ]
    /\ worker = IdleWorker
    /\ api = [ t \in Threads |-> IdleRequest ]
    /\ crashes = 0
    /\ drifts = 0

-----------------------------------------------------------------------------
(***************************************************************************)
(* Requests.                                                               *)
(***************************************************************************)
Requested == { k \in JobIds : jobs[k].type # "await_ready" }
MayRequest == Cardinality(Requested) < MaxRequests

Insert(type, i) == jobs' = Append(jobs, NewJob(type, i, TRUE, 0))

(* create_server: the row and its create job in one commit. *)
Provision(i) ==
    /\ status[i] = "absent" /\ MayRequest
    /\ status' = [status EXCEPT ![i] = "provisioning"]
    /\ Insert("create", i)
    /\ UNCHANGED << held, worker, api, external, crashes >>

(* A request loads the row and checks the verb against its status. *)
ApiRead(t, i, v) ==
    /\ api[t].pc = "idle" /\ MayRequest
    /\ status[i] # "absent" /\ CanEnqueue(v, status[i])
    /\ v = "restore_backup" => "backup" \in held[i]
    /\ api' = [api EXCEPT ![t] = [ pc |-> "read", inst |-> i, verb |-> v ]]
    /\ UNCHANGED << jobs, status, held, worker, external, crashes >>

(* enqueue()'s guard: JobConflict when the server has an active job. *)
ApiCheck(t) ==
    /\ api[t].pc = "read"
    /\ api' = [api EXCEPT ![t] = IF HasActiveJob(@.inst) THEN IdleRequest
                                  ELSE [@ EXCEPT !.pc = "checked"]]
    /\ UNCHANGED << jobs, status, held, worker, external, crashes >>

(* The INSERT and its commit; nothing locks the table since the check. *)
ApiInsert(t) ==
    /\ api[t].pc = "checked" /\ MayRequest
    /\ Insert(api[t].verb, api[t].inst)
    /\ api' = [api EXCEPT ![t] = IdleRequest]
    /\ UNCHANGED << status, held, worker, external, crashes >>

-----------------------------------------------------------------------------
(***************************************************************************)
(* The worker.  Me is the claimed job, Srv its server.  The handler works  *)
(* on worker.seen, the status the ORM loaded when the handler began and    *)
(* loads again after each commit.                                          *)
(***************************************************************************)
Me   == jobs[worker.job]
Srv  == Me.inst
At(pc) == worker.pc = pc
GoTo(pc, seen) == worker' = [worker EXCEPT !.pc = pc, !.seen = seen]

(* main(): at startup every row still running has lost its worker. *)
WorkerBoot ==
    /\ At("down")
    /\ RequeueStale
    /\ worker' = IdleWorker
    /\ UNCHANGED << status, held, api, external, crashes >>

Crash ==
    /\ ~At("down") /\ crashes < MaxCrashes
    /\ worker' = DownWorker
    /\ crashes' = crashes + 1
    /\ UNCHANGED << jobs, status, held, api, external >>

(* Variant: rebuild starts with Proxmox, without its first commit. *)
FirstStepUnannounced(type) ==
    CASE type = "create"      -> "pick_vmid"
      [] type = "await_ready" -> "probe"
      [] type = "backup"      -> "backup"
      [] type = "rebuild"     -> "power_off"
      [] OTHER                -> "enter"

FirstStep(type) ==
    CASE type = "create"      -> "pick_vmid"
      [] type = "await_ready" -> "probe"
      [] type = "backup"      -> "backup"
      [] OTHER                -> "enter"

Claim(k) ==
    /\ At("idle") /\ OldestClaimable(k)
    /\ SetStatus(k, "running")
    /\ worker' = [ pc |-> FirstStep(jobs[k].type), job |-> k, seen |-> status[jobs[k].inst] ]
    /\ UNCHANGED << status, held, api, external, crashes >>

Succeed ==
    /\ At("succeed")
    /\ SetStatus(worker.job, "succeeded")
    /\ worker' = IdleWorker
    /\ UNCHANGED << status, held, api, external, crashes >>

(***************************************************************************)
(* The handler raised: rollback, then fail().  A dead job forces a server  *)
(* that is not destroyed to error.                                         *)
(***************************************************************************)
InvalidEntry ==
    worker.seen # Through[Me.type] /\ ~CanTransition(worker.seen, Through[Me.type])

MayRaise ==
    \/ worker.pc \in HandlerPcs \ {"enter", "probe"}
    \/ At("enter") /\ (InvalidEntry \/ Me.type = "resize")

(* Variant: a dead job forces error, whatever the server is. *)
RaiseForced ==
    /\ MayRaise
    /\ FailRow(worker.job)
    /\ status' = IF Exhausted(worker.job) THEN [status EXCEPT ![Srv] = "error"] ELSE status
    /\ worker' = IdleWorker
    /\ UNCHANGED << held, api, external, crashes >>

Raise ==
    /\ MayRaise
    /\ FailRow(worker.job)
    /\ status' = IF Exhausted(worker.job) /\ status[Srv] \notin TERMINAL_STATES
                   THEN [status EXCEPT ![Srv] = "error"]
                   ELSE status
    /\ worker' = IdleWorker
    /\ UNCHANGED << held, api, external, crashes >>

(***************************************************************************)
(* The first commit of every verb but create and backup.                   *)
(***************************************************************************)
Enter ==
    /\ At("enter")
    /\ LET through == Through[Me.type]
       IN  /\ \/ /\ worker.seen = through
                 /\ UNCHANGED status
              \/ /\ CanTransition(worker.seen, through)
                 /\ status' = [status EXCEPT ![Srv] = through]
           /\ GoTo(IF Me.type \in PowerVerbs THEN "act" ELSE "power_off", through)
    /\ UNCHANGED << jobs, held, api, external, crashes >>

(* A success the handler records: the Event row of its final commit. *)
Record(k) == [jobs EXCEPT ![k].applied = @ + 1]

(***************************************************************************)
(* _simple_power: the task is posted, not awaited.                         *)
(***************************************************************************)
PowerAct ==
    /\ At("act") /\ "vmid" \in held[Srv] /\ vm[Srv] # "absent"
    /\ tasks' = [tasks EXCEPT ![Srv] = @ \cup {PowerTask[Me.type]}]
    /\ GoTo("power_exit", worker.seen)
    /\ UNCHANGED << jobs, status, held, api, vm, drifts, crashes >>

PowerExit ==
    /\ At("power_exit") /\ CanTransition(worker.seen, PowerTo[Me.type])
    /\ status' = [status EXCEPT ![Srv] = PowerTo[Me.type]]
    /\ jobs' = Record(worker.job)
    /\ GoTo("succeed", PowerTo[Me.type])
    /\ UNCHANGED << held, api, external, crashes >>

(***************************************************************************)
(* Verbs that need the VM off first; for rebuild and destroy a VM that     *)
(* does not exist is as good as deleted.                                   *)
(***************************************************************************)
Gone == "vmid" \notin held[Srv] \/ vm[Srv] = "absent"

(* Variant: destroy releases a VM it has only powered off. *)
AfterOffKept ==
    CASE Me.type = "resize"                         -> "apply"
      [] Me.type \in {"rollback", "restore_backup"} -> "restore_disk"
      [] Me.type = "destroy"                        -> "release"
      [] OTHER                                      -> "delete"

AfterOff ==
    CASE Me.type = "resize"                        -> "apply"
      [] Me.type \in {"rollback", "restore_backup"} -> "restore_disk"
      [] OTHER                                     -> "delete"

AfterGone == IF Me.type = "rebuild" THEN "reclone" ELSE "release"

PowerOff ==
    /\ At("power_off")
    /\ \/ /\ ~Gone
          /\ vm' = [vm EXCEPT ![Srv] = PoweredOff(@)]
          /\ GoTo(AfterOff, worker.seen)
       \/ /\ Gone /\ Me.type \in {"rebuild", "destroy"}
          /\ GoTo(AfterGone, worker.seen)
          /\ UNCHANGED vm
    /\ UNCHANGED << jobs, status, held, api, tasks, drifts, crashes >>

(* Deleting a VM that is running again by now fails. *)
Delete ==
    /\ At("delete") /\ ~IsRunning(vm[Srv])
    /\ vm' = [vm EXCEPT ![Srv] = "absent"]
    /\ tasks' = [tasks EXCEPT ![Srv] = {}]
    /\ GoTo(AfterGone, worker.seen)
    /\ UNCHANGED << jobs, status, held, api, drifts, crashes >>

(* A fresh clone to the same vmid. *)
Reclone ==
    /\ At("reclone") /\ "vmid" \in held[Srv] /\ vm[Srv] = "absent"
    /\ vm' = [vm EXCEPT ![Srv] = "raw"]
    /\ GoTo("configure", worker.seen)
    /\ UNCHANGED << jobs, status, held, api, tasks, drifts, crashes >>

(* Resources, then the plan commit, after which the row is read again. *)
ApplyPlan ==
    /\ At("apply")
    /\ GoTo("start_vm", status[Srv])
    /\ UNCHANGED << jobs, status, held, api, external, crashes >>

(***************************************************************************)
(* rollback and restore_backup replace the disk of a VM that is off; power *)
(* tasks still waiting find it locked and fail.  A restore brings back the *)
(* archive's config, so the allocation is pinned again.  A raw VM has no   *)
(* snapshot to roll back to.                                               *)
(***************************************************************************)
RestoreDisk ==
    /\ At("restore_disk") /\ vm[Srv] \in {"off", "raw"}
    /\ tasks' = [tasks EXCEPT ![Srv] = {}]
    /\ \/ /\ Me.type = "rollback" /\ vm[Srv] = "off"
          /\ GoTo("start_vm", worker.seen)
          /\ UNCHANGED vm
       \/ /\ Me.type = "restore_backup" /\ {"vmid", "backup"} \subseteq held[Srv]
          /\ vm' = [vm EXCEPT ![Srv] = "raw"]
          /\ GoTo("repin", worker.seen)
    /\ UNCHANGED << jobs, status, held, api, drifts, crashes >>

(* Variant: the restored config is started as the archive has it. *)
RepinNothing ==
    /\ At("repin")
    /\ GoTo("start_vm", worker.seen)
    /\ UNCHANGED << jobs, status, held, api, external, crashes >>

Repin ==
    /\ At("repin")
    /\ vm' = [vm EXCEPT ![Srv] = IF "ip" \in held[Srv] /\ @ = "raw" THEN "off" ELSE @]
    /\ GoTo("start_vm", worker.seen)
    /\ UNCHANGED << jobs, status, held, api, tasks, drifts, crashes >>

(***************************************************************************)
(* create: vmid (committed), clone unless the VM exists, IP and config     *)
(* (committed with the hostname).                                          *)
(***************************************************************************)
PickVmid ==
    /\ At("pick_vmid")
    /\ held' = [held EXCEPT ![Srv] = @ \cup {"vmid"}]
    /\ GoTo("clone", IF "vmid" \in held[Srv] THEN worker.seen ELSE status[Srv])
    /\ UNCHANGED << jobs, status, api, external, crashes >>

Clone ==
    /\ At("clone")
    /\ vm' = [vm EXCEPT ![Srv] = IF @ = "absent" THEN "raw" ELSE @]
    /\ GoTo("configure", worker.seen)
    /\ UNCHANGED << jobs, status, held, api, tasks, drifts, crashes >>

(* set_cloudinit, set_nic, set_resources, apply_ipfilter; then a commit. *)
Configure ==
    /\ At("configure")
    /\ Me.type = "rebuild" => "ip" \in held[Srv]
    /\ vm[Srv] # "absent"
    /\ held' = [held EXCEPT ![Srv] = @ \cup {"ip"}]
    /\ vm' = [vm EXCEPT ![Srv] = IF @ = "raw" THEN "off" ELSE @]
    /\ GoTo("start_vm", status[Srv])
    /\ UNCHANGED << jobs, status, api, tasks, drifts, crashes >>

(* create starts the VM only if it is not running. *)
StartVm ==
    /\ At("start_vm") /\ vm[Srv] # "absent"
    /\ tasks' = [tasks EXCEPT ![Srv] =
                   IF Me.type = "create" /\ IsRunning(vm[Srv]) THEN @ ELSE @ \cup {"start"}]
    /\ GoTo("publish", worker.seen)
    /\ UNCHANGED << jobs, status, held, api, vm, drifts, crashes >>

(* Variant: no readiness job is added. *)
PublishOnly ==
    /\ At("publish") /\ CanTransition(worker.seen, "booting")
    /\ status' = [status EXCEPT ![Srv] = "booting"]
    /\ jobs' = Record(worker.job)
    /\ GoTo("succeed", "booting")
    /\ UNCHANGED << held, api, external, crashes >>

(* The final commit of a booting verb: booting, and the readiness job. *)
Publish ==
    /\ At("publish") /\ CanTransition(worker.seen, "booting")
    /\ status' = [status EXCEPT ![Srv] = "booting"]
    /\ jobs' = Append(Record(worker.job), NewJob("await_ready", Srv, FALSE, 0))
    /\ GoTo("succeed", "booting")
    /\ UNCHANGED << held, api, external, crashes >>

(***************************************************************************)
(* await_ready: running once SSH answers or after the last probe, else a   *)
(* new row for the next probe.                                             *)
(***************************************************************************)
ProbeMoot ==
    /\ At("probe") /\ worker.seen # "booting"
    /\ GoTo("succeed", worker.seen)
    /\ UNCHANGED << jobs, status, held, api, external, crashes >>

(* Variant: no cap on the probes. *)
ProbeDoneReady ==
    /\ At("probe") /\ worker.seen = "booting"
    /\ "ip" \in held[Srv] /\ vm[Srv] = "on"
    /\ status' = [status EXCEPT ![Srv] = "running"]
    /\ jobs' = Record(worker.job)
    /\ GoTo("succeed", "running")
    /\ UNCHANGED << held, api, external, crashes >>

ProbeDone ==
    /\ At("probe") /\ worker.seen = "booting"
    /\ \/ "ip" \in held[Srv] /\ vm[Srv] = "on"
       \/ Me.poll + 1 >= ReadyMax
    /\ status' = [status EXCEPT ![Srv] = "running"]
    /\ jobs' = Record(worker.job)
    /\ GoTo("succeed", "running")
    /\ UNCHANGED << held, api, external, crashes >>

ProbeAgain ==
    /\ At("probe") /\ worker.seen = "booting"
    /\ Me.poll + 1 < ReadyMax
    /\ jobs' = Append(jobs, NewJob("await_ready", Srv, FALSE, Me.poll + 1))
    /\ GoTo("succeed", worker.seen)
    /\ UNCHANGED << status, held, api, external, crashes >>

(* vzdump of a VM that keeps its power state; the status is untouched. *)
Backup ==
    /\ At("backup") /\ "vmid" \in held[Srv] /\ vm[Srv] # "absent"
    /\ held' = [held EXCEPT ![Srv] = @ \cup {"backup"}]
    /\ jobs' = Record(worker.job)
    /\ GoTo("succeed", worker.seen)
    /\ UNCHANGED << status, api, external, crashes >>

(* destroy's final commit gives up the IP, the routes, the vmid, the name. *)
Release ==
    /\ At("release") /\ CanTransition(worker.seen, "destroyed")
    /\ status' = [status EXCEPT ![Srv] = "destroyed"]
    /\ held' = [held EXCEPT ![Srv] = {}]
    /\ jobs' = Record(worker.job)
    /\ GoTo("succeed", "destroyed")
    /\ UNCHANGED << api, external, crashes >>

-----------------------------------------------------------------------------
(***************************************************************************)
(* Proxmox and the guests.  A task may also fail and change nothing.       *)
(***************************************************************************)
TaskRuns(i, t) ==
    /\ t \in tasks[i]
    /\ \/ /\ vm' = [vm EXCEPT ![i] = IF t = "start" THEN PoweredOn(@) ELSE PoweredOff(@)]
          /\ tasks' = [tasks EXCEPT ![i] = (@ \ {t}) \cup (IF t = "reboot" THEN {"start"} ELSE {})]
       \/ /\ tasks' = [tasks EXCEPT ![i] = @ \ {t}]
          /\ UNCHANGED vm
    /\ UNCHANGED << jobs, status, held, worker, api, drifts, crashes >>

(* A guest powers itself off or dies; an administrator starts a VM. *)
PowerDrift(i) ==
    /\ vm[i] \in {"on", "off"} /\ drifts < MaxDrifts
    /\ vm' = [vm EXCEPT ![i] = IF @ = "on" THEN "off" ELSE "on"]
    /\ drifts' = drifts + 1
    /\ UNCHANGED << jobs, status, held, worker, api, tasks, crashes >>

RunAfterPasses(k) ==
    /\ BecomeDue(k)
    /\ UNCHANGED << status, held, worker, api, external, crashes >>

-----------------------------------------------------------------------------
RequestStep ==
    \/ \E i \in Instances : Provision(i)
    \/ \E t \in Threads, i \in Instances, v \in UserVerbs : ApiRead(t, i, v)
    \/ \E t \in Threads : ApiCheck(t) \/ ApiInsert(t)

HandlerStep ==
    \/ Enter \/ PowerAct \/ PowerExit
    \/ PowerOff \/ Delete \/ Reclone \/ ApplyPlan \/ RestoreDisk \/ Repin
    \/ PickVmid \/ Clone \/ Configure \/ StartVm \/ Publish
    \/ ProbeMoot \/ ProbeDone \/ ProbeAgain
    \/ Backup \/ Release

WorkerStep ==
    \/ WorkerBoot
    \/ \E k \in JobIds : Claim(k)
    \/ HandlerStep \/ Raise \/ Succeed

Environment ==
    \/ \E i \in Instances, t \in PxTasks : TaskRuns(i, t)
    \/ \E i \in Instances : PowerDrift(i)
    \/ \E k \in JobIds : RunAfterPasses(k)

Next == RequestStep \/ WorkerStep \/ Crash \/ Environment

Spec == Init /\ [][Next]_vars

-----------------------------------------------------------------------------
(***************************************************************************)
(* Properties.                                                             *)
(***************************************************************************)

(***************************************************************************)
(* No limbo (docs/VERBS.md): a server in an in-flight status has a job     *)
(* that is queued, running or waiting to be retried, whatever crashed or   *)
(* raised on the way.                                                      *)
(***************************************************************************)
NoLimbo == \A i \in Instances : status[i] \in InFlight => HasActiveJob(i)

(***************************************************************************)
(* A row is running only while the worker works on it or is down: the      *)
(* startup recovery leaves no row that nobody will ever claim again.       *)
(***************************************************************************)
NoStrandedRow ==
    \A k \in JobIds : jobs[k].status = "running" => At("down") \/ worker.job = k

(***************************************************************************)
(* A destroyed server holds no vmid, IP or backup and its VM is gone, also *)
(* when verbs raced with the destroy or the worker crashed inside it.      *)
(***************************************************************************)
DestroyedReleasesAll ==
    \A i \in Instances : status[i] = "destroyed" => held[i] = {} /\ vm[i] = "absent"

(***************************************************************************)
(* No VM is ever powered on between its clone (or restore) and the pinning *)
(* of its address: a tenant never runs without the anti-spoof rules.       *)
(***************************************************************************)
NeverExposed == \A i \in Instances : vm[i] # "exposed"

(***************************************************************************)
(* Only a crash between a handler's last commit and succeed() breaks that: *)
(* until one happens, failures, retries and races apply no job twice, and  *)
(* no job whose success was recorded ends dead with its server in error.   *)
(***************************************************************************)
AppliedOnceUncrashed ==
    crashes = 0 =>
        \A k \in JobIds : jobs[k].applied <= 1 /\ (jobs[k].applied = 1 => jobs[k].status # "dead")

(***************************************************************************)
(* A VM disappears or its disk is replaced only under a status that tells  *)
(* the owner so: never behind running, stopped or a plain power verb.      *)
(***************************************************************************)
DiskLost(i) ==
    \/ vm[i] # "absent" /\ vm'[i] = "absent"
    \/ vm[i] = "off"    /\ vm'[i] = "raw"

DiskLostInTheOpen ==
    [][\A i \in Instances :
        DiskLost(i) => status[i] \in {"rebuilding", "restoring", "destroying"}]_vars

(* A settled row is history: nothing requeues, retries or alters it. *)
SettledStays ==
    [][\A k \in JobIds : ~Active(k) => k \in JobIds' /\ jobs'[k] = jobs[k]]_vars

(* Every status a user can observe is one StatusMachine allows. *)
Contract == INSTANCE StatusMachine WITH Instances <- Instances, status <- status
RefinesStatusMachine == Contract!Spec

(***************************************************************************)
(* Fairness: the worker loop keeps running and systemd restarts it         *)
(* (Restart=always), and time passes, so a delayed row becomes runnable.   *)
(* Users, crashes, Proxmox and guests promise nothing.                     *)
(***************************************************************************)
Fairness == WF_vars(WorkerStep) /\ WF_vars(\E k \in JobIds : RunAfterPasses(k))

FairSpec == Spec /\ Fairness

(* Once users stop asking, every row ends succeeded or dead: retries, the  *)
(* readiness probes and the recovery after a crash all come to an end.     *)
QueueDrains == <>[](\A k \in JobIds : ~Active(k))

(* A server does not stay in-flight for ever (the promise NoLimbo is for). *)
RefinesFairStatusMachine == Contract!FairSpec
=============================================================================
