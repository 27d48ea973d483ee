---------------------------- MODULE Provisioning ----------------------------
(***************************************************************************)
(* Who holds what: requests that check a name and a quota and then insert  *)
(* a row, and the one worker that picks the lowest free vmid, allocates    *)
(* the lowest free address, pins it on the VM before it commits it, and    *)
(* gives everything back at destroy.  The job queue is a set of pending    *)
(* jobs here, at most one per server; module Lifecycle has it in full.     *)
(***************************************************************************)
EXTENDS Naturals, FiniteSets, FiniteSetsExt, Functions

CONSTANTS Servers,      \* instance ids
          Users,
          Labels,
          Threads,      \* request threads
          Sizes,        \* plans, by the vCPUs (or disk) they take
          Vmids,        \* TENANT_VMID_MIN .. TENANT_VMID_MAX
          Addresses,    \* the tenant pool
          MaxServers,   \* users.max_instances
          MaxSize,      \* users.max_vcpus (or max_disk_gb)
          MaxFaults,    \* bound: exceptions and crashes of the worker
          MaxOps        \* bound: requests after creation

ASSUME ProvisioningAssumption ==
    /\ Servers \subseteq Nat \ {0} /\ Sizes \subseteq Nat \ {0}
    /\ Vmids \subseteq Nat \ {0} /\ Addresses \subseteq Nat \ {0}
    /\ MaxServers \in Nat /\ MaxSize \in Nat /\ MaxFaults \in Nat /\ MaxOps \in Nat

VARIABLES
    row,        \* instances, with the columns allocation is about
    request,    \* per thread: a creation that passed its checks
    pending,    \* jobs waiting for the worker
    worker,     \* the job being run, where, and the address not committed yet
    pool,       \* the VMs in the Proxmox pool, by vmid
    group,      \* the servers with a backup in the PBS group of each vmid
    faults, ops

vars == << row, request, pending, worker, pool, group, faults, ops >>

None      == 0
NoLabel   == "none"
NoRow     == [ life |-> "absent" ]
NoVm      == [ srv |-> None, pinned |-> None, on |-> FALSE ]
NoRequest == [ pc |-> "idle" ]
Idle      == [ pc |-> "idle", job |-> NoRequest, ip |-> None ]

Row == { NoRow } \cup
       [ life : {"provisioning", "up", "error", "destroyed"}, owner : Users, label : Labels,
         size : Sizes, vmid : Vmids \cup {None}, ip : Addresses \cup {None},
         hostname : Labels \cup {NoLabel}, backups : BOOLEAN ]
Job == [ verb : {"create", "resize", "backup", "destroy"}, srv : Servers, size : Sizes ]
Creation  == [ pc : {"checked"}, owner : Users, label : Labels, size : Sizes ]
WorkerPcs == { "pick_vmid", "clone", "configure", "commit_address", "start", "publish",
               "apply", "backup", "delete", "forget", "release" }

ProvTypeOK ==
    /\ row \in [Servers -> Row]
    /\ request \in [Threads -> { NoRequest } \cup Creation]
    /\ pending \subseteq Job
    /\ worker \in { Idle } \cup [ pc : WorkerPcs, job : Job, ip : Addresses \cup {None} ]
    /\ pool \in [Vmids -> [ srv : Servers \cup {None}, pinned : Addresses \cup {None}, on : BOOLEAN ]]
    /\ group \in [Vmids -> SUBSET Servers]
    /\ faults \in Nat /\ ops \in Nat

ProvInit ==
    /\ row = [ s \in Servers |-> NoRow ]
    /\ request = [ t \in Threads |-> NoRequest ]
    /\ pending = {}
    /\ worker = Idle
    /\ pool = [ v \in Vmids |-> NoVm ]
    /\ group = [ v \in Vmids |-> {} ]
    /\ faults = 0 /\ ops = 0

-----------------------------------------------------------------------------
(***************************************************************************)
(* Requests.                                                               *)
(***************************************************************************)
Rows    == { s \in Servers : row[s] # NoRow }
Live    == { s \in Rows : row[s].life # "destroyed" }
Own(u)  == { s \in Live : row[s].owner = u }
Used(S) == MapThenSumSet(LAMBDA s : row[s].size, S)
Busy(s) == (\E j \in pending : j.srv = s) \/ (worker # Idle /\ worker.job.srv = s)

(* create_server asks for the label of a live row, the internal API only   *)
(* for the hostname a row has been given.                                  *)
NameFree(label) ==
    \/ \A s \in Live : row[s].label # label
    \/ \A s \in Live : row[s].hostname # label

WithinQuota(u, size) ==
    Cardinality(Own(u)) < MaxServers /\ Used(Own(u)) + size <= MaxSize

CheckCreate(t, u, label, size) ==
    /\ request[t] = NoRequest /\ Rows # Servers
    /\ NameFree(label) /\ WithinQuota(u, size)
    /\ request' = [request EXCEPT ![t] =
                     [ pc |-> "checked", owner |-> u, label |-> label, size |-> size ]]
    /\ UNCHANGED << row, pending, worker, pool, group, faults, ops >>

(* The row and its create job, in one commit; nothing is checked again.    *)
InsertCreate(t) ==
    /\ request[t] # NoRequest /\ Rows # Servers
    /\ LET s == Min(Servers \ Rows)
           r == request[t]
       IN  /\ row' = [row EXCEPT ![s] =
                        [ life |-> "provisioning", owner |-> r.owner, label |-> r.label,
                          size |-> r.size, vmid |-> None, ip |-> None,
                          hostname |-> NoLabel, backups |-> FALSE ]]
           /\ pending' = pending \cup { [ verb |-> "create", srv |-> s, size |-> r.size ] }
    /\ request' = [request EXCEPT ![t] = NoRequest]
    /\ UNCHANGED << worker, pool, group, faults, ops >>

Op == ops < MaxOps /\ ops' = ops + 1

Enqueue(verb, s, size) ==
    /\ Op /\ ~Busy(s)
    /\ pending' = pending \cup { [ verb |-> verb, srv |-> s, size |-> size ] }
    /\ UNCHANGED << row, request, worker, pool, group, faults >>

(* resize_server asks that the plan differs and the disk does not shrink;  *)
(* only the dashboard's form asks for the quota as well.                   *)
RequestResize(s, size) ==
    /\ s \in Live /\ row[s].life = "up" /\ row[s].size < size
    /\ Enqueue("resize", s, size)

RequestBackup(s) ==
    /\ s \in Live /\ row[s].life = "up"
    /\ Enqueue("backup", s, row[s].size)

RequestDestroy(s) ==
    /\ s \in Live
    /\ Enqueue("destroy", s, row[s].size)

SetBackups(s) ==
    /\ s \in Live /\ Op
    /\ row' = [row EXCEPT ![s].backups = ~@]
    /\ UNCHANGED << request, pending, worker, pool, group, faults >>

-----------------------------------------------------------------------------
(***************************************************************************)
(* The worker.                                                             *)
(***************************************************************************)
Srv  == worker.job.srv
Vmid == row[Srv].vmid
At(pc)   == worker.pc = pc
GoTo(pc) == worker' = [worker EXCEPT !.pc = pc]

FirstStep(verb) ==
    CASE verb = "create" -> "pick_vmid" [] verb = "resize" -> "apply"
      [] verb = "backup" -> "backup"    [] verb = "destroy" -> "delete"

Claim(j) ==
    /\ worker = Idle
    /\ worker' = [ pc |-> FirstStep(j.verb), job |-> j, ip |-> None ]
    /\ pending' = pending \ {j}
    /\ UNCHANGED << row, request, pool, group, faults, ops >>

(* The handler raised, or the process died, and the job is retried, or it  *)
(* was the last attempt and the server is in error.  What was not          *)
(* committed is gone.                                                      *)
GiveUp ==
    /\ worker' = Idle
    /\ \/ pending' = pending \cup { worker.job } /\ UNCHANGED row
       \/ row' = [row EXCEPT ![Srv].life = "error"] /\ UNCHANGED pending
    /\ UNCHANGED << request, pool, group, ops >>

Fault ==
    /\ worker # Idle /\ faults < MaxFaults
    /\ faults' = faults + 1
    /\ GiveUp

Taken(v) == pool[v] # NoVm \/ \E s \in Rows : row[s].vmid = v

(* Variant: only the pool is asked, not the rows. *)
FreeVmidsPool == { v \in Vmids : pool[v] = NoVm }

FreeVmids == { v \in Vmids : ~Taken(v) }

PickVmid ==
    /\ At("pick_vmid")
    /\ \/ Vmid # None /\ UNCHANGED row
       \/ /\ Vmid = None /\ FreeVmids # {}
          /\ row' = [row EXCEPT ![Srv].vmid = Min(FreeVmids)]
    /\ GoTo("clone")
    /\ UNCHANGED << request, pending, pool, group, faults, ops >>

Clone ==
    /\ At("clone")
    /\ pool' = IF pool[Vmid] = NoVm THEN [pool EXCEPT ![Vmid].srv = Srv] ELSE pool
    /\ GoTo("configure")
    /\ UNCHANGED << row, request, pending, group, faults, ops >>

FreeAddresses == Addresses \ { row[s].ip : s \in Rows }

(* Variant: a retry is given a new address. *)
AddressForEach == IF FreeAddresses # {} THEN Min(FreeAddresses) ELSE None

AddressFor ==
    IF row[Srv].ip # None THEN row[Srv].ip
    ELSE IF FreeAddresses # {} THEN Min(FreeAddresses) ELSE None

(* Variant: the VM boots as soon as it is configured. *)
AfterConfigureBoot == "start"

AfterConfigure == "commit_address"

(* allocate() only flushes: the VM is pinned to the address first.         *)
Configure ==
    /\ At("configure") /\ AddressFor # None
    /\ pool' = [pool EXCEPT ![Vmid].pinned = AddressFor]
    /\ worker' = [worker EXCEPT !.pc = AfterConfigure, !.ip = AddressFor]
    /\ UNCHANGED << row, request, pending, group, faults, ops >>

HostnameTaken == \E s \in Rows \ {Srv} : row[s].hostname = row[Srv].label

(* The address and the hostname in one commit, against the unique          *)
(* constraint on hostnames.                                                *)
CommitAddress ==
    /\ At("commit_address") /\ ~HostnameTaken
    /\ row' = [row EXCEPT ![Srv].ip = worker.ip, ![Srv].hostname = row[Srv].label]
    /\ GoTo("start")
    /\ UNCHANGED << request, pending, pool, group, faults, ops >>

(* The constraint fails; a later attempt may find the name free again.     *)
NameLost ==
    /\ At("commit_address") /\ HostnameTaken
    /\ GiveUp
    /\ UNCHANGED faults

StartVm ==
    /\ At("start")
    /\ pool' = [pool EXCEPT ![Vmid].on = TRUE]
    /\ GoTo("publish")
    /\ UNCHANGED << row, request, pending, group, faults, ops >>

Finish(life) ==
    /\ row' = [row EXCEPT ![Srv].life = life]
    /\ worker' = Idle
    /\ UNCHANGED << request, pending, pool, faults, ops >>

Publish == At("publish") /\ Finish("up") /\ UNCHANGED group

ApplyPlan ==
    /\ At("apply")
    /\ row' = [row EXCEPT ![Srv].size = worker.job.size, ![Srv].life = "up"]
    /\ worker' = Idle
    /\ UNCHANGED << request, pending, pool, group, faults, ops >>

Backup ==
    /\ At("backup")
    /\ group' = [group EXCEPT ![Vmid] = @ \cup {Srv}]
    /\ worker' = Idle
    /\ UNCHANGED << row, request, pending, pool, faults, ops >>

Delete ==
    /\ At("delete")
    /\ pool' = IF Vmid = None THEN pool ELSE [pool EXCEPT ![Vmid] = NoVm]
    /\ GoTo("forget")
    /\ UNCHANGED << row, request, pending, group, faults, ops >>

(* pbs.forget_group, for servers whose nightly backups are on right now.   *)
Forget ==
    /\ At("forget")
    /\ group' = IF Vmid # None /\ row[Srv].backups THEN [group EXCEPT ![Vmid] = {}] ELSE group
    /\ GoTo("release")
    /\ UNCHANGED << row, request, pending, pool, faults, ops >>

(* Best effort: PBS did not answer. *)
ForgetFails ==
    /\ At("forget") /\ Vmid # None /\ row[Srv].backups /\ faults < MaxFaults
    /\ faults' = faults + 1
    /\ GoTo("release")
    /\ UNCHANGED << row, request, pending, pool, group, ops >>

Release ==
    /\ At("release")
    /\ row' = [row EXCEPT ![Srv].life = "destroyed", ![Srv].vmid = None,
                          ![Srv].ip = None, ![Srv].hostname = NoLabel]
    /\ worker' = Idle
    /\ UNCHANGED << request, pending, pool, group, faults, ops >>

ProvNext ==
    \/ \E t \in Threads, u \in Users, l \in Labels, z \in Sizes : CheckCreate(t, u, l, z)
    \/ \E t \in Threads : InsertCreate(t)
    \/ \E s \in Servers, z \in Sizes : RequestResize(s, z)
    \/ \E s \in Servers : RequestBackup(s) \/ RequestDestroy(s) \/ SetBackups(s)
    \/ \E j \in pending : Claim(j)
    \/ Fault
    \/ PickVmid \/ Clone \/ Configure \/ CommitAddress \/ NameLost \/ StartVm \/ Publish
    \/ ApplyPlan \/ Backup
    \/ Delete \/ Forget \/ ForgetFails \/ Release

ProvSpec == ProvInit /\ [][ProvNext]_vars

-----------------------------------------------------------------------------
(* A vmid, an address and a name have one holder, and a VM in the pool     *)
(* belongs to the row that holds its vmid: whatever is retried, abandoned  *)
(* or destroyed half way, no VM is left behind that nobody would delete.   *)
OneHolder ==
    /\ \A s, t \in Rows : s # t =>
          /\ row[s].vmid = row[t].vmid => row[s].vmid = None
          /\ row[s].ip = row[t].ip => row[s].ip = None
          /\ row[s].hostname = row[t].hostname => row[s].hostname = NoLabel
    /\ \A v \in Vmids : pool[v] # NoVm => row[pool[v].srv].vmid = v

(* A VM that runs is pinned to the address its row holds: a creation that  *)
(* lost its name to a twin, or was retried with another address, never     *)
(* runs with an address that was rolled back and given to someone else.    *)
PinnedIsOwn ==
    \A v \in Vmids : pool[v].on => /\ pool[v].pinned # None
                                   /\ pool[v].pinned = row[pool[v].srv].ip

(* What a server was given it keeps until it is destroyed, however often   *)
(* its create job is retried.                                              *)
AllocationsStick ==
    [][\A s \in Rows : row'[s].life # "destroyed" =>
          /\ row[s].vmid # None => row'[s].vmid = row[s].vmid
          /\ row[s].ip # None => row'[s].ip = row[s].ip
          /\ row[s].hostname # NoLabel => row'[s].hostname = row[s].hostname]_vars

=============================================================================
