----------------------------- MODULE Reconciler -----------------------------
(***************************************************************************)
(* app/reconciler.py beside the system of Lifecycle: one pass at a time (a *)
(* oneshot systemd unit), in one database session, that loads every row    *)
(* first and then looks at one server after the other.  The statuses stay  *)
(* as they were loaded; the jobs table and the VM are asked per server; an *)
(* UPDATE is sent when the next query is, and is visible after the commit  *)
(* at the end of the pass.                                                 *)
(***************************************************************************)
EXTENDS Lifecycle

CONSTANT MaxAborts      \* bound: passes that die of anything but a missing VM

ASSUME MaxAbortsAssumption == MaxAborts \in Nat

VARIABLES
    rec,        \* the pass: its place and what it has loaded and decided
    aborts      \* passes that died so far

recvars == << vars, rec, aborts >>

NoRepair == "none"

(***************************************************************************)
(* loaded: the statuses of the session.  known: servers whose loaded vmid  *)
(* is in the pool.  todo: servers not looked at yet.  repair: statuses     *)
(* decided.  locked: rows whose UPDATE has been sent, not committed.       *)
(***************************************************************************)
Pass == [ pc : {"scan", "ask"}, loaded : [Instances -> RowStatuses],
          known : SUBSET Instances, todo : SUBSET Instances, cur : Instances \cup {Nobody},
          repair : [Instances -> {NoRepair, "running", "stopped"}], locked : SUBSET Instances ]

NoPass == [ pc |-> "idle" ]

RecTypeOK ==
    /\ TypeOK
    /\ rec \in {NoPass} \cup Pass
    /\ aborts \in Nat

RecInit == Init /\ rec = NoPass /\ aborts = 0

(* Variant: error is left to somebody else as well. *)
IN_FLIGHT_OR_ERROR == (InFlight \ {"booting", "restoring"}) \cup {"error"}

(* The statuses the reconciler leaves to the job: not booting or restoring. *)
IN_FLIGHT == InFlight \ {"booting", "restoring"}

Expected(s) == IF s = "running" THEN "running" ELSE "stopped"

Actual(i)   == IF IsRunning(vm[i]) THEN "running" ELSE "stopped"
Decided     == { i \in Instances : rec.repair[i] # NoRepair }

-----------------------------------------------------------------------------
(* pool_vmids() and the SELECT of the rows that are not terminal. *)
RecLoad ==
    /\ rec.pc = "idle"
    /\ rec' = [ pc     |-> "scan",
                loaded |-> status,
                known  |-> { i \in Instances : "vmid" \in held[i] /\ vm[i] # "absent" },
                todo   |-> { i \in Instances : status[i] \notin TERMINAL_STATES \cup {"absent"} },
                cur    |-> Nobody,
                repair |-> [ i \in Instances |-> NoRepair ],
                locked |-> {} ]
    /\ UNCHANGED << vars, aborts >>

(***************************************************************************)
(* The query for an active job flushes what was decided so far.  A server  *)
(* with a job, in flight, or without its VM in the pool is passed over.    *)
(***************************************************************************)
LeaveAlone(i) ==
    HasActiveJob(i) \/ rec.loaded[i] \in IN_FLIGHT \/ i \notin rec.known

RecCheck(i) ==
    /\ rec.pc = "scan" /\ i \in rec.todo
    /\ LET rest == [rec EXCEPT !.todo = @ \ {i}, !.locked = Decided]
       IN  \/ LeaveAlone(i)  /\ rec' = rest
           \/ ~LeaveAlone(i) /\ rec' = [rest EXCEPT !.pc = "ask", !.cur = i]
    /\ UNCHANGED << vars, aborts >>

(* vm_status(): compared with the status that was loaded. *)
RecAsk ==
    /\ rec.pc = "ask" /\ vm[rec.cur] # "absent"
    /\ rec' = [rec EXCEPT !.pc = "scan", !.cur = Nobody,
                          !.repair[rec.cur] = IF Actual(rec.cur) # Expected(rec.loaded[rec.cur])
                                                THEN Actual(rec.cur) ELSE NoRepair]
    /\ UNCHANGED << vars, aborts >>

(* Variant: the commit saves every row it loaded, not the changed columns. *)
RecCommitAll ==
    /\ rec.pc = "scan" /\ rec.todo = {}
    /\ status' = [ i \in Instances |-> IF i \in Decided THEN rec.repair[i] ELSE rec.loaded[i] ]
    /\ rec' = NoPass
    /\ UNCHANGED << jobs, held, worker, api, external, crashes, aborts >>

(* The commit; afterwards the owners of servers that stopped are mailed. *)
RecCommit ==
    /\ rec.pc = "scan" /\ rec.todo = {}
    /\ status' = [ i \in Instances |-> IF i \in Decided THEN rec.repair[i] ELSE status[i] ]
    /\ rec' = NoPass
    /\ UNCHANGED << jobs, held, worker, api, external, crashes, aborts >>

(* A VM deleted since the pool was read, Proxmox out of reach, a killed    *)
(* process: the session is discarded with everything decided so far.       *)
RecAbort ==
    /\ rec.pc # "idle"
    /\ \/ rec.pc = "ask" /\ vm[rec.cur] = "absent" /\ UNCHANGED aborts
       \/ aborts < MaxAborts /\ aborts' = aborts + 1
    /\ rec' = NoPass
    /\ UNCHANGED vars

RecStep == RecLoad \/ (\E i \in Instances : RecCheck(i)) \/ RecAsk \/ RecCommit \/ RecAbort

(* A row under a sent UPDATE waits for the pass: writers of it block. *)
Unlocked ==
    rec.pc # "idle" =>
        \A i \in rec.locked :
            status'[i] = status[i] /\ held'[i] \ {"ip", "backup"} = held[i] \ {"ip", "backup"}

ServerStep == Next /\ Unlocked /\ UNCHANGED << rec, aborts >>

RecNext == ServerStep \/ RecStep

RecSpec == RecInit /\ [][RecNext]_recvars

-----------------------------------------------------------------------------
(* destroyed is terminal (docs/VERBS.md:21): whatever a pass loaded before, *)
(* asks meanwhile and commits later, no row without VM or vmid comes back,  *)
(* but for the one way in which the code does that: a pass that decided on  *)
(* a repair before the VM was gone commits it after the destroy             *)
(* (reconciler.py:46-62).                                                   *)
DestroyedForGood ==
    [][\A i \in Instances : status[i] = "destroyed" =>
          \/ status'[i] = "destroyed"
          \/ i \in Decided /\ RecCommit]_recvars

(***************************************************************************)
(* Fairness: the timer starts a pass every two minutes and a pass goes on; *)
(* Proxmox gets round to its tasks; the worker and time as in Lifecycle.   *)
(***************************************************************************)
RecFairness ==
    /\ WF_recvars(WorkerStep /\ ServerStep)
    /\ WF_recvars((\E k \in JobIds : RunAfterPasses(k)) /\ ServerStep)
    /\ WF_recvars((\E i \in Instances, t \in PxTasks : TaskRuns(i, t)) /\ ServerStep)
    /\ WF_recvars(RecStep)

RecFairSpec == RecSpec /\ RecFairness

(* Once users, crashes and guests are quiet, every server that has a VM    *)
(* is running in the database exactly when it is running on the host.      *)
DriftRepaired ==
    <>[](\A i \in Instances :
            "vmid" \in held[i] /\ vm[i] # "absent" => (status[i] = "running") = IsRunning(vm[i]))

=============================================================================
