----------------------------- MODULE Scheduler -----------------------------
(***************************************************************************)
(* The nightly work of the control plane: backups in one hour of the day,  *)
(* restarts at a time each owner chooses, unless somebody plays.  Both are *)
(* scheduled by the worker, between two jobs, and run by it as jobs.       *)
(*                                                                         *)
(* Time is the hour of the day, a time in a row how long ago it is.  Jobs  *)
(* are those of Lifecycle with their steps merged: what matters here is    *)
(* when they run, how long they may take and that they may fail.           *)
(***************************************************************************)
EXTENDS Naturals, SequencesExt

CONSTANTS
    Servers,
    Day,            \* hours of a day
    Window,         \* BACKUP_HOUR_UTC
    Cooldown,       \* the hours a backup has to be old, 20 of 24
    RestartTimes,   \* hours an owner may choose
    MaxAttempts,    \* JOB_MAX_ATTEMPTS
    MaxChanges,     \* bound: requests, settings and players coming and going
    MaxCrashes      \* bound: deaths of the worker

ASSUME DayAssumption ==
    /\ Day \in Nat \ {0} /\ Window \in 0..(Day - 1)
    /\ Cooldown \in 0..(Day - 1) /\ RestartTimes \subseteq 0..(Day - 1)
    /\ MaxAttempts \in Nat \ {0}

VARIABLES
    hour,       \* of the day
    status,     \* Instance.status; what is in flight is "busy"
    backups,    \* backups_enabled
    backupAge,  \* hours since last_backup_at
    restart,    \* restart_enabled, restart_at, hours since last_auto_restart_at
    players,    \* somebody plays
    jobs,       \* active rows, in id order
    tick,       \* where a tick is, the rows it loaded and the ones it queued
    late,       \* an hour began since the job was claimed
    ticked,     \* a tick looked for what is due in this hour
    changes, crashes,
    reboots,    \* scheduled since the last time of the schedule, or its last change
    excused     \* something came between the server and its backup

rowVars == <<status, backups, backupAge, restart>>
workVars == <<jobs, tick, late, ticked>>
auxVars == <<reboots, excused>>
schedVars == <<hour, rowVars, players, workVars, changes, crashes, auxVars>>

(* Ages beyond these are alike; they also stand for a row's NULL. *)
LongAgo == Day + Cooldown + 1
Older(age, oldest) == IF age = oldest THEN age ELSE age + 1

From == [stop |-> {"running"}, start |-> {"stopped"}, reboot |-> {"running"},
         rebuild |-> {"running", "stopped", "error"}, backup |-> {"running", "stopped"}]
Result == [stop |-> "stopped", start |-> "running", reboot |-> "running", rebuild |-> "running"]
Types == DOMAIN From

Job(s, t) == [server |-> s, type |-> t, state |-> "queued", attempts |-> 0]
Busy(s) == \E i \in DOMAIN jobs : jobs[i].server = s      \* enqueue raises JobConflict
Working == \E i \in DOMAIN jobs : jobs[i].state = "running"
Idle == [at |-> "none", due |-> {}, queued |-> <<>>]
-----------------------------------------------------------------------------
SchedInit ==
    /\ hour = 0
    /\ status = [s \in Servers |-> "running"]
    /\ backups = [s \in Servers |-> FALSE]
    /\ backupAge = [s \in Servers |-> LongAgo]
    /\ restart = [s \in Servers |-> [on |-> FALSE, at |-> 0, age |-> Day]]
    /\ players = [s \in Servers |-> FALSE]
    /\ jobs = <<>> /\ tick = Idle /\ late = FALSE /\ ticked = FALSE
    /\ changes = 0 /\ crashes = 0
    /\ reboots = [s \in Servers |-> 0]
    /\ excused = [s \in Servers |-> TRUE]

-----------------------------------------------------------------------------
(* What users do. *)

Change == changes < MaxChanges /\ changes' = changes + 1

Request(s, t) ==
    /\ Change
    /\ status[s] \in From[t] /\ ~Busy(s)
    /\ jobs' = Append(jobs, Job(s, t))
    /\ UNCHANGED <<hour, rowVars, players, tick, late, ticked, crashes, auxVars>>

set_backups(s, on) ==
    /\ Change
    /\ backups' = [backups EXCEPT ![s] = on]
    /\ excused' = [excused EXCEPT ![s] = TRUE]
    /\ UNCHANGED <<hour, status, backupAge, restart, players, workVars, crashes, reboots>>

(* Counts from now: a time that is past already is tomorrow's. *)
set_restart_schedule(s, on, at) ==
    /\ Change
    /\ restart' = [restart EXCEPT ![s] = [on |-> on, at |-> at, age |-> 0]]
    /\ reboots' = [reboots EXCEPT ![s] = 0]
    /\ UNCHANGED <<hour, status, backups, backupAge, players, workVars, crashes, excused>>

PlayersCome(s) ==
    /\ Change
    /\ ~players[s] /\ players' = [players EXCEPT ![s] = TRUE]
    /\ UNCHANGED <<hour, rowVars, workVars, crashes, auxVars>>

PlayersLeave(s) ==
    /\ players[s] /\ players' = [players EXCEPT ![s] = FALSE]
    /\ UNCHANGED <<hour, rowVars, workVars, changes, crashes, auxVars>>

-----------------------------------------------------------------------------
(* The tick. *)

(* Variant: a backup has to be more than a day old. *)
DueBackupDaily(s) ==
    /\ hour = Window
    /\ backups[s] /\ status[s] \in From["backup"] /\ backupAge[s] > Day

DueBackup(s) ==
    /\ hour = Window
    /\ backups[s] /\ status[s] \in From["backup"] /\ backupAge[s] > Cooldown

(* Variant: the first hour of the schedule does not count. *)
DueRestartAfter(s) ==
    /\ restart[s].on /\ status[s] = "running"
    /\ hour > restart[s].at /\ restart[s].age > hour - restart[s].at

(* Past today's time, and not fired since. *)
DueRestart(s) ==
    /\ restart[s].on /\ status[s] = "running"
    /\ hour >= restart[s].at /\ restart[s].age > hour - restart[s].at

Tick ==
    /\ tick.at = "none" /\ ~Working
    /\ tick' = [Idle EXCEPT !.at = "backups", !.due = {s \in Servers : DueBackup(s)}]
    /\ excused' = [s \in Servers |->
                        excused[s] \/ (hour = Window /\ status[s] \notin From["backup"])]
    /\ UNCHANGED <<hour, rowVars, players, jobs, late, ticked, changes, crashes, reboots>>

(* Rows that are queued are not committed yet. *)
QueueBackup(s) ==
    /\ tick.at = "backups" /\ s \in tick.due
    /\ tick' = [tick EXCEPT !.due = @ \ {s},
                            !.queued = IF Busy(s) THEN @ ELSE Append(@, Job(s, "backup"))]
    /\ excused' = [excused EXCEPT ![s] = @ \/ Busy(s)]
    /\ UNCHANGED <<hour, rowVars, players, jobs, late, ticked, changes, crashes, reboots>>

CommitBackups ==
    /\ tick.at = "backups" /\ tick.due = {}
    /\ jobs' = jobs \o tick.queued
    /\ tick' = [Idle EXCEPT !.at = "restarts", !.due = {s \in Servers : DueRestart(s)}]
    /\ ticked' = TRUE
    /\ UNCHANGED <<hour, rowVars, players, late, changes, crashes, auxVars>>

(* The game is asked; what gives no answer counts as empty. *)
HoldRestart(s) ==
    /\ tick.at = "restarts" /\ s \in tick.due
    /\ players[s]
    /\ tick' = [tick EXCEPT !.due = @ \ {s}]
    /\ UNCHANGED <<hour, rowVars, players, jobs, late, ticked, changes, crashes, reboots, excused>>

QueueRestart(s) ==
    /\ tick.at = "restarts" /\ s \in tick.due
    /\ tick' = [tick EXCEPT !.due = @ \ {s},
                            !.queued = IF Busy(s) THEN @ ELSE Append(@, Job(s, "reboot"))]
    /\ UNCHANGED <<hour, rowVars, players, jobs, late, ticked, changes, crashes, auxVars>>

Stamped == {tick.queued[i].server : i \in DOMAIN tick.queued}

(* Variant: the stamp is left to the job. *)
CommitRestartsUnstamped ==
    /\ tick.at = "restarts" /\ tick.due = {}
    /\ jobs' = jobs \o tick.queued
    /\ tick' = Idle
    /\ reboots' = [s \in Servers |-> IF s \in Stamped THEN reboots[s] + 1 ELSE reboots[s]]
    /\ UNCHANGED <<hour, rowVars, players, late, ticked, changes, crashes, excused>>

(* The stamp is in the transaction of the jobs. *)
CommitRestarts ==
    /\ tick.at = "restarts" /\ tick.due = {}
    /\ jobs' = jobs \o tick.queued
    /\ restart' = [s \in Servers |-> IF s \in Stamped
                        THEN [restart[s] EXCEPT !.age = 0] ELSE restart[s]]
    /\ tick' = Idle
    /\ reboots' = [s \in Servers |-> IF s \in Stamped THEN reboots[s] + 1 ELSE reboots[s]]
    /\ UNCHANGED <<hour, status, backups, backupAge, players, late, ticked, changes, crashes,
                   excused>>

-----------------------------------------------------------------------------
(* Jobs. *)

(* The oldest that is due; one that failed waits for its time. *)
Claim(i) ==
    /\ tick.at = "none" /\ ~Working
    /\ \A j \in 1..(i - 1) : jobs[j].state = "failed"
    /\ jobs' = [jobs EXCEPT ![i].state = "running"]
    /\ late' = FALSE
    /\ LET s == jobs[i].server IN
       /\ status' = IF jobs[i].type # "backup" /\ status[s] \in From[jobs[i].type]
                    THEN [status EXCEPT ![s] = "busy"] ELSE status
    /\ UNCHANGED <<hour, backups, backupAge, restart, players, tick, ticked, changes, crashes,
                   reboots, excused>>

Succeed(i) ==
    /\ jobs[i].state = "running"
    /\ LET s == jobs[i].server
           t == jobs[i].type
       IN  IF t = "backup"
           THEN /\ backupAge' = [backupAge EXCEPT ![s] = 0]
                /\ excused' = [excused EXCEPT ![s] = FALSE]
                /\ UNCHANGED status
           ELSE /\ status[s] = "busy"
                /\ status' = [status EXCEPT ![s] = Result[t]]
                /\ UNCHANGED <<backupAge, excused>>
    /\ jobs' = RemoveAt(jobs, i)
    /\ UNCHANGED <<hour, backups, restart, players, tick, late, ticked, changes, crashes,
                   reboots>>

Fail(i) ==
    /\ jobs[i].state = "running"
    /\ LET s == jobs[i].server
           dead == jobs[i].attempts + 1 >= MaxAttempts
       IN  /\ IF dead
              THEN /\ jobs' = RemoveAt(jobs, i)
                   /\ status' = [status EXCEPT ![s] = "error"]
              ELSE /\ jobs' = [jobs EXCEPT ![i].state = "failed", ![i].attempts = @ + 1]
                   /\ UNCHANGED status
           /\ excused' = [excused EXCEPT ![s] = TRUE]
    /\ UNCHANGED <<hour, backups, backupAge, restart, players, tick, late, ticked, changes, crashes,
                   reboots>>

(* What was not committed is lost; a job that ran is queued again. *)
Crash ==
    /\ crashes < MaxCrashes /\ crashes' = crashes + 1
    /\ tick' = Idle /\ ticked' = (ticked /\ tick.at = "none")
    /\ jobs' = [i \in DOMAIN jobs |->
                    IF jobs[i].state = "running" THEN [jobs[i] EXCEPT !.state = "queued"] ELSE jobs[i]]
    /\ UNCHANGED <<hour, rowVars, players, late, changes, auxVars>>

-----------------------------------------------------------------------------
(* An hour passes.  A worker without a job claims one and ticks within     *)
(* minutes; a tick takes seconds, a job an hour at most.                   *)
Pass ==
    /\ tick.at = "none"
    /\ IF Working THEN ~late
       ELSE ticked /\ \A i \in DOMAIN jobs : jobs[i].state = "failed"
    /\ hour' = (hour + 1) % Day
    /\ backupAge' = [s \in Servers |-> Older(backupAge[s], LongAgo)]
    /\ restart' = [s \in Servers |-> [restart[s] EXCEPT !.age = Older(@, Day)]]
    /\ late' = TRUE /\ ticked' = FALSE
    /\ reboots' = [s \in Servers |-> IF hour' = restart[s].at THEN 0 ELSE reboots[s]]
    /\ excused' = [s \in Servers |-> excused[s] \/ (hour = Window /\ ~ticked)]
    /\ UNCHANGED <<status, backups, players, jobs, tick, changes, crashes>>

Works == \/ Tick \/ CommitBackups \/ CommitRestarts
         \/ \E s \in Servers : QueueBackup(s) \/ HoldRestart(s) \/ QueueRestart(s)
Runs == \E i \in DOMAIN jobs : Claim(i) \/ Succeed(i) \/ Fail(i)

SchedNext ==
    \/ \E s \in Servers :
        \/ \E t \in Types : Request(s, t)
        \/ \E on \in BOOLEAN : set_backups(s, on)
        \/ \E on \in BOOLEAN, at \in RestartTimes : set_restart_schedule(s, on, at)
        \/ PlayersCome(s) \/ PlayersLeave(s)
    \/ Works \/ Runs \/ Crash \/ Pass

SchedSpec == SchedInit /\ [][SchedNext]_schedVars
                       /\ WF_schedVars(Works) /\ SF_schedVars(Runs) /\ SF_schedVars(Pass)
-----------------------------------------------------------------------------
(* Every variable keeps its type. *)
SchedTypeOK ==
    /\ hour \in 0..(Day - 1)
    /\ status \in [Servers -> {"running", "stopped", "error", "busy"}]
    /\ backups \in [Servers -> BOOLEAN] /\ backupAge \in [Servers -> 0..LongAgo]
    /\ players \in [Servers -> BOOLEAN] /\ reboots \in [Servers -> Nat]
    /\ tick.at \in {"none", "backups", "restarts"} /\ tick.due \subseteq Servers

(* One restart between two times of a schedule, whatever holds it up,      *)
(* fails or dies in between (service.py:443-499).                          *)
OncePerNight == \A s \in Servers : reboots[s] <= 1

(* With backups on, nothing in the way and no window without a tick, the   *)
(* backup is from the day before or the next one is queued: one that was   *)
(* too young at a window is made up for at the next (service.py:405-440).  *)
BackupsKeepPace ==
    \A s \in Servers : backups[s] /\ ~excused[s] =>
        \/ backupAge[s] <= Day + Cooldown
        \/ \E i \in DOMAIN jobs : jobs[i].server = s /\ jobs[i].type = "backup"

(* A server that stays up, on schedule and empty, is restarted again and   *)
(* again, whatever was queued, failed or died before (service.py:443-499). *)
NightlyRestarts ==
    \A s \in Servers :
        <>[](restart[s].on /\ ~players[s] /\ status[s] \in {"running", "busy"})
            => []<>(reboots[s] = 1) /\ []<>(reboots[s] = 0)
=============================================================================
