---------------------------- MODULE SchedulerProofs ----------------------------
(***************************************************************************)
(* The nightly work, proved for any number of servers, any length of the   *)
(* day, window, cooldown and set of restart times, and any number of       *)
(* requests and crashes.                                                   *)
(***************************************************************************)
EXTENDS Scheduler, SequenceTheorems, TLAPS

JobRecord == [ server : Servers, type : Types, state : {"queued", "running", "failed"},
               attempts : Nat ]
TypeInv ==
    /\ SchedTypeOK
    /\ restart \in [Servers -> [ on : BOOLEAN, at : 0..(Day - 1), age : Nat ]]
    /\ tick \in [ at : {"none", "backups", "restarts"}, due : SUBSET Servers,
                  queued : Seq(JobRecord) ]
    /\ jobs \in Seq(JobRecord)
    /\ ticked \in BOOLEAN /\ late \in BOOLEAN /\ excused \in [Servers -> BOOLEAN]

(* The hours since it was last h o'clock.                                  *)
Since(h) == IF hour >= h THEN hour - h ELSE hour + Day - h

(* A server restarted since its time came is not due, and one that a tick  *)
(* found due has not been restarted.                                       *)
RestartInv ==
    \A s \in Servers :
        /\ reboots[s] \in {0, 1}
        /\ reboots[s] = 1 => restart[s].age <= Since(restart[s].at)
        /\ tick.at = "restarts" /\ (s \in tick.due \/ s \in Stamped) => reboots[s] = 0

HasBackup(s, queue) == \E i \in DOMAIN queue : queue[i].server = s /\ queue[i].type = "backup"

(* A server that was too young at the last window is less than a day older *)
(* until the next one, and a tick in the window queues it or finds it      *)
(* young.                                                                  *)
BackupInv ==
    \A s \in Servers : backups[s] /\ ~excused[s] /\ ~HasBackup(s, jobs) =>
        /\ backupAge[s] <= Cooldown + IF hour = Window /\ ~ticked THEN Day ELSE Since(Window)
        /\ tick.at = "backups" /\ hour = Window =>
               s \in tick.due \/ HasBackup(s, tick.queued) \/ backupAge[s] <= Cooldown

Inv == TypeInv /\ RestartInv /\ BackupInv

-----------------------------------------------------------------------------
(* The hour goes round.                                                    *)
LEMMA NextHour ==
    ASSUME NEW x \in 0..(Day - 1)
    PROVE  (x + 1) % Day = IF x + 1 = Day THEN 0 ELSE x + 1
<1>1. Day \in Nat /\ Day > 0 /\ x \in Nat /\ x + 1 <= Day
  BY DayAssumption
<1>2. CASE x + 1 = Day
  BY <1>1, <1>2
<1>3. CASE x + 1 # Day
  BY <1>1, <1>3
<1>. QED BY <1>2, <1>3

LEMMA SinceNext ==
    ASSUME hour \in 0..(Day - 1), NEW h \in 0..(Day - 1), hour' = (hour + 1) % Day
    PROVE  /\ hour' \in 0..(Day - 1) /\ Since(h) \in 0..(Day - 1)
           /\ hour' = h \/ Since(h)' = Since(h) + 1
           /\ hour' # h => Since(h) < Day - 1
BY NextHour, DayAssumption DEF Since

(* Queues of jobs.                                                         *)
LEMMA JobTyped ==
    ASSUME NEW s \in Servers, NEW t \in Types
    PROVE  Job(s, t) \in JobRecord /\ Job(s, t).server = s /\ Job(s, t).type = t
BY DEF Job, JobRecord

LEMMA KnownTypes == Types = {"stop", "start", "reboot", "rebuild", "backup"}
BY DEF Types, From

LEMMA QueueGrows ==
    ASSUME NEW q \in Seq(JobRecord), NEW j \in JobRecord
    PROVE  /\ Append(q, j) \in Seq(JobRecord)
           /\ \A s : HasBackup(s, Append(q, j)) <=>
                         HasBackup(s, q) \/ (j.server = s /\ j.type = "backup")
           /\ {Append(q, j)[i].server : i \in DOMAIN Append(q, j)} =
                  {q[i].server : i \in DOMAIN q} \cup {j.server}
<1> DEFINE a == Append(q, j)
<1>1. /\ a \in Seq(JobRecord) /\ DOMAIN q = 1..Len(q) /\ Len(q) \in Nat
      /\ DOMAIN a = 1..(Len(q) + 1) /\ a[Len(q) + 1] = j
      /\ \A i \in DOMAIN q : a[i] = q[i]
  OBVIOUS
<1>. HIDE DEF a
<1>2. \A i \in DOMAIN a : i \in DOMAIN q \/ i = Len(q) + 1
  BY <1>1
<1>3. DOMAIN q \subseteq DOMAIN a /\ Len(q) + 1 \in DOMAIN a
  BY <1>1
<1>4. \A s : HasBackup(s, a) <=> HasBackup(s, q) \/ (j.server = s /\ j.type = "backup")
  BY <1>1, <1>2, <1>3 DEF HasBackup
<1>5. {a[i].server : i \in DOMAIN a} = {q[i].server : i \in DOMAIN q} \cup {j.server}
  BY <1>1, <1>2, <1>3
<1>. QED BY <1>1, <1>4, <1>5 DEF a

LEMMA QueuesJoin ==
    ASSUME NEW p \in Seq(JobRecord), NEW q \in Seq(JobRecord)
    PROVE  /\ p \o q \in Seq(JobRecord)
           /\ \A s : HasBackup(s, p) \/ HasBackup(s, q) => HasBackup(s, p \o q)
<1>1. /\ p \o q \in Seq(JobRecord)
      /\ \A i \in DOMAIN p : i \in DOMAIN (p \o q) /\ (p \o q)[i] = p[i]
      /\ \A i \in DOMAIN q : Len(p) + i \in DOMAIN (p \o q) /\ (p \o q)[Len(p) + i] = q[i]
  OBVIOUS
<1>. QED BY <1>1 DEF HasBackup

LEMMA RemovedJob ==
    ASSUME NEW q \in Seq(JobRecord), NEW i \in DOMAIN q
    PROVE  /\ RemoveAt(q, i) \in Seq(JobRecord)
           /\ \A s : HasBackup(s, q) /\ ~(q[i].server = s /\ q[i].type = "backup")
                     => HasBackup(s, RemoveAt(q, i))
<1>1. /\ RemoveAt(q, i) \in Seq(JobRecord)
      /\ \A k \in DOMAIN q : k # i => \E l \in DOMAIN RemoveAt(q, i) : RemoveAt(q, i)[l] = q[k]
  <2> DEFINE a == SubSeq(q, 1, i - 1)
             b == SubSeq(q, i + 1, Len(q))
  <2>1. /\ a \in Seq(JobRecord) /\ Len(a) = i - 1 /\ \A k \in 1..(i - 1) : a[k] = q[k]
    OBVIOUS
  <2>2. /\ b \in Seq(JobRecord) /\ Len(b) = Len(q) - i
        /\ \A k \in 1..(Len(q) - i) : b[k] = q[i + k]
    OBVIOUS
  <2>. HIDE DEF a, b
  <2>3. /\ a \o b \in Seq(JobRecord) /\ Len(a \o b) = Len(q) - 1
        /\ \A k \in 1..(i - 1) : (a \o b)[k] = q[k]
        /\ \A k \in (i + 1)..Len(q) : (a \o b)[k - 1] = q[k]
    BY <2>1, <2>2
  <2>4. \A k \in DOMAIN q : k # i => (k \in 1..(i - 1) /\ k \in DOMAIN (a \o b))
                                      \/ (k \in (i + 1)..Len(q) /\ k - 1 \in DOMAIN (a \o b))
    BY <2>3
  <2>5. RemoveAt(q, i) = a \o b
    BY DEF RemoveAt, a, b
  <2>. QED BY <2>3, <2>4, <2>5
<1>. QED BY <1>1 DEF HasBackup

(* A job that only changes its state stays what it is.                     *)
LEMMA ChangedJobs ==
    ASSUME NEW q \in Seq(JobRecord), NEW r, DOMAIN r = DOMAIN q, r = [ i \in DOMAIN q |-> r[i] ],
           \A i \in DOMAIN q : r[i] \in JobRecord /\ r[i].server = q[i].server
                                                   /\ r[i].type = q[i].type
    PROVE  r \in Seq(JobRecord) /\ \A s : HasBackup(s, q) <=> HasBackup(s, r)
<1>1. DOMAIN q = 1..Len(q) /\ Len(q) \in Nat
  OBVIOUS
<1>2. r \in Seq(JobRecord)
  BY <1>1
<1>. QED BY <1>2 DEF HasBackup

-----------------------------------------------------------------------------
LEMMA Constants ==
    /\ Day \in Nat /\ Day > 0 /\ Window \in 0..(Day - 1) /\ Cooldown \in 0..(Day - 1)
    /\ LongAgo \in Nat /\ LongAgo = Day + Cooldown + 1
BY DayAssumption DEF LongAgo

LEMMA ReqInv ==
    ASSUME Inv, NEW s \in Servers, NEW t \in Types, Request(s, t)
    PROVE  Inv'
<1>1. /\ jobs' = Append(jobs, Job(s, t)) /\ Job(s, t) \in JobRecord
      /\ UNCHANGED << hour, rowVars, players, tick, late, ticked, crashes, auxVars >>
  BY JobTyped DEF Request
<1>2. jobs' \in Seq(JobRecord) /\ \A x : HasBackup(x, jobs) => HasBackup(x, jobs')
  BY <1>1, QueueGrows DEF Inv, TypeInv
<1>3. TypeInv'
  BY <1>1, <1>2 DEF Inv, TypeInv, SchedTypeOK, rowVars, auxVars
<1>4. RestartInv'
  BY <1>1 DEF Inv, RestartInv, Stamped, Since, rowVars, auxVars
<1>5. BackupInv'
  BY <1>1, <1>2 DEF Inv, BackupInv, Since, rowVars, auxVars
<1>. QED BY <1>3, <1>4, <1>5 DEF Inv

LEMMA SettingsInv ==
    ASSUME Inv, NEW s \in Servers,
           \/ \E on \in BOOLEAN : set_backups(s, on)
           \/ \E on \in BOOLEAN, at \in RestartTimes : set_restart_schedule(s, on, at)
           \/ PlayersCome(s) \/ PlayersLeave(s)
    PROVE  Inv'
<1>1. ASSUME NEW on \in BOOLEAN, set_backups(s, on)
      PROVE  Inv'
  <2>1. /\ backups' = [backups EXCEPT ![s] = on] /\ excused' = [excused EXCEPT ![s] = TRUE]
        /\ UNCHANGED << hour, status, backupAge, restart, players, workVars, crashes, reboots >>
    BY <1>1 DEF set_backups
  <2>2. TypeInv'
    BY <2>1 DEF Inv, TypeInv, SchedTypeOK, workVars
  <2>3. RestartInv'
    BY <2>1 DEF Inv, RestartInv, Stamped, Since, workVars
  <2>4. BackupInv'
    BY <2>1 DEF Inv, TypeInv, SchedTypeOK, BackupInv, Since, workVars
  <2>. QED BY <2>2, <2>3, <2>4 DEF Inv
<1>2. ASSUME NEW on \in BOOLEAN, NEW at \in RestartTimes, set_restart_schedule(s, on, at)
      PROVE  Inv'
  <2>1. /\ restart' = [restart EXCEPT ![s] = [on |-> on, at |-> at, age |-> 0]]
        /\ reboots' = [reboots EXCEPT ![s] = 0]
        /\ UNCHANGED << hour, status, backups, backupAge, players, workVars, crashes, excused >>
    BY <1>2 DEF set_restart_schedule
  <2>2. TypeInv'
    BY <2>1, DayAssumption DEF Inv, TypeInv, SchedTypeOK, workVars
  <2>3. RestartInv'
    BY <2>1 DEF Inv, TypeInv, SchedTypeOK, RestartInv, Stamped, Since, workVars
  <2>4. BackupInv'
    BY <2>1 DEF Inv, BackupInv, Since, workVars
  <2>. QED BY <2>2, <2>3, <2>4 DEF Inv
<1>3. CASE PlayersCome(s) \/ PlayersLeave(s)
  <2>1. /\ players' \in [Servers -> BOOLEAN]
        /\ UNCHANGED << hour, rowVars, workVars, crashes, auxVars >>
    BY <1>3 DEF PlayersCome, PlayersLeave, Inv, TypeInv, SchedTypeOK
  <2>2. TypeInv'
    BY <2>1 DEF Inv, TypeInv, SchedTypeOK, workVars, rowVars, auxVars
  <2>3. RestartInv'
    BY <2>1 DEF Inv, RestartInv, Stamped, Since, workVars, rowVars, auxVars
  <2>4. BackupInv'
    BY <2>1 DEF Inv, BackupInv, Since, workVars, rowVars, auxVars
  <2>. QED BY <2>2, <2>3, <2>4 DEF Inv
<1>. QED BY <1>1, <1>2, <1>3

-----------------------------------------------------------------------------
(* The tick.                                                               *)
LEMMA IdleTyped ==
    ASSUME NEW at \in {"none", "backups", "restarts"}, NEW due \in SUBSET Servers
    PROVE  /\ [Idle EXCEPT !.at = at, !.due = due] \in
                  [ at : {"none", "backups", "restarts"}, due : SUBSET Servers,
                    queued : Seq(JobRecord) ]
           /\ [Idle EXCEPT !.at = at, !.due = due].at = at
           /\ [Idle EXCEPT !.at = at, !.due = due].due = due
           /\ [Idle EXCEPT !.at = at, !.due = due].queued = << >>
<1>1. << >> \in Seq(JobRecord)
  OBVIOUS
<1>2. /\ Idle \in [ at : {"none", "backups", "restarts"}, due : SUBSET Servers,
                    queued : Seq(JobRecord) ]
      /\ Idle.queued = << >>
  BY <1>1 DEF Idle
<1>. QED BY <1>2

LEMMA TickInv ==
    ASSUME Inv, Tick
    PROVE  Inv'
<1> DEFINE due == {s \in Servers : DueBackup(s)}
<1>1. /\ tick' = [Idle EXCEPT !.at = "backups", !.due = due]
      /\ excused' = [s \in Servers |->
                        excused[s] \/ (hour = Window /\ status[s] \notin From["backup"])]
      /\ UNCHANGED << hour, rowVars, players, jobs, late, ticked, changes, crashes, reboots >>
  BY DEF Tick
<1>2. /\ tick' \in [ at : {"none", "backups", "restarts"}, due : SUBSET Servers,
                     queued : Seq(JobRecord) ]
      /\ tick'.at = "backups" /\ tick'.due = due
  BY <1>1, IdleTyped
<1>3. TypeInv'
  BY <1>1, <1>2 DEF Inv, TypeInv, SchedTypeOK, rowVars
<1>4. RestartInv'
  BY <1>1, <1>2 DEF Inv, RestartInv, Stamped, Since, rowVars
<1>5. BackupInv'
  <2>. SUFFICES ASSUME NEW s \in Servers, (backups[s] /\ ~excused[s] /\ ~HasBackup(s, jobs))'
                PROVE  /\ backupAge[s] <= Cooldown +
                              IF hour = Window /\ ~ticked THEN Day ELSE Since(Window)
                       /\ hour = Window => s \in due \/ backupAge[s] <= Cooldown
    BY <1>1, <1>2 DEF BackupInv, Since, rowVars
  <2>1. /\ backups[s] /\ ~excused[s] /\ ~HasBackup(s, jobs)
        /\ hour = Window => status[s] \in From["backup"]
    BY <1>1 DEF rowVars, Inv, TypeInv
  <2>2. backupAge[s] \in Nat /\ Cooldown \in Nat
    BY Constants DEF Inv, TypeInv, SchedTypeOK
  <2>. QED BY <2>1, <2>2 DEF Inv, BackupInv, DueBackup
<1>. QED BY <1>3, <1>4, <1>5 DEF Inv

(* A server leaves the rows that are due, queued or not.                   *)
LEMMA QueueTyped ==
    ASSUME Inv, NEW s \in Servers, NEW t \in Types,
           tick' = [tick EXCEPT !.due = @ \ {s},
                                !.queued = IF Busy(s) THEN @ ELSE Append(@, Job(s, t))]
    PROVE  /\ tick' \in [ at : {"none", "backups", "restarts"}, due : SUBSET Servers,
                          queued : Seq(JobRecord) ]
           /\ tick'.at = tick.at /\ tick'.due = tick.due \ {s}
           /\ Stamped' \subseteq Stamped \cup {s}
           /\ \A x : HasBackup(x, tick.queued) => HasBackup(x, tick'.queued)
           /\ ~Busy(s) /\ t = "backup" => HasBackup(s, tick'.queued)
<1>1. tick \in [ at : {"none", "backups", "restarts"}, due : SUBSET Servers,
                 queued : Seq(JobRecord) ]
  BY DEF Inv, TypeInv
<1>2. /\ tick'.at = tick.at /\ tick'.due = tick.due \ {s}
      /\ tick'.queued = IF Busy(s) THEN tick.queued ELSE Append(tick.queued, Job(s, t))
  BY <1>1
<1>3. tick'.queued \in Seq(JobRecord)
  BY <1>1, <1>2, JobTyped
<1>4. tick' \in [ at : {"none", "backups", "restarts"}, due : SUBSET Servers,
                  queued : Seq(JobRecord) ]
  BY <1>1, <1>3
<1>. QED BY <1>1, <1>2, <1>4, JobTyped, QueueGrows DEF Stamped

LEMMA QueueBackupInv ==
    ASSUME Inv, NEW s \in Servers, QueueBackup(s)
    PROVE  Inv'
<1>1. /\ tick.at = "backups" /\ s \in tick.due
      /\ tick' = [tick EXCEPT !.due = @ \ {s},
                              !.queued = IF Busy(s) THEN @ ELSE Append(@, Job(s, "backup"))]
      /\ excused' = [excused EXCEPT ![s] = @ \/ Busy(s)]
      /\ UNCHANGED << hour, rowVars, players, jobs, late, ticked, changes, crashes, reboots >>
  BY DEF QueueBackup
<1>2. /\ tick' \in [ at : {"none", "backups", "restarts"}, due : SUBSET Servers,
                     queued : Seq(JobRecord) ]
      /\ tick'.at = tick.at /\ tick'.due = tick.due \ {s}
      /\ \A x : HasBackup(x, tick.queued) => HasBackup(x, tick'.queued)
      /\ ~Busy(s) => HasBackup(s, tick'.queued)
  BY <1>1, QueueTyped, KnownTypes
<1>3. Busy(s) \in BOOLEAN
  BY DEF Busy
<1>4. TypeInv'
  BY <1>1, <1>2, <1>3 DEF Inv, TypeInv, SchedTypeOK, rowVars
<1>5. RestartInv'
  BY <1>1, <1>2 DEF Inv, RestartInv, Since, rowVars
<1>6. BackupInv'
  BY <1>1, <1>2 DEF Inv, TypeInv, BackupInv, Since, rowVars
<1>. QED BY <1>4, <1>5, <1>6 DEF Inv

LEMMA CommitBackupsInv ==
    ASSUME Inv, CommitBackups
    PROVE  Inv'
<1> DEFINE due == {s \in Servers : DueRestart(s)}
<1>1. /\ tick.at = "backups" /\ tick.due = {} /\ jobs' = jobs \o tick.queued
      /\ tick' = [Idle EXCEPT !.at = "restarts", !.due = due] /\ ticked' = TRUE
      /\ UNCHANGED << hour, rowVars, players, late, changes, crashes, auxVars >>
  BY DEF CommitBackups
<1>2. /\ tick' \in [ at : {"none", "backups", "restarts"}, due : SUBSET Servers,
                     queued : Seq(JobRecord) ]
      /\ tick'.at = "restarts" /\ tick'.due = due /\ tick'.queued = << >>
  BY <1>1, IdleTyped
<1>3. /\ jobs' \in Seq(JobRecord)
      /\ \A s : HasBackup(s, jobs) \/ HasBackup(s, tick.queued) => HasBackup(s, jobs')
  BY <1>1, QueuesJoin DEF Inv, TypeInv
<1>4. TypeInv'
  BY <1>1, <1>2, <1>3 DEF Inv, TypeInv, SchedTypeOK, rowVars, auxVars
<1>5. RestartInv'
  <2>1. Stamped' = {}
    BY <1>2 DEF Stamped
  <2>2. \A s \in due : reboots[s] = 0
    <3>. SUFFICES ASSUME NEW s \in due, reboots[s] = 1
                  PROVE  FALSE
      BY DEF Inv, RestartInv
    <3>1. /\ restart[s].age \in Nat /\ restart[s].at \in 0..(Day - 1) /\ hour \in 0..(Day - 1)
          /\ restart[s].age <= Since(restart[s].at)
      BY DEF Inv, TypeInv, SchedTypeOK, RestartInv
    <3>. QED BY <3>1, DayAssumption DEF DueRestart, Since
  <2>. QED BY <1>1, <1>2, <2>1, <2>2 DEF Inv, RestartInv, Since, rowVars, auxVars
<1>6. BackupInv'
  <2>. SUFFICES ASSUME NEW s \in Servers, (backups[s] /\ ~excused[s] /\ ~HasBackup(s, jobs))'
                PROVE  backupAge[s] <= Cooldown + Since(Window)
    BY <1>1, <1>2 DEF BackupInv, Since, rowVars
  <2>1. backups[s] /\ ~excused[s] /\ ~HasBackup(s, jobs) /\ ~HasBackup(s, tick.queued)
    BY <1>1, <1>3 DEF rowVars, auxVars
  <2>2. /\ backupAge[s] <= Cooldown +
                              IF hour = Window /\ ~ticked THEN Day ELSE Since(Window)
        /\ hour = Window => backupAge[s] <= Cooldown
    BY <1>1, <2>1 DEF Inv, BackupInv
  <2>. QED BY <2>2, Constants DEF Since
<1>. QED BY <1>4, <1>5, <1>6 DEF Inv

LEMMA RestartTickInv ==
    ASSUME Inv, NEW s \in Servers, HoldRestart(s) \/ QueueRestart(s)
    PROVE  Inv'
<1>1. /\ tick.at = "restarts" /\ s \in tick.due
      /\ UNCHANGED << hour, rowVars, players, jobs, late, ticked, changes, crashes, auxVars >>
  BY DEF HoldRestart, QueueRestart, auxVars
<1>2. /\ tick' \in [ at : {"none", "backups", "restarts"}, due : SUBSET Servers,
                     queued : Seq(JobRecord) ]
      /\ tick'.at = tick.at /\ tick'.due = tick.due \ {s} /\ Stamped' \subseteq Stamped \cup {s}
  <2>1. CASE HoldRestart(s)
    <3>1. tick' = [tick EXCEPT !.due = @ \ {s}]
      BY <2>1 DEF HoldRestart
    <3>. QED BY <3>1 DEF Inv, TypeInv, Stamped
  <2>2. CASE QueueRestart(s)
    BY <2>2, QueueTyped, KnownTypes DEF QueueRestart
  <2>. QED BY <2>1, <2>2
<1>3. TypeInv'
  BY <1>1, <1>2 DEF Inv, TypeInv, SchedTypeOK, rowVars, auxVars
<1>4. RestartInv'
  BY <1>1, <1>2 DEF Inv, RestartInv, Since, rowVars, auxVars
<1>5. BackupInv'
  BY <1>1, <1>2 DEF Inv, BackupInv, Since, rowVars, auxVars
<1>. QED BY <1>3, <1>4, <1>5 DEF Inv

LEMMA CommitRestartsInv ==
    ASSUME Inv, CommitRestarts
    PROVE  Inv'
<1>1. /\ tick.at = "restarts" /\ jobs' = jobs \o tick.queued
      /\ restart' = [s \in Servers |-> IF s \in Stamped
                        THEN [restart[s] EXCEPT !.age = 0] ELSE restart[s]]
      /\ tick' = Idle
      /\ reboots' = [s \in Servers |-> IF s \in Stamped THEN reboots[s] + 1 ELSE reboots[s]]
      /\ UNCHANGED << hour, status, backups, backupAge, players, late, ticked, changes,
                      crashes, excused >>
  BY DEF CommitRestarts
<1>2. /\ tick' \in [ at : {"none", "backups", "restarts"}, due : SUBSET Servers,
                     queued : Seq(JobRecord) ]
      /\ tick'.at = "none"
  BY <1>1 DEF Idle
<1>3. /\ jobs' \in Seq(JobRecord)
      /\ \A s : HasBackup(s, jobs) => HasBackup(s, jobs')
  BY <1>1, QueuesJoin DEF Inv, TypeInv
<1>4. \A s \in Servers : /\ restart[s] \in [ on : BOOLEAN, at : 0..(Day - 1), age : Nat ]
                         /\ reboots[s] \in {0, 1} /\ (s \in Stamped => reboots[s] = 0)
  BY <1>1 DEF Inv, TypeInv, RestartInv
<1>5. /\ restart' \in [Servers -> [ on : BOOLEAN, at : 0..(Day - 1), age : Nat ]]
      /\ reboots' \in [Servers -> Nat]
      /\ \A s \in Servers : /\ restart'[s].at = restart[s].at
                            /\ s \in Stamped => restart'[s].age = 0 /\ reboots'[s] = 1
                            /\ s \notin Stamped => restart'[s] = restart[s]
                                                 /\ reboots'[s] = reboots[s]
  <2>1. ASSUME NEW s \in Servers
        PROVE  /\ restart'[s] \in [ on : BOOLEAN, at : 0..(Day - 1), age : Nat ]
               /\ restart'[s].at = restart[s].at
               /\ s \in Stamped => restart'[s].age = 0
               /\ s \notin Stamped => restart'[s] = restart[s]
    <3>1. PICK r : r = restart[s]
      OBVIOUS
    <3>2. r \in [ on : BOOLEAN, at : 0..(Day - 1), age : Nat ]
      BY <1>4, <3>1
    <3>3. restart'[s] = IF s \in Stamped THEN [r EXCEPT !.age = 0] ELSE r
      BY <1>1, <3>1
    <3>. QED BY <3>1, <3>2, <3>3
  <2>2. ASSUME NEW s \in Servers
        PROVE  /\ reboots'[s] \in Nat
               /\ s \in Stamped => reboots'[s] = 1
               /\ s \notin Stamped => reboots'[s] = reboots[s]
    <3>1. reboots'[s] = IF s \in Stamped THEN reboots[s] + 1 ELSE reboots[s]
      BY <1>1
    <3>. QED BY <1>4, <3>1
  <2>3. restart' = [s \in Servers |-> restart'[s]] /\ reboots' = [s \in Servers |-> reboots'[s]]
    BY <1>1
  <2>4. restart' \in [Servers -> [ on : BOOLEAN, at : 0..(Day - 1), age : Nat ]]
    BY <2>1, <2>3
  <2>5. reboots' \in [Servers -> Nat]
    BY <2>2, <2>3
  <2>. QED BY <2>1, <2>2, <2>4, <2>5
<1>6. TypeInv'
  BY <1>1, <1>2, <1>3, <1>5 DEF Inv, TypeInv, SchedTypeOK
<1>7. RestartInv'
  <2>. SUFFICES ASSUME NEW s \in Servers
                PROVE  /\ reboots'[s] \in {0, 1}
                       /\ reboots'[s] = 1 => restart'[s].age <= Since(restart'[s].at)
    BY <1>1, <1>2 DEF RestartInv, Since
  <2>1. hour \in 0..(Day - 1)
    BY DEF Inv, TypeInv, SchedTypeOK
  <2>2. CASE s \in Stamped
    <3>1. restart[s].at \in 0..(Day - 1) /\ restart'[s].at = restart[s].at
      BY <1>4, <1>5
    <3>. QED BY <1>5, <2>1, <2>2, <3>1, DayAssumption DEF Since
  <2>3. CASE s \notin Stamped
    BY <1>4, <1>5, <2>3 DEF Inv, RestartInv
  <2>. QED BY <2>2, <2>3
<1>8. BackupInv'
  BY <1>1, <1>2, <1>3 DEF Inv, BackupInv, Since
<1>. QED BY <1>6, <1>7, <1>8 DEF Inv

-----------------------------------------------------------------------------
(* The jobs.                                                               *)
LEMMA JobAt ==
    ASSUME Inv, NEW i \in DOMAIN jobs
    PROVE  /\ jobs[i] \in JobRecord /\ jobs[i].server \in Servers
           /\ jobs \in Seq(JobRecord) /\ DOMAIN jobs = 1..Len(jobs)
<1>1. jobs \in Seq(JobRecord)
  BY DEF Inv, TypeInv
<1>2. DOMAIN jobs = 1..Len(jobs) /\ jobs[i] \in JobRecord
  BY <1>1
<1>. QED BY <1>1, <1>2 DEF JobRecord

LEMMA ClaimInv ==
    ASSUME Inv, NEW i \in DOMAIN jobs, Claim(i)
    PROVE  Inv'
<1> DEFINE s == jobs[i].server
<1>1. /\ tick.at = "none" /\ jobs' = [jobs EXCEPT ![i].state = "running"] /\ late' = FALSE
      /\ status' = IF jobs[i].type # "backup" /\ status[s] \in From[jobs[i].type]
                     THEN [status EXCEPT ![s] = "busy"] ELSE status
      /\ UNCHANGED << hour, backups, backupAge, restart, players, tick, ticked, changes,
                      crashes, reboots, excused >>
  BY DEF Claim
<1>2. s \in Servers
  BY JobAt
<1>. HIDE DEF s
<1>3. /\ jobs' \in Seq(JobRecord)
      /\ \A x : HasBackup(x, jobs) <=> HasBackup(x, jobs')
  <2>1. jobs' = [ k \in DOMAIN jobs |-> jobs'[k] ] /\ DOMAIN jobs' = DOMAIN jobs
    BY <1>1, JobAt
  <2>2. \A k \in DOMAIN jobs : /\ jobs'[k] \in JobRecord /\ jobs'[k].server = jobs[k].server
                               /\ jobs'[k].type = jobs[k].type
    BY <1>1, JobAt DEF JobRecord
  <2>. QED BY <2>1, <2>2, ChangedJobs, JobAt
<1>4. TypeInv'
  BY <1>1, <1>2, <1>3 DEF Inv, TypeInv, SchedTypeOK
<1>5. RestartInv'
  BY <1>1 DEF Inv, RestartInv, Stamped, Since
<1>6. BackupInv'
  BY <1>1, <1>3 DEF Inv, BackupInv, Since
<1>. QED BY <1>4, <1>5, <1>6 DEF Inv

LEMMA SucceedInv ==
    ASSUME Inv, NEW i \in DOMAIN jobs, Succeed(i)
    PROVE  Inv'
<1> DEFINE s == jobs[i].server
           t == jobs[i].type
<1>1. /\ jobs' = RemoveAt(jobs, i)
      /\ UNCHANGED << hour, backups, restart, players, tick, late, ticked, changes, crashes,
                      reboots >>
      /\ \/ /\ t = "backup"
            /\ backupAge' = [backupAge EXCEPT ![s] = 0]
            /\ excused' = [excused EXCEPT ![s] = FALSE]
            /\ UNCHANGED status
         \/ /\ t # "backup" /\ status[s] = "busy"
            /\ status' = [status EXCEPT ![s] = Result[t]]
            /\ UNCHANGED << backupAge, excused >>
  BY DEF Succeed
<1>2. s \in Servers /\ t \in Types
  BY JobAt DEF JobRecord
<1>3. /\ jobs' \in Seq(JobRecord)
      /\ \A x : HasBackup(x, jobs) /\ s # x => HasBackup(x, jobs')
      /\ t # "backup" => \A x : HasBackup(x, jobs) => HasBackup(x, jobs')
  BY <1>1, RemovedJob, JobAt
<1>4. t # "backup" => status[s] = "busy" /\ status' = [status EXCEPT ![s] = Result[t]]
                      /\ UNCHANGED << backupAge, excused >>
  BY <1>1
<1>5. t = "backup" => UNCHANGED status /\ backupAge' = [backupAge EXCEPT ![s] = 0]
                      /\ excused' = [excused EXCEPT ![s] = FALSE]
  BY <1>1
<1>. HIDE DEF s, t
<1>6. TypeInv'
  <2>1. status' \in [Servers -> {"running", "stopped", "error", "busy"}]
    <3>1. t # "backup" => Result[t] \in {"running", "stopped"}
      BY <1>2, KnownTypes DEF Result
    <3>. QED BY <1>2, <1>4, <1>5, <3>1 DEF Inv, TypeInv, SchedTypeOK
  <2>2. backupAge' \in [Servers -> 0..LongAgo] /\ excused' \in [Servers -> BOOLEAN]
    <3>1. /\ backupAge \in [Servers -> 0..LongAgo] /\ excused \in [Servers -> BOOLEAN]
          /\ 0 \in 0..LongAgo
      BY Constants DEF Inv, TypeInv, SchedTypeOK
    <3>2. CASE t = "backup"
      BY <1>2, <1>5, <3>1, <3>2
    <3>3. CASE t # "backup"
      BY <1>4, <3>1, <3>3
    <3>. QED BY <3>2, <3>3
  <2>. QED BY <1>1, <1>3, <2>1, <2>2 DEF Inv, TypeInv, SchedTypeOK
<1>7. RestartInv'
  BY <1>1 DEF Inv, RestartInv, Stamped, Since
<1>8. BackupInv'
  <2>1. CASE t # "backup"
    BY <1>1, <1>3, <1>4, <2>1 DEF Inv, BackupInv, Since
  <2>2. CASE t = "backup"
    <3>1. \A x \in Servers : x # s => backupAge'[x] = backupAge[x] /\ excused'[x] = excused[x]
      BY <1>5, <2>2 DEF Inv, TypeInv, SchedTypeOK
    <3>2. backupAge'[s] = 0 /\ Cooldown \in Nat /\ Day \in Nat /\ Since(Window) \in 0..(Day - 1)
      <4>1. backupAge'[s] = 0
        BY <1>2, <1>5, <2>2 DEF Inv, TypeInv, SchedTypeOK
      <4>2. Since(Window) \in 0..(Day - 1)
        BY Constants DEF Since, Inv, TypeInv, SchedTypeOK
      <4>. QED BY <4>1, <4>2, Constants
    <3>3. Since(Window)' = Since(Window)
      BY <1>1 DEF Since
    <3>. QED BY <1>1, <1>3, <3>1, <3>2, <3>3 DEF Inv, BackupInv
  <2>. QED BY <2>1, <2>2
<1>. QED BY <1>6, <1>7, <1>8 DEF Inv

LEMMA FailInv ==
    ASSUME Inv, NEW i \in DOMAIN jobs, Fail(i)
    PROVE  Inv'
<1> DEFINE s == jobs[i].server
<1>1. /\ UNCHANGED << hour, backups, backupAge, restart, players, tick, late, ticked, changes,
                      crashes, reboots >>
      /\ excused' = [excused EXCEPT ![s] = TRUE]
      /\ \/ jobs' = RemoveAt(jobs, i) /\ status' = [status EXCEPT ![s] = "error"]
         \/ /\ jobs' = [jobs EXCEPT ![i].state = "failed", ![i].attempts = @ + 1]
            /\ UNCHANGED status
  BY DEF Fail
<1>2. s \in Servers
  BY JobAt
<1>3. /\ jobs' \in Seq(JobRecord)
      /\ \A x : HasBackup(x, jobs) /\ x # s => HasBackup(x, jobs')
  <2>1. CASE jobs' = RemoveAt(jobs, i)
    BY <2>1, RemovedJob, JobAt
  <2>2. CASE jobs' = [jobs EXCEPT ![i].state = "failed", ![i].attempts = @ + 1]
    <3>1. jobs' = [ k \in DOMAIN jobs |-> jobs'[k] ] /\ DOMAIN jobs' = DOMAIN jobs
      BY <2>2, JobAt
    <3>2. \A k \in DOMAIN jobs : /\ jobs'[k] \in JobRecord /\ jobs'[k].server = jobs[k].server
                                 /\ jobs'[k].type = jobs[k].type
      BY <2>2, JobAt DEF JobRecord
    <3>. QED BY <3>1, <3>2, ChangedJobs, JobAt
  <2>. QED BY <1>1, <2>1, <2>2
<1>. HIDE DEF s
<1>4. TypeInv'
  BY <1>1, <1>2, <1>3 DEF Inv, TypeInv, SchedTypeOK
<1>5. RestartInv'
  BY <1>1 DEF Inv, RestartInv, Stamped, Since
<1>6. BackupInv'
  BY <1>1, <1>2, <1>3 DEF Inv, TypeInv, SchedTypeOK, BackupInv, Since
<1>. QED BY <1>4, <1>5, <1>6 DEF Inv

LEMMA CrashInv ==
    ASSUME Inv, Crash
    PROVE  Inv'
<1>1. /\ tick' = Idle /\ ticked' = (ticked /\ tick.at = "none")
      /\ jobs' = [i \in DOMAIN jobs |->
                    IF jobs[i].state = "running" THEN [jobs[i] EXCEPT !.state = "queued"]
                                                 ELSE jobs[i]]
      /\ UNCHANGED << hour, rowVars, players, late, changes, auxVars >>
  BY DEF Crash
<1>2. /\ tick' \in [ at : {"none", "backups", "restarts"}, due : SUBSET Servers,
                     queued : Seq(JobRecord) ]
      /\ tick'.at = "none"
  BY <1>1 DEF Idle
<1>3. jobs' \in Seq(JobRecord) /\ \A x : HasBackup(x, jobs) <=> HasBackup(x, jobs')
  <2>1. jobs' = [ k \in DOMAIN jobs |-> jobs'[k] ] /\ DOMAIN jobs' = DOMAIN jobs
    BY <1>1
  <2>2. \A k \in DOMAIN jobs : /\ jobs'[k] \in JobRecord /\ jobs'[k].server = jobs[k].server
                               /\ jobs'[k].type = jobs[k].type
    BY <1>1, JobAt DEF JobRecord
  <2>. QED BY <2>1, <2>2, ChangedJobs DEF Inv, TypeInv
<1>4. TypeInv'
  BY <1>1, <1>2, <1>3 DEF Inv, TypeInv, SchedTypeOK, rowVars, auxVars
<1>5. RestartInv'
  BY <1>1, <1>2 DEF Inv, RestartInv, Since, rowVars, auxVars
<1>6. BackupInv'
  <2>1. Since(Window) \in 0..(Day - 1) /\ Since(Window)' = Since(Window)
    BY <1>1, Constants DEF Since, Inv, TypeInv, SchedTypeOK
  <2>2. \A x \in Servers : backupAge[x] \in Nat
    BY Constants DEF Inv, TypeInv, SchedTypeOK
  <2>. SUFFICES ASSUME NEW s \in Servers, (backups[s] /\ ~excused[s] /\ ~HasBackup(s, jobs))'
                PROVE  backupAge[s] <= Cooldown +
                              IF hour = Window /\ ~ticked' THEN Day ELSE Since(Window)
    BY <1>1, <1>2, <2>1 DEF BackupInv, rowVars
  <2>3. backups[s] /\ ~excused[s] /\ ~HasBackup(s, jobs)
    BY <1>1, <1>3 DEF rowVars, auxVars
  <2>4. backupAge[s] <= Cooldown + IF hour = Window /\ ~ticked THEN Day ELSE Since(Window)
    BY <2>3 DEF Inv, BackupInv
  <2>5. ticked' => ticked
    BY <1>1
  <2>. QED BY <2>1, <2>2, <2>4, <2>5, Constants
<1>. QED BY <1>4, <1>5, <1>6 DEF Inv

(* An hour passes: everything is an hour older, and at the hour itself the *)
(* count starts again.                                                     *)
LEMMA PassInv ==
    ASSUME Inv, Pass
    PROVE  Inv'
<1>1. /\ tick.at = "none" /\ hour' = (hour + 1) % Day
      /\ backupAge' = [s \in Servers |-> Older(backupAge[s], LongAgo)]
      /\ restart' = [s \in Servers |-> [restart[s] EXCEPT !.age = Older(@, Day)]]
      /\ late' = TRUE /\ ticked' = FALSE
      /\ reboots' = [s \in Servers |-> IF hour' = restart[s].at THEN 0 ELSE reboots[s]]
      /\ excused' = [s \in Servers |-> excused[s] \/ (hour = Window /\ ~ticked)]
      /\ UNCHANGED << status, backups, players, jobs, tick, changes, crashes >>
  BY DEF Pass
<1>2. /\ hour \in 0..(Day - 1)
      /\ \A s \in Servers : /\ restart[s] \in [ on : BOOLEAN, at : 0..(Day - 1), age : Nat ]
                            /\ restart[s].at \in 0..(Day - 1) /\ restart[s].age \in Nat
                            /\ backupAge[s] \in 0..LongAgo /\ reboots[s] \in {0, 1}
  BY DEF Inv, TypeInv, SchedTypeOK, RestartInv
<1>3. \A s \in Servers : /\ restart'[s].at = restart[s].at
                         /\ restart'[s].age \in Nat /\ restart'[s].age <= restart[s].age + 1
                         /\ restart'[s] \in [ on : BOOLEAN, at : 0..(Day - 1), age : Nat ]
  BY <1>1, <1>2, Constants DEF Older
<1>4. \A s \in Servers : backupAge'[s] \in 0..LongAgo /\ backupAge'[s] <= backupAge[s] + 1
  <2>. SUFFICES ASSUME NEW s \in Servers
                PROVE  backupAge'[s] \in 0..LongAgo /\ backupAge'[s] <= backupAge[s] + 1
    OBVIOUS
  <2>1. backupAge'[s] = Older(backupAge[s], LongAgo)
    BY <1>1
  <2>2. backupAge[s] \in 0..LongAgo /\ LongAgo \in Nat
    BY <1>2, Constants
  <2>. QED BY <2>1, <2>2 DEF Older
<1>5. TypeInv'
  <2>1. hour' \in 0..(Day - 1)
    BY <1>1, <1>2, SinceNext, Constants
  <2>2. /\ restart' \in [Servers -> [ on : BOOLEAN, at : 0..(Day - 1), age : Nat ]]
        /\ backupAge' \in [Servers -> 0..LongAgo]
    BY <1>1, <1>3, <1>4
  <2>3. reboots' \in [Servers -> Nat] /\ excused' \in [Servers -> BOOLEAN]
    <3>1. \A s \in Servers : reboots[s] \in Nat
      BY <1>2
    <3>2. reboots' \in [Servers -> Nat]
      BY <1>1, <3>1
    <3>3. excused' \in [Servers -> BOOLEAN]
      BY <1>1, Zenon DEF Inv, TypeInv
    <3>. QED BY <3>2, <3>3
  <2>. QED BY <1>1, <2>1, <2>2, <2>3 DEF Inv, TypeInv, SchedTypeOK
<1>6. RestartInv'
  <2>. SUFFICES ASSUME NEW s \in Servers, NEW h \in 0..(Day - 1), h = restart[s].at
                PROVE  /\ reboots'[s] \in {0, 1}
                       /\ reboots'[s] = 1 => restart'[s].age <= Since(h)'
    BY <1>1, <1>2, <1>3 DEF RestartInv, Since
  <2>1. Since(h) \in 0..(Day - 1) /\ (hour' = h \/ Since(h)' = Since(h) + 1)
    BY <1>1, <1>2, SinceNext
  <2>2. reboots[s] = 1 => restart[s].age <= Since(h)
    BY DEF Inv, RestartInv
  <2>3. CASE hour' = h
    BY <1>1, <2>3
  <2>4. CASE hour' # h
    <3>1. reboots'[s] = reboots[s]
      BY <1>1, <2>4
    <3>. QED BY <1>2, <1>3, <2>1, <2>2, <2>4, <3>1
  <2>. QED BY <2>3, <2>4
<1>7. BackupInv'
  <2>. SUFFICES ASSUME NEW s \in Servers, (backups[s] /\ ~excused[s] /\ ~HasBackup(s, jobs))'
                PROVE  backupAge'[s] <= Cooldown +
                              IF hour' = Window THEN Day ELSE Since(Window)'
    BY <1>1 DEF BackupInv
  <2>1. /\ backups[s] /\ ~excused[s] /\ ~HasBackup(s, jobs) /\ ~(hour = Window /\ ~ticked)
    BY <1>1
  <2>2. backupAge[s] <= Cooldown + Since(Window)
    BY <2>1 DEF Inv, BackupInv
  <2>3. /\ hour' = Window \/ Since(Window)' = Since(Window) + 1
        /\ Since(Window) \in 0..(Day - 1)
    BY <1>1, <1>2, SinceNext, Constants
  <2>. QED BY <1>2, <1>4, <2>2, <2>3, Constants
<1>. QED BY <1>5, <1>6, <1>7 DEF Inv

-----------------------------------------------------------------------------
LEMMA InitInv ==
    ASSUME SchedInit
    PROVE  Inv
<1>1. TypeInv
  <2>1. << >> \in Seq(JobRecord) /\ 0 \in 0..(Day - 1) /\ LongAgo \in 0..LongAgo /\ Day \in Nat
    BY Constants
  <2>2. restart \in [Servers -> [ on : BOOLEAN, at : 0..(Day - 1), age : Nat ]]
    BY <2>1 DEF SchedInit
  <2>3. SchedTypeOK
    BY <2>1 DEF SchedInit, SchedTypeOK, Idle
  <2>. QED BY <2>1, <2>2, <2>3 DEF SchedInit, TypeInv, Idle
<1>2. RestartInv /\ BackupInv
  BY DEF SchedInit, RestartInv, BackupInv, Idle
<1>. QED BY <1>1, <1>2 DEF Inv

LEMMA NextInv ==
    ASSUME Inv, [SchedNext]_schedVars
    PROVE  Inv'
<1>1. CASE \E s \in Servers :
               \/ \E t \in Types : Request(s, t)
               \/ \E on \in BOOLEAN : set_backups(s, on)
               \/ \E on \in BOOLEAN, at \in RestartTimes : set_restart_schedule(s, on, at)
               \/ PlayersCome(s) \/ PlayersLeave(s)
  BY <1>1, ReqInv, SettingsInv
<1>2. CASE Works
  BY <1>2, TickInv, CommitBackupsInv, CommitRestartsInv, QueueBackupInv, RestartTickInv DEF Works
<1>3. CASE Runs
  BY <1>3, ClaimInv, SucceedInv, FailInv DEF Runs
<1>4. CASE Crash \/ Pass
  BY <1>4, CrashInv, PassInv
<1>5. CASE UNCHANGED schedVars
  BY <1>5 DEF schedVars, rowVars, workVars, auxVars, Inv, TypeInv, SchedTypeOK, RestartInv,
              BackupInv, Stamped, Since
<1>. QED BY <1>1, <1>2, <1>3, <1>4, <1>5 DEF SchedNext

LEMMA InvAlways == SchedSpec => []Inv
BY InitInv, NextInv, PTL DEF SchedSpec

(* Rows, jobs and the tick keep their types.                               *)
THEOREM ScheduleTypes == SchedSpec => []SchedTypeOK
<1>1. Inv => SchedTypeOK
  BY DEF Inv, TypeInv
<1>. QED BY <1>1, InvAlways, PTL

(* A server is restarted once between two times of its schedule, whatever  *)
(* holds a restart up, fails or dies in between.                           *)
THEOREM OncePerNightAlways == SchedSpec => []OncePerNight
<1>1. Inv => OncePerNight
  BY DEF Inv, RestartInv, OncePerNight
<1>. QED BY <1>1, InvAlways, PTL

(* With backups on, nothing in the way and a tick in every window, a       *)
(* server's backup is never older than a day and the cooldown without the  *)
(* next one in the queue.                                                  *)
THEOREM BackupsAlwaysKeepPace == SchedSpec => []BackupsKeepPace
<1>1. Inv => BackupsKeepPace
  <2>. SUFFICES ASSUME Inv, NEW s \in Servers, backups[s] /\ ~excused[s] /\ ~HasBackup(s, jobs)
                PROVE  backupAge[s] <= Day + Cooldown
    BY DEF BackupsKeepPace, HasBackup
  <2>1. Since(Window) \in 0..(Day - 1) /\ backupAge[s] \in Nat
    BY Constants DEF Since, Inv, TypeInv, SchedTypeOK
  <2>. QED BY <2>1, Constants DEF Inv, BackupInv
<1>. QED BY <1>1, InvAlways, PTL

=============================================================================
