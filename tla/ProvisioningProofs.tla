------------------------- MODULE ProvisioningProofs -------------------------
(***************************************************************************)
(* Provisioning, proved for any number of servers, users, vmids and        *)
(* addresses.  The inductive invariant says which server every job and     *)
(* every VM of the pool belongs to, and what the worker has in hand at     *)
(* each step of a creation and of a destroy.                               *)
(***************************************************************************)
EXTENDS Provisioning, FiniteSetTheorems, WellFoundedInduction, TLAPS

RowRecord ==
    [ life : {"provisioning", "up", "error", "destroyed"}, owner : Users, label : Labels,
      size : Sizes, vmid : Vmids \cup {None}, ip : Addresses \cup {None},
      hostname : Labels \cup {NoLabel}, backups : BOOLEAN ]
VmRecord == [ srv : Servers \cup {None}, pinned : Addresses \cup {None}, on : BOOLEAN ]
Busyness == [ pc : WorkerPcs, job : Job, ip : Addresses \cup {None} ]

(* A server has one job at most, and it is not destroyed.                  *)
JobInv ==
    /\ \A j \in pending : j.srv \in Live
    /\ \A j, k \in pending : j.srv = k.srv => j = k
    /\ worker # Idle => Srv \in Live /\ \A j \in pending : j.srv # Srv

(* OneHolder, and that a VM of the pool is that of a row and a hostname    *)
(* the label of its row.                                                   *)
HolderInv ==
    /\ OneHolder
    /\ PinnedIsOwn
    /\ \A v \in Vmids : pool[v] # NoVm => pool[v].srv \in Rows
    /\ \A s \in Rows : row[s].hostname \in {NoLabel, row[s].label}

(* From the clone on the VM is the server's; the address pinned on it is   *)
(* free until it is committed; a destroyed VM is in nobody's way.          *)
CreateInv ==
    /\ worker.pc \in {"clone", "configure", "commit_address", "start", "publish"} => Vmid # None
    /\ worker.pc \in {"configure", "commit_address", "start", "publish"} => pool[Vmid].srv = Srv
    /\ At("commit_address") =>
          /\ worker.ip \in Addresses /\ pool[Vmid].pinned = worker.ip
          /\ \A s \in Rows : row[s].ip = worker.ip => s = Srv
          /\ row[Srv].ip # None => row[Srv].ip = worker.ip
    /\ At("start") => row[Srv].ip # None /\ pool[Vmid].pinned = row[Srv].ip

DestroyInv ==
    worker.pc \in {"forget", "release"} => \A v \in Vmids : pool[v].srv # Srv

WorkInv == worker # Idle => CreateInv /\ DestroyInv

Inv == ProvTypeOK /\ JobInv /\ HolderInv /\ WorkInv

-----------------------------------------------------------------------------
(* A nonempty set of numbers has a least one, so Min is in the set.        *)
LEMMA LeastNatural ==
    ASSUME NEW S \in SUBSET Nat, S # {}
    PROVE  \E x \in S : \A y \in S : x <= y
<1>1. PICK top \in S : TRUE
  OBVIOUS
<1> DEFINE All == 0 .. top
           Below == { 0 .. x : x \in { y \in S : y <= top } }
<1>2. Below \subseteq SUBSET All /\ Below # {}
  OBVIOUS
<1>3. IsFiniteSet(All)
  BY FS_Interval
<1>. HIDE DEF All
<1>4. IsWellFoundedOn(StrictSubsetOrdering(All), SUBSET All)
  BY <1>3, FS_StrictSubsetOrderingWellFounded, FS_FiniteSubsetsOfFinite
<1>5. PICK b \in Below : \A c \in Below : ~(<<c, b>> \in StrictSubsetOrdering(All))
  BY <1>2, <1>4, WFMin
<1>6. \A c \in Below : ~(c \subseteq b /\ c # b)
  BY <1>2, <1>5 DEF StrictSubsetOrdering
<1>7. PICK x \in S : x <= top /\ b = 0 .. x
  OBVIOUS
<1>8. ASSUME NEW y \in S, y < x
      PROVE  FALSE
  <2>1. 0 .. y \in Below /\ 0 .. y \subseteq 0 .. x /\ x \notin 0 .. y /\ x \in 0 .. x
    BY <1>7, <1>8
  <2>. QED BY <2>1, <1>6, <1>7
<1>. QED BY <1>8

LEMMA MinIn ==
    ASSUME NEW S \in SUBSET Nat, S # {}
    PROVE  Min(S) \in S
<1>1. \E x \in S : \A y \in S : x =< y
  BY LeastNatural
<1>. QED BY <1>1 DEF Min

(* Rows and jobs have their records.                                       *)
LEMMA RowTyped ==
    ASSUME ProvTypeOK
    PROVE  /\ \A s \in Rows : s \in Servers /\ row[s] \in RowRecord
           /\ \A s \in Servers : row[s] \in RowRecord => s \in Rows
           /\ \A s \in Live : s \in Rows /\ row[s].life # "destroyed"
BY DEF ProvTypeOK, Rows, Live, Row, RowRecord, NoRow

LEMMA WorkerTyped ==
    ASSUME Inv, worker # Idle
    PROVE  /\ worker \in Busyness /\ worker.job \in Job
           /\ Srv \in Servers /\ Srv \in Rows /\ Srv \in Live /\ Srv # None
           /\ row[Srv] \in RowRecord /\ row[Srv].life # "destroyed"
           /\ Vmid \in Vmids \cup {None}
           /\ CreateInv /\ DestroyInv
<1>1. worker \in Busyness /\ worker.job \in Job /\ Srv \in Servers
  BY DEF Inv, ProvTypeOK, Busyness, Srv, Job
<1>2. Srv \in Live
  BY DEF Inv, JobInv
<1>3. /\ Srv \in Rows /\ row[Srv] \in RowRecord /\ row[Srv].life # "destroyed"
  BY <1>2, RowTyped DEF Inv
<1>4. Vmid \in Vmids \cup {None}
  BY <1>3 DEF Vmid, RowRecord
<1>5. Srv # None
  BY <1>1, ProvisioningAssumption DEF None
<1>6. CreateInv /\ DestroyInv
  BY DEF Inv, WorkInv
<1>. QED BY <1>1, <1>2, <1>3, <1>4, <1>5, <1>6

LEMMA AtBusy ==
    ASSUME NEW pc \in WorkerPcs, At(pc)
    PROVE  worker # Idle
BY DEF At, WorkerPcs, Idle

(* A column of a row changes.                                              *)
LEMMA SetColumn ==
    ASSUME ProvTypeOK, NEW s \in Rows, NEW r \in RowRecord, row' = [row EXCEPT ![s] = r]
    PROVE  /\ row' \in [Servers -> Row] /\ Rows' = Rows /\ row'[s] = r
           /\ \A t \in Servers : t # s => row'[t] = row[t]
           /\ Live' = IF r.life = "destroyed" THEN Live \ {s} ELSE Live \cup {s}
<1>1. s \in Servers /\ row[s] # NoRow /\ r # NoRow /\ r \in Row
  BY RowTyped DEF Rows, Row, RowRecord, NoRow
<1>2. /\ row' \in [Servers -> Row] /\ row'[s] = r
      /\ \A t \in Servers : t # s => row'[t] = row[t]
  BY <1>1 DEF ProvTypeOK
<1>3. Rows' = Rows
  BY <1>1, <1>2 DEF Rows
<1>4. Live' = IF r.life = "destroyed" THEN Live \ {s} ELSE Live \cup {s}
  BY <1>1, <1>2, <1>3 DEF Live, Rows
<1>. QED BY <1>2, <1>3, <1>4

LEMMA VmTyped ==
    ASSUME ProvTypeOK, NEW v \in Vmids, NEW m \in VmRecord, pool' = [pool EXCEPT ![v] = m]
    PROVE  /\ pool' \in [Vmids -> VmRecord] /\ pool'[v] = m
           /\ \A w \in Vmids : w # v => pool'[w] = pool[w]
BY DEF ProvTypeOK, VmRecord

-----------------------------------------------------------------------------
(* Steps after which every row still holds what it held, in the same pool. *)
SameHoldings ==
    /\ Rows' = Rows /\ pool' = pool
    /\ \A s \in Rows : /\ row'[s].vmid = row[s].vmid /\ row'[s].ip = row[s].ip
                       /\ row'[s].hostname = row[s].hostname /\ row'[s].label = row[s].label

LEMMA SameHolders ==
    ASSUME Inv, SameHoldings
    PROVE  HolderInv'
<1>1. OneHolder'
  BY DEF Inv, HolderInv, OneHolder, SameHoldings
<1>2. PinnedIsOwn'
  BY DEF Inv, HolderInv, PinnedIsOwn, SameHoldings, ProvTypeOK, NoVm
<1>. QED BY <1>1, <1>2 DEF Inv, HolderInv, SameHoldings

LEMMA SameWork ==
    ASSUME Inv, SameHoldings, worker' = worker
    PROVE  WorkInv'
<1>. SUFFICES ASSUME worker # Idle
              PROVE  (CreateInv /\ DestroyInv)'
  BY DEF WorkInv
<1>1. Srv' = Srv /\ Srv \in Rows /\ Vmid' = Vmid /\ row'[Srv].ip = row[Srv].ip
  BY WorkerTyped DEF Srv, Vmid, SameHoldings
<1>2. CreateInv /\ DestroyInv
  BY WorkerTyped
<1>. QED BY <1>1, <1>2 DEF CreateInv, DestroyInv, SameHoldings, At

LEMMA SetLife ==
    ASSUME Inv, NEW s \in Rows, NEW r \in RowRecord, row' = [row EXCEPT ![s] = r],
           r.vmid = row[s].vmid, r.ip = row[s].ip, r.hostname = row[s].hostname,
           r.label = row[s].label, pool' = pool
    PROVE  SameHoldings
BY SetColumn DEF Inv, SameHoldings, Rows

-----------------------------------------------------------------------------
(* Requests.                                                               *)
LEMMA CheckCreateInv ==
    ASSUME Inv, NEW t \in Threads, NEW u \in Users, NEW label \in Labels, NEW size \in Sizes,
           CheckCreate(t, u, label, size)
    PROVE  Inv'
<1> DEFINE req == [ pc |-> "checked", owner |-> u, label |-> label, size |-> size ]
<1>1. /\ request' = [request EXCEPT ![t] = req]
      /\ UNCHANGED << row, pending, worker, pool, group, faults, ops >>
  BY DEF CheckCreate
<1>2. req \in Creation
  BY DEF Creation
<1>. HIDE DEF req
<1>3. ProvTypeOK'
  BY <1>1, <1>2 DEF Inv, ProvTypeOK
<1>4. SameHoldings /\ Live' = Live /\ Srv' = Srv
  BY <1>1 DEF SameHoldings, Rows, Live, Srv
<1>5. JobInv'
  BY <1>1, <1>4 DEF Inv, JobInv
<1>. QED BY <1>1, <1>3, <1>4, <1>5, SameHolders, SameWork DEF Inv

LEMMA InsertCreateInv ==
    ASSUME Inv, NEW t \in Threads, InsertCreate(t)
    PROVE  Inv'
<1> DEFINE s == Min(Servers \ Rows)
           r == request[t]
           new == [ life |-> "provisioning", owner |-> r.owner, label |-> r.label,
                    size |-> r.size, vmid |-> None, ip |-> None,
                    hostname |-> NoLabel, backups |-> FALSE ]
           job == [ verb |-> "create", srv |-> s, size |-> r.size ]
<1>1. /\ row' = [row EXCEPT ![s] = new] /\ pending' = pending \cup {job}
      /\ request' = [request EXCEPT ![t] = NoRequest] /\ r # NoRequest /\ Rows # Servers
      /\ UNCHANGED << worker, pool, group, faults, ops >>
  BY DEF InsertCreate
<1>2. s \in Servers /\ s \notin Rows /\ row[s] = NoRow
  <2>1. Servers \ Rows \in SUBSET Nat /\ Servers \ Rows # {}
    BY <1>1, ProvisioningAssumption DEF Rows
  <2>2. s \in Servers \ Rows
    BY <2>1, MinIn
  <2>. QED BY <2>2 DEF Rows
<1>3. r \in Creation
  BY <1>1 DEF Inv, ProvTypeOK
<1>4. new \in RowRecord /\ new # NoRow /\ new \in Row /\ job \in Job
  BY <1>2, <1>3 DEF Creation, RowRecord, Row, NoRow, Job
<1>5. new.vmid = None /\ new.ip = None /\ new.hostname = NoLabel /\ new.life # "destroyed" /\ job.srv = s
  OBVIOUS
<1>. HIDE DEF s, r, new, job
<1>6. /\ row' \in [Servers -> Row] /\ row'[s] = new
      /\ \A x \in Servers : x # s => row'[x] = row[x]
  BY <1>1, <1>2, <1>4 DEF Inv, ProvTypeOK
<1>7. Rows' = Rows \cup {s} /\ Live' = Live \cup {s}
  BY <1>2, <1>4, <1>5, <1>6 DEF Rows, Live
<1>8. ProvTypeOK'
  BY <1>1, <1>4, <1>6 DEF Inv, ProvTypeOK
<1>9. \A x \in Rows : x # s /\ row'[x] = row[x]
  BY <1>2, <1>6 DEF Rows
<1>10. JobInv'
  <2>1. \A j \in pending : j.srv # s
    BY <1>2 DEF Inv, JobInv, Live
  <2>2. worker # Idle => Srv' = Srv /\ Srv # s /\ Srv \in Live
    BY <1>1, <1>2, WorkerTyped DEF Srv
  <2>. QED BY <1>1, <1>5, <1>7, <2>1, <2>2 DEF Inv, JobInv
<1>11. HolderInv'
  <2>1. OneHolder'
    <3>1. \A v \in Vmids : pool[v] # NoVm => pool[v].srv \in Rows /\ row[pool[v].srv].vmid = v
      BY DEF Inv, HolderInv, OneHolder
    <3>2. \A x, y \in Rows' : x # y =>
              /\ row'[x].vmid = row'[y].vmid => row'[x].vmid = None
              /\ row'[x].ip = row'[y].ip => row'[x].ip = None
              /\ row'[x].hostname = row'[y].hostname => row'[x].hostname = NoLabel
      BY <1>5, <1>6, <1>7, <1>9 DEF Inv, HolderInv, OneHolder
    <3>. QED BY <1>1, <1>9, <3>1, <3>2 DEF OneHolder
  <2>2. PinnedIsOwn'
    <3>1. \A v \in Vmids : pool[v].on => pool[v].srv \in Rows
      BY DEF Inv, HolderInv, NoVm
    <3>. QED BY <1>1, <1>9, <3>1 DEF Inv, HolderInv, PinnedIsOwn
  <2>. QED BY <1>1, <1>5, <1>6, <1>7, <1>9, <2>1, <2>2 DEF Inv, HolderInv
<1>12. WorkInv'
  <2>. SUFFICES ASSUME worker # Idle
                PROVE  (CreateInv /\ DestroyInv)'
    BY <1>1 DEF WorkInv
  <2>1. Srv' = Srv /\ Srv \in Rows /\ row'[Srv] = row[Srv] /\ Vmid' = Vmid
    BY <1>1, <1>9, WorkerTyped DEF Srv, Vmid
  <2>2. CreateInv /\ DestroyInv
    BY WorkerTyped
  <2>3. \A x \in Rows' : x = s \/ (x \in Rows /\ row'[x] = row[x])
    BY <1>7, <1>9
  <2>4. At("commit_address") => worker.ip # None
    BY <2>2, ProvisioningAssumption DEF CreateInv, None
  <2>. QED BY <1>1, <1>5, <1>6, <2>1, <2>2, <2>3, <2>4 DEF CreateInv, DestroyInv, At
<1>. QED BY <1>8, <1>10, <1>11, <1>12 DEF Inv

LEMMA EnqueueInv ==
    ASSUME Inv, NEW verb \in {"resize", "backup", "destroy"}, NEW s \in Live, NEW size \in Sizes,
           Enqueue(verb, s, size)
    PROVE  Inv'
<1> DEFINE job == [ verb |-> verb, srv |-> s, size |-> size ]
<1>1. /\ pending' = pending \cup {job} /\ ~Busy(s) /\ ops' = ops + 1
      /\ UNCHANGED << row, request, worker, pool, group, faults >>
  BY DEF Enqueue, Op
<1>2. job \in Job /\ job.srv = s
  BY RowTyped DEF Inv, Job
<1>. HIDE DEF job
<1>3. ProvTypeOK'
  BY <1>1, <1>2 DEF Inv, ProvTypeOK
<1>4. SameHoldings /\ Live' = Live /\ Srv' = Srv
  BY <1>1 DEF SameHoldings, Rows, Live, Srv
<1>5. JobInv'
  BY <1>1, <1>2, <1>4 DEF Inv, JobInv, Busy, Srv
<1>. QED BY <1>1, <1>3, <1>4, <1>5, SameHolders, SameWork DEF Inv

LEMMA SetBackupsInv ==
    ASSUME Inv, NEW s \in Servers, SetBackups(s)
    PROVE  Inv'
<1> DEFINE r == [row[s] EXCEPT !.backups = ~@]
<1>1. /\ s \in Live /\ row' = [row EXCEPT ![s] = r] /\ ops' = ops + 1
      /\ UNCHANGED << request, pending, worker, pool, group, faults >>
  BY DEF SetBackups, Op
<1>2. s \in Rows /\ row[s] \in RowRecord /\ row[s].life # "destroyed"
  BY <1>1, RowTyped DEF Inv
<1>3. /\ r \in RowRecord /\ r.life = row[s].life /\ r.vmid = row[s].vmid
      /\ r.ip = row[s].ip /\ r.hostname = row[s].hostname /\ r.label = row[s].label
  BY <1>2 DEF RowRecord
<1>. HIDE DEF r
<1>4. SameHoldings /\ Live' = Live /\ row' \in [Servers -> Row]
  <2>1. SameHoldings
    BY <1>1, <1>2, <1>3, SetLife
  <2>2. row' \in [Servers -> Row] /\ Live' = Live \cup {s}
    BY <1>1, <1>2, <1>3, SetColumn DEF Inv
  <2>. QED BY <1>1, <2>1, <2>2
<1>5. ProvTypeOK' /\ JobInv'
  BY <1>1, <1>4 DEF Inv, ProvTypeOK, JobInv, Srv
<1>. QED BY <1>1, <1>4, <1>5, SameHolders, SameWork DEF Inv

-----------------------------------------------------------------------------
(* The worker.                                                             *)
LEMMA ClaimInv ==
    ASSUME Inv, NEW j \in pending, Claim(j)
    PROVE  Inv'
<1> DEFINE w == [ pc |-> FirstStep(j.verb), job |-> j, ip |-> None ]
<1>1. /\ worker = Idle /\ worker' = w /\ pending' = pending \ {j}
      /\ UNCHANGED << row, request, pool, group, faults, ops >>
  BY DEF Claim
<1>2. j \in Job /\ j.srv \in Live
  BY DEF Inv, ProvTypeOK, JobInv
<1>3. FirstStep(j.verb) \in {"pick_vmid", "apply", "backup", "delete"}
  BY <1>2 DEF FirstStep, Job
<1>4. /\ w \in Busyness /\ w.job = j /\ w.pc \in {"pick_vmid", "apply", "backup", "delete"}
  BY <1>2, <1>3 DEF Busyness, WorkerPcs
<1>. HIDE DEF w
<1>5. ProvTypeOK'
  BY <1>1, <1>4 DEF Inv, ProvTypeOK, Busyness
<1>6. SameHoldings /\ Live' = Live /\ Srv' = j.srv
  BY <1>1, <1>4 DEF SameHoldings, Rows, Live, Srv
<1>7. JobInv'
  BY <1>1, <1>2, <1>6 DEF Inv, JobInv
<1>8. WorkInv'
  BY <1>1, <1>4 DEF WorkInv, CreateInv, DestroyInv, At
<1>. QED BY <1>5, <1>6, <1>7, <1>8, SameHolders DEF Inv

(* The end of a job whose server keeps what it holds.                      *)
LEMMA EndInv ==
    ASSUME Inv, worker # Idle, worker' = Idle, NEW r \in RowRecord,
           row' = [row EXCEPT ![Srv] = r],
           r.vmid = row[Srv].vmid, r.ip = row[Srv].ip, r.hostname = row[Srv].hostname,
           r.label = row[Srv].label, r.life # "destroyed",
           UNCHANGED << request, pool, ops >>, group' \in [Vmids -> SUBSET Servers],
           pending' = pending \/ pending' = pending \cup {worker.job}, faults' \in Nat
    PROVE  Inv'
<1>1. Srv \in Rows /\ Srv \in Live /\ worker.job \in Job /\ worker.job.srv = Srv
  BY WorkerTyped DEF Srv
<1>2. SameHoldings
  BY <1>1, SetLife
<1>3. row' \in [Servers -> Row] /\ Live' = Live
  <2>1. row' \in [Servers -> Row] /\ Live' = Live \cup {Srv}
    BY <1>1, SetColumn DEF Inv
  <2>. QED BY <1>1, <2>1
<1>4. ProvTypeOK'
  BY <1>1, <1>3 DEF Inv, ProvTypeOK
<1>5. JobInv'
  BY <1>1, <1>3 DEF Inv, JobInv
<1>. QED BY <1>2, <1>4, <1>5, SameHolders DEF Inv, WorkInv

LEMMA RowAsItIs ==
    ASSUME Inv, worker # Idle, row' = row
    PROVE  row' = [row EXCEPT ![Srv] = row[Srv]]
BY WorkerTyped DEF Inv, ProvTypeOK

LEMMA GiveUpInv ==
    ASSUME Inv, worker # Idle, GiveUp, faults' \in Nat
    PROVE  Inv'
<1> DEFINE r == [row[Srv] EXCEPT !.life = "error"]
<1>1. row[Srv] \in RowRecord /\ row[Srv].life # "destroyed"
  BY WorkerTyped
<1>2. /\ r \in RowRecord /\ r.life = "error" /\ r.vmid = row[Srv].vmid
      /\ r.ip = row[Srv].ip /\ r.hostname = row[Srv].hostname /\ r.label = row[Srv].label
  BY <1>1 DEF RowRecord
<1>3. worker' = Idle /\ UNCHANGED << request, pool, group, ops >>
  BY DEF GiveUp
<1>4. group' \in [Vmids -> SUBSET Servers]
  BY <1>3 DEF Inv, ProvTypeOK
<1>5. CASE pending' = pending \cup {worker.job} /\ UNCHANGED row
  BY <1>1, <1>3, <1>4, <1>5, RowAsItIs, EndInv
<1>6. CASE row' = [row EXCEPT ![Srv] = r] /\ UNCHANGED pending
  <2>. HIDE DEF r
  <2>. QED BY <1>2, <1>3, <1>4, <1>6, EndInv
<1>. QED BY <1>5, <1>6 DEF GiveUp

LEMMA FaultInv ==
    ASSUME Inv, Fault \/ NameLost
    PROVE  Inv'
<1>1. worker # Idle
  BY AtBusy DEF Fault, NameLost, WorkerPcs
<1>2. GiveUp /\ faults' \in Nat
  BY DEF Fault, NameLost, Inv, ProvTypeOK
<1>. QED BY <1>1, <1>2, GiveUpInv

LEMMA FinishInv ==
    ASSUME Inv, Publish \/ ApplyPlan \/ Backup
    PROVE  Inv'
<1>1. worker # Idle
  BY AtBusy DEF Publish, ApplyPlan, Backup, WorkerPcs
<1>2. /\ row[Srv] \in RowRecord /\ worker.job \in Job /\ Srv \in Servers
      /\ row[Srv].life # "destroyed"
  BY <1>1, WorkerTyped
<1>3. faults \in Nat /\ group \in [Vmids -> SUBSET Servers]
  BY DEF Inv, ProvTypeOK
<1>4. CASE Publish
  <2> DEFINE r == [row[Srv] EXCEPT !.life = "up"]
  <2>1. /\ r \in RowRecord /\ r.life = "up" /\ r.vmid = row[Srv].vmid
        /\ r.ip = row[Srv].ip /\ r.hostname = row[Srv].hostname /\ r.label = row[Srv].label
    BY <1>2 DEF RowRecord
  <2>2. /\ row' = [row EXCEPT ![Srv] = r] /\ worker' = Idle
        /\ UNCHANGED << request, pending, pool, faults, ops, group >>
    BY <1>4 DEF Publish, Finish
  <2>. HIDE DEF r
  <2>. QED BY <1>1, <1>3, <2>1, <2>2, EndInv
<1>5. CASE ApplyPlan
  <2> DEFINE r == [row[Srv] EXCEPT !.size = worker.job.size, !.life = "up"]
  <2>1. /\ r \in RowRecord /\ r.life = "up" /\ r.vmid = row[Srv].vmid
        /\ r.ip = row[Srv].ip /\ r.hostname = row[Srv].hostname /\ r.label = row[Srv].label
    BY <1>2 DEF RowRecord, Job
  <2>2. /\ row' = [row EXCEPT ![Srv] = r] /\ worker' = Idle
        /\ UNCHANGED << request, pending, pool, group, faults, ops >>
    BY <1>2, <1>5 DEF ApplyPlan, RowRecord, Inv, ProvTypeOK
  <2>. HIDE DEF r
  <2>. QED BY <1>1, <1>3, <2>1, <2>2, EndInv
<1>6. CASE Backup
  <2>1. /\ worker' = Idle /\ group' = [group EXCEPT ![Vmid] = @ \cup {Srv}]
        /\ UNCHANGED << row, request, pending, pool, faults, ops >>
    BY <1>6 DEF Backup
  <2>2. group' \in [Vmids -> SUBSET Servers]
    BY <1>2, <1>3, <2>1
  <2>. QED BY <1>1, <1>2, <1>3, <2>1, <2>2, RowAsItIs, EndInv
<1>. QED BY <1>4, <1>5, <1>6

-----------------------------------------------------------------------------
(* Steps inside a job.                                                     *)
LEMMA GoToWorker ==
    ASSUME Inv, worker # Idle, NEW pc \in WorkerPcs, NEW ip \in Addresses \cup {None},
           worker' = [worker EXCEPT !.pc = pc, !.ip = ip]
    PROVE  /\ worker' \in Busyness /\ worker' # Idle
           /\ worker'.pc = pc /\ worker'.ip = ip /\ worker'.job = worker.job /\ Srv' = Srv
BY WorkerTyped DEF Busyness, Srv, Idle, WorkerPcs

LEMMA GoToKeepsIp ==
    ASSUME Inv, worker # Idle, NEW pc \in WorkerPcs, GoTo(pc)
    PROVE  /\ worker.ip \in Addresses \cup {None}
           /\ worker' = [worker EXCEPT !.pc = pc, !.ip = worker.ip]
<1>1. worker \in Busyness
  BY WorkerTyped
<1>. QED BY <1>1 DEF Busyness, GoTo

LEMMA SameJobs ==
    ASSUME Inv, worker # Idle, worker' # Idle, Srv' = Srv, Live' = Live, pending' = pending
    PROVE  JobInv'
BY DEF Inv, JobInv

(* Two rows with one vmid are one row, and so are two rows with one VM.    *)
LEMMA OneRow ==
    ASSUME Inv, NEW s \in Rows, NEW v \in Vmids, row[s].vmid = v, pool[v] # NoVm
    PROVE  pool[v].srv = s
<1>1. pool[v].srv \in Rows /\ row[pool[v].srv].vmid = v
  BY DEF Inv, HolderInv, OneHolder
<1>2. v # None
  BY ProvisioningAssumption DEF None
<1>. QED BY <1>1, <1>2 DEF Inv, HolderInv, OneHolder

LEMMA PickVmidInv ==
    ASSUME Inv, PickVmid
    PROVE  Inv'
<1>1. /\ worker # Idle /\ GoTo("clone")
      /\ UNCHANGED << request, pending, pool, group, faults, ops >>
  BY AtBusy DEF PickVmid, WorkerPcs
<1>2. /\ worker' \in Busyness /\ worker' # Idle /\ worker'.pc = "clone" /\ Srv' = Srv
      /\ worker'.job = worker.job
  BY <1>1, GoToWorker, GoToKeepsIp DEF WorkerPcs
<1>3. Srv \in Rows /\ Srv \in Servers /\ row[Srv] \in RowRecord /\ row[Srv].life # "destroyed"
  BY <1>1, WorkerTyped
<1>4. CASE Vmid # None /\ UNCHANGED row
  <2>1. SameHoldings /\ Live' = Live /\ Vmid' = Vmid
    BY <1>1, <1>2, <1>4 DEF SameHoldings, Rows, Live, Vmid
  <2>2. JobInv'
    BY <1>1, <1>2, <2>1, SameJobs
  <2>3. WorkInv'
    BY <1>2, <1>4, <2>1 DEF WorkInv, CreateInv, DestroyInv, At
  <2>4. ProvTypeOK'
    BY <1>1, <1>2, <1>4 DEF Inv, ProvTypeOK, Busyness
  <2>. QED BY <2>1, <2>2, <2>3, <2>4, SameHolders DEF Inv
<1>5. ASSUME Vmid = None, FreeVmids # {}, row' = [row EXCEPT ![Srv].vmid = Min(FreeVmids)]
      PROVE  Inv'
  <2> DEFINE v == Min(FreeVmids)
             r == [row[Srv] EXCEPT !.vmid = v]
  <2>1. v \in Vmids /\ ~Taken(v)
    <3>1. FreeVmids \in SUBSET Nat
      BY ProvisioningAssumption DEF FreeVmids
    <3>2. v \in FreeVmids
      BY <1>5, <3>1, MinIn
    <3>. QED BY <3>2 DEF FreeVmids
  <2>. HIDE DEF v
  <2>2. row' = [row EXCEPT ![Srv] = r]
    BY <1>5 DEF v
  <2>3. /\ r \in RowRecord /\ r.life = row[Srv].life /\ r.vmid = v /\ r.ip = row[Srv].ip
        /\ r.hostname = row[Srv].hostname /\ r.label = row[Srv].label
    BY <1>3, <2>1 DEF RowRecord
  <2>. HIDE DEF r
  <2>4. /\ row' \in [Servers -> Row] /\ Rows' = Rows /\ row'[Srv] = r
        /\ \A t \in Servers : t # Srv => row'[t] = row[t]
        /\ Live' = Live
    <3>1. /\ row' \in [Servers -> Row] /\ Rows' = Rows /\ row'[Srv] = r
          /\ \A t \in Servers : t # Srv => row'[t] = row[t]
          /\ Live' = Live \cup {Srv}
      BY <1>3, <2>2, <2>3, SetColumn DEF Inv
    <3>. QED BY <1>1, <3>1, WorkerTyped
  <2>5. v # None /\ pool[v] = NoVm /\ \A t \in Rows : row[t].vmid # v
    BY <2>1, ProvisioningAssumption DEF Taken, None
  <2>6. \A w \in Vmids : pool[w] # NoVm => pool[w].srv \in Rows /\ pool[w].srv # Srv
    <3>. SUFFICES ASSUME NEW w \in Vmids, pool[w] # NoVm
                  PROVE  pool[w].srv \in Rows /\ pool[w].srv # Srv
      OBVIOUS
    <3>1. pool[w].srv \in Rows /\ row[pool[w].srv].vmid = w /\ w # None
      BY ProvisioningAssumption DEF Inv, HolderInv, OneHolder, None
    <3>. QED BY <1>5, <3>1 DEF Vmid
  <2>7. ProvTypeOK'
    BY <1>1, <1>2, <2>4 DEF Inv, ProvTypeOK, Busyness
  <2>8. JobInv'
    BY <1>1, <1>2, <2>4, SameJobs
  <2>9. \A t \in Rows : t \in Servers /\ row'[t].ip = row[t].ip
                        /\ row'[t].hostname = row[t].hostname /\ row'[t].label = row[t].label
    BY <2>3, <2>4, RowTyped DEF Inv
  <2>10. HolderInv'
    <3>1. \A s, t \in Rows : s # t => (row'[s].vmid = row'[t].vmid => row'[s].vmid = None)
      BY <2>3, <2>4, <2>5, <2>9 DEF Inv, HolderInv, OneHolder
    <3>2. \A w \in Vmids : pool[w] # NoVm => row'[pool[w].srv] = row[pool[w].srv]
      BY <2>4, <2>6, RowTyped DEF Inv
    <3>3. OneHolder'
      BY <1>1, <2>4, <2>9, <3>1, <3>2 DEF Inv, HolderInv, OneHolder
    <3>4. PinnedIsOwn'
      BY <1>1, <3>2 DEF Inv, HolderInv, PinnedIsOwn, NoVm
    <3>. QED BY <1>1, <2>4, <2>9, <3>3, <3>4 DEF Inv, HolderInv
  <2>11. WorkInv'
    BY <1>2, <2>3, <2>4, <2>5 DEF WorkInv, CreateInv, DestroyInv, At, Vmid
  <2>. QED BY <2>7, <2>8, <2>10, <2>11 DEF Inv
<1>. QED BY <1>4, <1>5 DEF PickVmid

(* A step that changes the pool at the vmid of the worker's server only.   *)
LEMMA PoolStep ==
    ASSUME Inv, worker # Idle, NEW pc \in WorkerPcs, NEW ip \in Addresses \cup {None},
           worker' = [worker EXCEPT !.pc = pc, !.ip = ip],
           Vmid # None, NEW m \in VmRecord, pool' = [pool EXCEPT ![Vmid] = m],
           m.srv = Srv, m.on => m.pinned # None /\ m.pinned = row[Srv].ip,
           UNCHANGED << row, request, pending, group, faults, ops >>,
           pc \in {"configure", "commit_address", "start", "publish"},
           pc = "commit_address" =>
               /\ ip \in Addresses /\ m.pinned = ip
               /\ \A s \in Rows : row[s].ip = ip => s = Srv
               /\ row[Srv].ip # None => row[Srv].ip = ip,
           pc = "start" => row[Srv].ip # None /\ m.pinned = row[Srv].ip
    PROVE  Inv'
<1>1. /\ worker' \in Busyness /\ worker' # Idle /\ worker'.pc = pc /\ worker'.ip = ip
      /\ Srv' = Srv
  BY GoToWorker
<1>2. /\ Srv \in Rows /\ Srv \in Servers /\ Vmid \in Vmids /\ Srv # None
      /\ row[Srv].vmid = Vmid
  BY WorkerTyped DEF Vmid
<1>3. /\ pool' \in [Vmids -> VmRecord] /\ pool'[Vmid] = m
      /\ \A w \in Vmids : w # Vmid => pool'[w] = pool[w]
  BY <1>2, VmTyped DEF Inv
<1>4. Rows' = Rows /\ Live' = Live /\ Vmid' = Vmid
  BY <1>1 DEF Rows, Live, Vmid
<1>5. ProvTypeOK'
  BY <1>1, <1>3 DEF Inv, ProvTypeOK, Busyness, VmRecord
<1>6. JobInv'
  BY <1>1, <1>4, SameJobs
<1>7. HolderInv'
  <2>1. \A v \in Vmids : pool'[v] # NoVm => pool'[v].srv \in Rows /\ row[pool'[v].srv].vmid = v
    BY <1>2, <1>3 DEF Inv, HolderInv, OneHolder
  <2>2. OneHolder'
    BY <1>4, <2>1 DEF Inv, HolderInv, OneHolder
  <2>3. PinnedIsOwn'
    BY <1>3 DEF Inv, HolderInv, PinnedIsOwn
  <2>. QED BY <1>4, <2>1, <2>2, <2>3 DEF Inv, HolderInv
<1>8. WorkInv'
  BY <1>1, <1>2, <1>3, <1>4 DEF WorkInv, CreateInv, DestroyInv, At
<1>. QED BY <1>5, <1>6, <1>7, <1>8 DEF Inv

LEMMA CloneInv ==
    ASSUME Inv, Clone
    PROVE  Inv'
<1> DEFINE m == IF pool[Vmid] = NoVm THEN [NoVm EXCEPT !.srv = Srv] ELSE pool[Vmid]
<1>1. /\ worker # Idle /\ At("clone") /\ GoTo("configure")
      /\ UNCHANGED << row, request, pending, group, faults, ops >>
  BY AtBusy DEF Clone, WorkerPcs
<1>2. /\ Srv \in Servers /\ Srv \in Rows /\ Vmid \in Vmids /\ Vmid # None
      /\ row[Srv].vmid = Vmid
  BY <1>1, WorkerTyped DEF CreateInv, At, Vmid
<1>3. pool \in [Vmids -> VmRecord] /\ pool[Vmid] \in VmRecord
  BY <1>2 DEF Inv, ProvTypeOK, VmRecord
<1>4. /\ m \in VmRecord /\ m.srv = Srv
      /\ m.on => m.pinned # None /\ m.pinned = row[Srv].ip
  <2>1. CASE pool[Vmid] = NoVm
    BY <1>2, <2>1 DEF NoVm, VmRecord, None
  <2>2. CASE pool[Vmid] # NoVm
    <3>1. pool[Vmid].srv = Srv
      BY <1>2, <2>2, OneRow
    <3>. QED BY <1>2, <1>3, <2>2, <3>1 DEF Inv, HolderInv, PinnedIsOwn
  <2>. QED BY <2>1, <2>2
<1>5. pool' = [pool EXCEPT ![Vmid] = m]
  BY <1>2, <1>3 DEF Clone
<1>. HIDE DEF m
<1>6. /\ worker.ip \in Addresses \cup {None}
      /\ worker' = [worker EXCEPT !.pc = "configure", !.ip = worker.ip]
  BY <1>1, GoToKeepsIp DEF WorkerPcs
<1>. QED BY <1>1, <1>2, <1>4, <1>5, <1>6, PoolStep DEF WorkerPcs

(* The address pinned is the row's, or one no row holds.                   *)
LEMMA AddressForFree ==
    ASSUME Inv, worker # Idle, AddressFor # None
    PROVE  /\ AddressFor \in Addresses
           /\ \A s \in Rows : row[s].ip = AddressFor => s = Srv
           /\ row[Srv].ip # None => row[Srv].ip = AddressFor
<1>1. Srv \in Rows /\ row[Srv] \in RowRecord
  BY WorkerTyped
<1>2. CASE row[Srv].ip # None
  BY <1>1, <1>2 DEF AddressFor, RowRecord, Inv, HolderInv, OneHolder
<1>3. CASE row[Srv].ip = None
  <2>1. FreeAddresses # {} /\ AddressFor = Min(FreeAddresses)
    BY <1>3 DEF AddressFor
  <2>2. AddressFor \in FreeAddresses
    BY <2>1, MinIn, ProvisioningAssumption DEF FreeAddresses
  <2>. QED BY <1>3, <2>2 DEF FreeAddresses
<1>. QED BY <1>2, <1>3

LEMMA ConfigureInv ==
    ASSUME Inv, Configure
    PROVE  Inv'
<1> DEFINE a == AddressFor
           m == [pool[Vmid] EXCEPT !.pinned = a]
<1>1. /\ worker # Idle /\ At("configure") /\ a # None
      /\ worker' = [worker EXCEPT !.pc = "commit_address", !.ip = a]
      /\ UNCHANGED << row, request, pending, group, faults, ops >>
  BY AtBusy DEF Configure, WorkerPcs, AfterConfigure
<1>2. /\ Srv \in Servers /\ Srv # None /\ Vmid \in Vmids /\ Vmid # None
      /\ pool[Vmid].srv = Srv
  BY <1>1, WorkerTyped DEF CreateInv, At
<1>3. pool[Vmid] \in VmRecord
  BY <1>2 DEF Inv, ProvTypeOK, VmRecord
<1>4. /\ a \in Addresses /\ \A s \in Rows : row[s].ip = a => s = Srv
      /\ row[Srv].ip # None => row[Srv].ip = a
  BY <1>1, AddressForFree
<1>5. pool' = [pool EXCEPT ![Vmid] = m]
  BY <1>2 DEF Configure, Inv, ProvTypeOK
<1>. HIDE DEF a
<1>6. pool[Vmid].on => row[Srv].ip # None
  BY <1>2 DEF Inv, HolderInv, PinnedIsOwn
<1>7. /\ m \in VmRecord /\ m.srv = Srv /\ m.pinned = a
      /\ m.on => m.pinned # None /\ m.pinned = row[Srv].ip
  BY <1>1, <1>2, <1>3, <1>4, <1>6 DEF VmRecord
<1>. HIDE DEF m
<1>. QED BY <1>1, <1>2, <1>4, <1>5, <1>7, PoolStep DEF WorkerPcs

LEMMA CommitAddressInv ==
    ASSUME Inv, CommitAddress
    PROVE  Inv'
<1> DEFINE r == [row[Srv] EXCEPT !.ip = worker.ip, !.hostname = row[Srv].label]
<1>1. /\ worker # Idle /\ At("commit_address") /\ GoTo("start") /\ ~HostnameTaken
      /\ UNCHANGED << request, pending, pool, group, faults, ops >>
  BY AtBusy DEF CommitAddress, WorkerPcs
<1>2. /\ worker' \in Busyness /\ worker' # Idle /\ worker'.pc = "start" /\ Srv' = Srv
  BY <1>1, GoToWorker, GoToKeepsIp DEF WorkerPcs
<1>3. /\ Srv \in Rows /\ Srv \in Live /\ Srv \in Servers /\ Srv # None
      /\ row[Srv] \in RowRecord /\ row[Srv].life # "destroyed"
      /\ Vmid \in Vmids /\ Vmid # None /\ pool[Vmid].srv = Srv
      /\ worker.ip \in Addresses /\ worker.ip # None /\ pool[Vmid].pinned = worker.ip
      /\ \A s \in Rows : row[s].ip = worker.ip => s = Srv
      /\ row[Srv].ip # None => row[Srv].ip = worker.ip
  BY <1>1, WorkerTyped, ProvisioningAssumption DEF CreateInv, At, None
<1>4. /\ r \in RowRecord /\ r.life = row[Srv].life /\ r.vmid = row[Srv].vmid
      /\ r.ip = worker.ip /\ r.hostname = row[Srv].label /\ r.label = row[Srv].label
  BY <1>3 DEF RowRecord
<1>5. row' = [row EXCEPT ![Srv] = r]
  BY <1>3 DEF CommitAddress, Inv, ProvTypeOK
<1>. HIDE DEF r
<1>6. /\ row' \in [Servers -> Row] /\ Rows' = Rows /\ row'[Srv] = r /\ Live' = Live
      /\ \A t \in Servers : t # Srv => row'[t] = row[t]
  <2>1. /\ row' \in [Servers -> Row] /\ Rows' = Rows /\ row'[Srv] = r
        /\ \A t \in Servers : t # Srv => row'[t] = row[t]
        /\ Live' = Live \cup {Srv}
    BY <1>3, <1>4, <1>5, SetColumn DEF Inv
  <2>. QED BY <1>3, <2>1
<1>7. \A s \in Rows : s \in Servers /\ (s # Srv => row'[s] = row[s])
  BY <1>6, RowTyped DEF Inv
<1>8. ProvTypeOK'
  BY <1>1, <1>2, <1>6 DEF Inv, ProvTypeOK, Busyness
<1>9. JobInv'
  BY <1>1, <1>2, <1>6, SameJobs
<1>10. HolderInv'
  <2>1. \A s \in Rows \ {Srv} : row[s].hostname # row[Srv].label
    BY <1>1 DEF HostnameTaken
  <2>2. OneHolder'
    <3>1. \A s, t \in Rows : s # t =>
            /\ row'[s].vmid = row'[t].vmid => row'[s].vmid = None
            /\ row'[s].ip = row'[t].ip => row'[s].ip = None
            /\ row'[s].hostname = row'[t].hostname => row'[s].hostname = NoLabel
      BY <1>3, <1>4, <1>6, <1>7, <2>1 DEF Inv, HolderInv, OneHolder
    <3>2. \A v \in Vmids : pool[v] # NoVm => row'[pool[v].srv].vmid = v
      BY <1>4, <1>6, <1>7 DEF Inv, HolderInv, OneHolder
    <3>. QED BY <1>1, <1>6, <3>1, <3>2 DEF OneHolder
  <2>3. PinnedIsOwn'
    <3>. SUFFICES ASSUME NEW v \in Vmids, pool[v].on
                  PROVE  pool[v].pinned # None /\ pool[v].pinned = row'[pool[v].srv].ip
      BY <1>1 DEF PinnedIsOwn
    <3>1. /\ pool[v].srv \in Rows /\ pool[v].pinned # None
          /\ pool[v].pinned = row[pool[v].srv].ip
      BY DEF Inv, HolderInv, PinnedIsOwn, NoVm
    <3>. QED BY <1>3, <1>4, <1>6, <1>7, <3>1
  <2>4. \A s \in Rows : row'[s].hostname \in {NoLabel, row'[s].label}
    BY <1>4, <1>6, <1>7 DEF Inv, HolderInv
  <2>. QED BY <1>1, <1>6, <2>2, <2>3, <2>4 DEF Inv, HolderInv
<1>11. WorkInv'
  <2>1. Vmid' = Vmid /\ row'[Srv].ip = worker.ip
    BY <1>2, <1>4, <1>6 DEF Vmid
  <2>. QED BY <1>1, <1>2, <1>3, <2>1 DEF WorkInv, CreateInv, DestroyInv, At
<1>. QED BY <1>8, <1>9, <1>10, <1>11 DEF Inv

LEMMA StartVmInv ==
    ASSUME Inv, StartVm
    PROVE  Inv'
<1> DEFINE m == [pool[Vmid] EXCEPT !.on = TRUE]
<1>1. /\ worker # Idle /\ At("start") /\ GoTo("publish")
      /\ UNCHANGED << row, request, pending, group, faults, ops >>
  BY AtBusy DEF StartVm, WorkerPcs
<1>2. /\ Srv \in Servers /\ Vmid \in Vmids /\ Vmid # None /\ pool[Vmid].srv = Srv
      /\ row[Srv].ip # None /\ pool[Vmid].pinned = row[Srv].ip
  BY <1>1, WorkerTyped DEF CreateInv, At
<1>3. pool' = [pool EXCEPT ![Vmid] = m] /\ pool[Vmid] \in VmRecord
  BY <1>2 DEF StartVm, Inv, ProvTypeOK, VmRecord
<1>4. m \in VmRecord /\ m.srv = Srv /\ m.pinned = row[Srv].ip
  BY <1>2, <1>3 DEF VmRecord
<1>. HIDE DEF m
<1>5. /\ worker.ip \in Addresses \cup {None}
      /\ worker' = [worker EXCEPT !.pc = "publish", !.ip = worker.ip]
  BY <1>1, GoToKeepsIp DEF WorkerPcs
<1>. QED BY <1>1, <1>2, <1>3, <1>4, <1>5, PoolStep DEF WorkerPcs

-----------------------------------------------------------------------------
(* The destroy job.                                                        *)
LEMMA DeleteInv ==
    ASSUME Inv, Delete
    PROVE  Inv'
<1>1. /\ worker # Idle /\ At("delete") /\ GoTo("forget")
      /\ UNCHANGED << row, request, pending, group, faults, ops >>
  BY AtBusy DEF Delete, WorkerPcs
<1>2. /\ worker' \in Busyness /\ worker' # Idle /\ worker'.pc = "forget" /\ Srv' = Srv
  BY <1>1, GoToWorker, GoToKeepsIp DEF WorkerPcs
<1>3. /\ Srv \in Rows /\ Srv # None /\ Vmid \in Vmids \cup {None} /\ row[Srv].vmid = Vmid
  BY <1>1, WorkerTyped DEF Vmid
<1>4. NoVm \in VmRecord
  BY DEF NoVm, VmRecord
<1>5. /\ pool' \in [Vmids -> VmRecord]
      /\ \A v \in Vmids : pool'[v] = IF v = Vmid THEN NoVm ELSE pool[v]
  <2>1. CASE Vmid = None
    <3>1. Vmid \notin Vmids
      BY <2>1, ProvisioningAssumption DEF None
    <3>. QED BY <2>1, <3>1 DEF Delete, Inv, ProvTypeOK, VmRecord
  <2>2. CASE Vmid # None
    BY <1>3, <1>4, <2>2, VmTyped DEF Delete, Inv
  <2>. QED BY <2>1, <2>2
<1>6. Rows' = Rows /\ Live' = Live
  BY <1>1 DEF Rows, Live
<1>7. ProvTypeOK'
  BY <1>1, <1>2, <1>5 DEF Inv, ProvTypeOK, Busyness, VmRecord
<1>8. JobInv'
  BY <1>1, <1>2, <1>6, SameJobs
<1>9. HolderInv'
  <2>1. OneHolder'
    BY <1>1, <1>5, <1>6 DEF Inv, HolderInv, OneHolder
  <2>2. PinnedIsOwn'
    BY <1>1, <1>5 DEF Inv, HolderInv, PinnedIsOwn, NoVm
  <2>. QED BY <1>1, <1>5, <1>6, <2>1, <2>2 DEF Inv, HolderInv
<1>10. \A v \in Vmids : pool'[v].srv # Srv
  <2>. SUFFICES ASSUME NEW v \in Vmids, pool'[v].srv = Srv
                PROVE  FALSE
    OBVIOUS
  <2>1. v # Vmid /\ pool[v].srv = Srv /\ pool[v] # NoVm
    BY <1>3, <1>5 DEF NoVm
  <2>. QED BY <1>3, <2>1 DEF Inv, HolderInv, OneHolder
<1>11. WorkInv'
  BY <1>2, <1>10 DEF WorkInv, CreateInv, DestroyInv, At
<1>. QED BY <1>7, <1>8, <1>9, <1>11 DEF Inv

LEMMA ForgetInv ==
    ASSUME Inv, Forget \/ ForgetFails
    PROVE  Inv'
<1>1. /\ worker # Idle /\ At("forget") /\ GoTo("release")
      /\ UNCHANGED << row, request, pending, pool, ops >>
  BY AtBusy DEF Forget, ForgetFails, WorkerPcs
<1>2. /\ worker' \in Busyness /\ worker' # Idle /\ worker'.pc = "release" /\ Srv' = Srv
  BY <1>1, GoToWorker, GoToKeepsIp DEF WorkerPcs
<1>3. faults' \in Nat /\ group' \in [Vmids -> SUBSET Servers]
  BY DEF Forget, ForgetFails, Inv, ProvTypeOK
<1>4. SameHoldings /\ Live' = Live
  BY <1>1 DEF SameHoldings, Rows, Live
<1>5. ProvTypeOK'
  BY <1>1, <1>2, <1>3 DEF Inv, ProvTypeOK, Busyness
<1>6. JobInv'
  BY <1>1, <1>2, <1>4, SameJobs
<1>7. WorkInv'
  <2>1. \A v \in Vmids : pool[v].srv # Srv
    BY <1>1, WorkerTyped DEF DestroyInv, At
  <2>. QED BY <1>1, <1>2, <2>1 DEF WorkInv, CreateInv, DestroyInv, At
<1>. QED BY <1>4, <1>5, <1>6, <1>7, SameHolders DEF Inv

LEMMA ReleaseInv ==
    ASSUME Inv, Release
    PROVE  Inv'
<1> DEFINE r == [row[Srv] EXCEPT !.life = "destroyed", !.vmid = None, !.ip = None,
                                 !.hostname = NoLabel]
<1>1. /\ worker # Idle /\ At("release") /\ worker' = Idle
      /\ UNCHANGED << request, pending, pool, group, faults, ops >>
  BY AtBusy DEF Release, WorkerPcs
<1>2. /\ Srv \in Rows /\ Srv \in Servers /\ row[Srv] \in RowRecord
      /\ \A v \in Vmids : pool[v].srv # Srv
  BY <1>1, WorkerTyped DEF DestroyInv, At
<1>3. /\ r \in RowRecord /\ r.life = "destroyed" /\ r.vmid = None
      /\ r.ip = None /\ r.hostname = NoLabel /\ r.label = row[Srv].label
  BY <1>2 DEF RowRecord
<1>4. row' = [row EXCEPT ![Srv] = r]
  BY <1>2 DEF Release, Inv, ProvTypeOK
<1>. HIDE DEF r
<1>5. /\ row' \in [Servers -> Row] /\ Rows' = Rows /\ row'[Srv] = r
      /\ \A t \in Servers : t # Srv => row'[t] = row[t]
      /\ Live' = Live \ {Srv}
  BY <1>2, <1>3, <1>4, SetColumn DEF Inv
<1>6. \A s \in Rows : s \in Servers /\ (s # Srv => row'[s] = row[s])
  BY <1>5, RowTyped DEF Inv
<1>7. ProvTypeOK'
  BY <1>1, <1>5 DEF Inv, ProvTypeOK
<1>8. JobInv'
  BY <1>1, <1>5 DEF Inv, JobInv
<1>9. HolderInv'
  <2>1. \A v \in Vmids : pool[v] # NoVm =>
            pool[v].srv \in Rows /\ row'[pool[v].srv] = row[pool[v].srv]
    BY <1>2, <1>6 DEF Inv, HolderInv
  <2>2. OneHolder'
    <3>1. \A s, t \in Rows : s # t =>
            /\ row'[s].vmid = row'[t].vmid => row'[s].vmid = None
            /\ row'[s].ip = row'[t].ip => row'[s].ip = None
            /\ row'[s].hostname = row'[t].hostname => row'[s].hostname = NoLabel
      BY <1>3, <1>5, <1>6 DEF Inv, HolderInv, OneHolder
    <3>. QED BY <1>1, <1>5, <2>1, <3>1 DEF Inv, HolderInv, OneHolder
  <2>3. PinnedIsOwn'
    BY <1>1, <2>1 DEF Inv, HolderInv, PinnedIsOwn, NoVm
  <2>. QED BY <1>1, <1>3, <1>5, <1>6, <2>1, <2>2, <2>3 DEF Inv, HolderInv
<1>. QED BY <1>1, <1>7, <1>8, <1>9 DEF Inv, WorkInv

-----------------------------------------------------------------------------
LEMMA InitInv ==
    ASSUME ProvInit
    PROVE  Inv
<1>1. Rows = {} /\ worker = Idle /\ pending = {} /\ \A v \in Vmids : pool[v] = NoVm
  BY DEF ProvInit, Rows
<1>2. ProvTypeOK
  BY DEF ProvInit, ProvTypeOK, Row, NoVm
<1>3. JobInv /\ WorkInv
  BY <1>1 DEF JobInv, WorkInv
<1>4. OneHolder
  BY <1>1 DEF OneHolder
<1>5. PinnedIsOwn
  BY <1>1 DEF PinnedIsOwn, NoVm
<1>. QED BY <1>1, <1>2, <1>3, <1>4, <1>5 DEF Inv, HolderInv

LEMMA StutterInv ==
    ASSUME Inv, UNCHANGED vars
    PROVE  Inv'
<1>1. SameHoldings /\ Live' = Live /\ Srv' = Srv
  BY DEF vars, SameHoldings, Rows, Live, Srv
<1>2. ProvTypeOK' /\ JobInv'
  BY <1>1 DEF vars, Inv, ProvTypeOK, JobInv
<1>. QED BY <1>1, <1>2, SameHolders, SameWork DEF Inv, vars

LEMMA NextInv ==
    ASSUME Inv, ProvNext
    PROVE  Inv'
<1>1. CASE \E t \in Threads, u \in Users, l \in Labels, z \in Sizes : CheckCreate(t, u, l, z)
  BY <1>1, CheckCreateInv
<1>2. CASE \E t \in Threads : InsertCreate(t)
  BY <1>2, InsertCreateInv
<1>3. CASE \E s \in Servers, z \in Sizes : RequestResize(s, z)
  BY <1>3, EnqueueInv DEF RequestResize
<1>4. ASSUME NEW s \in Servers, RequestBackup(s) \/ RequestDestroy(s) \/ SetBackups(s)
      PROVE  Inv'
  <2>1. s \in Live => row[s].size \in Sizes
    BY RowTyped DEF Inv, RowRecord
  <2>2. CASE RequestBackup(s)
    BY <2>1, <2>2, EnqueueInv DEF RequestBackup
  <2>3. CASE RequestDestroy(s)
    BY <2>1, <2>3, EnqueueInv DEF RequestDestroy
  <2>. QED BY <1>4, <2>2, <2>3, SetBackupsInv
<1>5. CASE \E j \in pending : Claim(j)
  BY <1>5, ClaimInv
<1>6. CASE Fault \/ NameLost
  BY <1>6, FaultInv
<1>7. CASE PickVmid \/ Clone \/ Configure \/ CommitAddress \/ StartVm
  BY <1>7, PickVmidInv, CloneInv, ConfigureInv, CommitAddressInv, StartVmInv
<1>8. CASE Publish \/ ApplyPlan \/ Backup
  BY <1>8, FinishInv
<1>9. CASE Delete \/ Forget \/ ForgetFails \/ Release
  BY <1>9, DeleteInv, ForgetInv, ReleaseInv
<1>. QED BY <1>1, <1>2, <1>3, <1>4, <1>5, <1>6, <1>7, <1>8, <1>9 DEF ProvNext

LEMMA InvAlways == ProvSpec => []Inv
<1>1. Inv /\ [ProvNext]_vars => Inv'
  BY NextInv, StutterInv
<1>. QED BY <1>1, InitInv, PTL DEF ProvSpec

(* Rows, jobs, VMs and groups are always of the kinds the code stores:     *)
(* in particular a row never holds a vmid or an address out of the pools.  *)
THEOREM AllocationTypes == ProvSpec => []ProvTypeOK
<1>1. Inv => ProvTypeOK
  BY DEF Inv
<1>. QED BY <1>1, InvAlways, PTL

(* No two rows hold a vmid, an address or a hostname, and every VM in the  *)
(* Proxmox pool belongs to the row that holds its vmid, whatever requests  *)
(* race and wherever the worker fails.                                     *)
THEOREM OneHolderAlways == ProvSpec => []OneHolder
<1>1. Inv => OneHolder
  BY DEF Inv, HolderInv
<1>. QED BY <1>1, InvAlways, PTL

(* A VM that runs is pinned to the address that its server's row holds.    *)
THEOREM PinnedIsOwnAlways == ProvSpec => []PinnedIsOwn
<1>1. Inv => PinnedIsOwn
  BY DEF Inv, HolderInv
<1>. QED BY <1>1, InvAlways, PTL

-----------------------------------------------------------------------------
(* What a step may not do to a row that it does not destroy.               *)
Keeps(s) ==
    row'[s].life # "destroyed" =>
        /\ row[s].vmid # None => row'[s].vmid = row[s].vmid
        /\ row[s].ip # None => row'[s].ip = row[s].ip
        /\ row[s].hostname # NoLabel => row'[s].hostname = row[s].hostname

LEMMA OneRowKeeps ==
    ASSUME Inv, NEW x \in Rows, NEW r, row' = [row EXCEPT ![x] = r],
           r.life # "destroyed" =>
               /\ row[x].vmid # None => r.vmid = row[x].vmid
               /\ row[x].ip # None => r.ip = row[x].ip
               /\ row[x].hostname # NoLabel => r.hostname = row[x].hostname
    PROVE  \A s \in Rows : Keeps(s)
BY RowTyped DEF Inv, ProvTypeOK, Keeps, Rows

(* The worker writes the row of its own server.                            *)
LEMMA WorkerKeeps ==
    ASSUME Inv, worker # Idle, UNCHANGED row \/ GiveUp \/ PickVmid \/ CommitAddress
                               \/ Publish \/ ApplyPlan \/ Release
    PROVE  \A s \in Rows : Keeps(s)
<1>1. Srv \in Rows /\ row[Srv] \in RowRecord /\ row \in [Servers -> Row] /\ Srv \in Servers
  BY WorkerTyped DEF Inv, ProvTypeOK
<1>2. CASE UNCHANGED row
  BY <1>2 DEF Keeps
<1>3. CASE GiveUp
  <2> DEFINE r == [row[Srv] EXCEPT !.life = "error"]
  <2>1. /\ r.vmid = row[Srv].vmid /\ r.ip = row[Srv].ip /\ r.hostname = row[Srv].hostname
        /\ UNCHANGED row \/ row' = [row EXCEPT ![Srv] = r]
    BY <1>1, <1>3 DEF GiveUp, RowRecord
  <2>. HIDE DEF r
  <2>. QED BY <1>1, <1>2, <2>1, OneRowKeeps
<1>4. CASE PickVmid
  <2> DEFINE r == [row[Srv] EXCEPT !.vmid = Min(FreeVmids)]
  <2>1. /\ r.ip = row[Srv].ip /\ r.hostname = row[Srv].hostname
        /\ UNCHANGED row \/ (row[Srv].vmid = None /\ row' = [row EXCEPT ![Srv] = r])
    BY <1>1, <1>4 DEF PickVmid, RowRecord, Vmid
  <2>. HIDE DEF r
  <2>. QED BY <1>1, <1>2, <2>1, OneRowKeeps
<1>5. CASE CommitAddress
  <2> DEFINE r == [row[Srv] EXCEPT !.ip = worker.ip, !.hostname = row[Srv].label]
  <2>1. /\ r.vmid = row[Srv].vmid /\ r.ip = worker.ip /\ r.hostname = row[Srv].label
        /\ row' = [row EXCEPT ![Srv] = r]
    BY <1>1, <1>5 DEF CommitAddress, RowRecord
  <2>. HIDE DEF r
  <2>2. row[Srv].ip # None => row[Srv].ip = worker.ip
    BY <1>5, WorkerTyped DEF CommitAddress, CreateInv
  <2>3. row[Srv].hostname \in {NoLabel, row[Srv].label}
    BY <1>1 DEF Inv, HolderInv
  <2>. QED BY <1>1, <2>1, <2>2, <2>3, OneRowKeeps
<1>6. CASE Publish
  <2> DEFINE r == [row[Srv] EXCEPT !.life = "up"]
  <2>1. /\ r.vmid = row[Srv].vmid /\ r.ip = row[Srv].ip /\ r.hostname = row[Srv].hostname
        /\ row' = [row EXCEPT ![Srv] = r]
    BY <1>1, <1>6 DEF Publish, Finish, RowRecord
  <2>. HIDE DEF r
  <2>. QED BY <1>1, <2>1, OneRowKeeps
<1>7. CASE ApplyPlan
  <2> DEFINE r == [row[Srv] EXCEPT !.size = worker.job.size, !.life = "up"]
  <2>1. /\ r.vmid = row[Srv].vmid /\ r.ip = row[Srv].ip /\ r.hostname = row[Srv].hostname
        /\ row' = [row EXCEPT ![Srv] = r]
    BY <1>1, <1>7 DEF ApplyPlan, RowRecord
  <2>. HIDE DEF r
  <2>. QED BY <1>1, <2>1, OneRowKeeps
<1>8. CASE Release
  <2> DEFINE r == [row[Srv] EXCEPT !.life = "destroyed", !.vmid = None, !.ip = None,
                                   !.hostname = NoLabel]
  <2>1. r.life = "destroyed" /\ row' = [row EXCEPT ![Srv] = r]
    BY <1>1, <1>8 DEF Release, RowRecord
  <2>. HIDE DEF r
  <2>. QED BY <1>1, <2>1, OneRowKeeps
<1>. QED BY <1>2, <1>3, <1>4, <1>5, <1>6, <1>7, <1>8

LEMMA NextKeeps ==
    ASSUME Inv, [ProvNext]_vars
    PROVE  \A s \in Rows : Keeps(s)
<1>1. CASE UNCHANGED row
  BY <1>1 DEF Keeps
<1>2. ASSUME NEW t \in Threads, InsertCreate(t)
      PROVE  \A s \in Rows : Keeps(s)
  <2>1. Servers \ Rows \in SUBSET Nat /\ Servers \ Rows # {}
    BY <1>2, ProvisioningAssumption DEF InsertCreate, Rows
  <2>2. Min(Servers \ Rows) \notin Rows
    BY <2>1, MinIn
  <2>3. \A s \in Rows : row'[s] = row[s]
    BY <1>2, <2>2 DEF InsertCreate, Inv, ProvTypeOK, Rows
  <2>. QED BY <2>3 DEF Keeps
<1>3. ASSUME NEW s \in Servers, SetBackups(s)
      PROVE  \A x \in Rows : Keeps(x)
  <2> DEFINE r == [row[s] EXCEPT !.backups = ~@]
  <2>1. s \in Rows /\ row[s] \in RowRecord
    BY <1>3, RowTyped DEF SetBackups, Inv
  <2>2. /\ r.vmid = row[s].vmid /\ r.ip = row[s].ip /\ r.hostname = row[s].hostname
        /\ row' = [row EXCEPT ![s] = r]
    BY <1>3, <2>1 DEF SetBackups, RowRecord
  <2>. HIDE DEF r
  <2>. QED BY <2>1, <2>2, OneRowKeeps
<1>4. CASE worker # Idle /\ (GiveUp \/ PickVmid \/ CommitAddress \/ Publish
                              \/ ApplyPlan \/ Release)
  BY <1>4, WorkerKeeps
<1>5. CASE ProvNext
  <2>1. CASE \E t \in Threads, u \in Users, l \in Labels, z \in Sizes : CheckCreate(t, u, l, z)
    BY <1>1, <2>1 DEF CheckCreate
  <2>2. CASE \E s \in Servers, z \in Sizes : RequestResize(s, z)
    BY <1>1, <2>2 DEF RequestResize, Enqueue
  <2>3. CASE \E s \in Servers : RequestBackup(s) \/ RequestDestroy(s) \/ SetBackups(s)
    BY <1>1, <1>3, <2>3 DEF RequestBackup, RequestDestroy, Enqueue
  <2>4. CASE \E j \in pending : Claim(j)
    BY <1>1, <2>4 DEF Claim
  <2>5. CASE Fault \/ NameLost \/ PickVmid \/ CommitAddress \/ Publish \/ ApplyPlan \/ Release
    <3>1. worker # Idle
      BY <2>5, AtBusy DEF Fault, NameLost, PickVmid, CommitAddress, Publish, ApplyPlan,
                          Release, WorkerPcs
    <3>. QED BY <1>4, <2>5, <3>1 DEF Fault, NameLost
  <2>6. CASE Clone \/ Configure \/ StartVm \/ Backup \/ Delete \/ Forget \/ ForgetFails
    BY <1>1, <2>6 DEF Clone, Configure, StartVm, Backup, Delete, Forget, ForgetFails
  <2>. QED BY <1>2, <1>5, <2>1, <2>2, <2>3, <2>4, <2>5, <2>6 DEF ProvNext
<1>. QED BY <1>1, <1>5 DEF vars

(* Until it is destroyed a server keeps the vmid, the address and the      *)
(* hostname it was given.                                                  *)
THEOREM AllocationsAlwaysStick == ProvSpec => AllocationsStick
<1>1. Inv /\ [ProvNext]_vars =>
        [\A s \in Rows : row'[s].life # "destroyed" =>
           /\ row[s].vmid # None => row'[s].vmid = row[s].vmid
           /\ row[s].ip # None => row'[s].ip = row[s].ip
           /\ row[s].hostname # NoLabel => row'[s].hostname = row[s].hostname]_vars
  BY NextKeeps DEF Keeps
<1>. QED BY <1>1, InvAlways, PTL DEF ProvSpec, AllocationsStick

=============================================================================
