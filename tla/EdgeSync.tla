------------------------------ MODULE EdgeSync ------------------------------
(***************************************************************************)
(* The edge box beside the control plane's routing table: the agent        *)
(* (edge/warpyard-edge-agent.py) polls the table, brings two directories   *)
(* of Caddy snippets and the socat units in line with it file by file,     *)
(* reloads Caddy when a file changed, and remembers the hash of the state  *)
(* it applied.  It may die at every step and is restarted by systemd.      *)
(***************************************************************************)
EXTENDS RouteTable

CONSTANTS MaxCrashes,   \* bound: deaths of the agent
          MaxFailures   \* bound: failed reloads, failed polls, restarts of Caddy

ASSUME EdgeAssumption == MaxCrashes \in Nat /\ MaxFailures \in Nat

VARIABLES agent,      \* where the agent is and what it holds in memory
          files,      \* the snippets in routes.d and layer4.d
          caddy,      \* the snippets Caddy runs with
          units,      \* forwards: unit file, running socat, port open in ufw
          crashes,
          failures

edge == << agent, files, caddy, units, crashes, failures >>
vars == << table, edge >>

NoHash == [ known |-> FALSE ]
Asleep == "asleep"
NoUnit == "none"

(* last_hash stands for the state it is the hash of; "http" and "l4" are   *)
(* the answer being applied, "unit" the forward being changed.             *)
FreshAgent == [ pc |-> Asleep, http |-> [ h \in Hosts |-> Unserved ], l4 |-> {},
                changed |-> FALSE, unit |-> NoUnit, last_hash |-> NoHash ]

NoSnippet  == << 0, FALSE >>    \* no file: upstream and gate otherwise
NoSnippets == [ h \in Hosts |-> NoSnippet ]
Nowhere    == [ routes |-> NoSnippets, layer4 |-> NoSnippets ]

(* What Caddy runs with, and whether the agent's reload or a start of its  *)
(* own made it read the files.                                             *)
Loaded(snippets, by) ==
    [ routes |-> snippets.routes, layer4 |-> snippets.layer4, by |-> by ]

EdgeInit ==
    /\ TableInit
    /\ agent = FreshAgent
    /\ files = Nowhere
    /\ caddy = Loaded(Nowhere, "reload")
    /\ units = [ file |-> {}, running |-> {}, open |-> {} ]
    /\ crashes = 0
    /\ failures = 0

(***************************************************************************)
(* What sync() renders: each host goes to exactly one directory.           *)
(***************************************************************************)
Rendered(http) ==
    [ routes |-> [ h \in Hosts |->
          IF http[h] = Unserved \/ http[h].passthrough THEN NoSnippet
          ELSE << http[h].upstream, http[h].gated >> ],
      layer4 |-> [ h \in Hosts |->
          IF http[h].passthrough THEN << http[h].upstream, FALSE >> ELSE NoSnippet ] ]

At(pc)   == agent.pc = pc
GoTo(pc) == agent' = [agent EXCEPT !.pc = pc]

(* A poll: two queries, the second of which may see a later table.         *)
FetchHttp ==
    /\ At(Asleep)
    /\ agent' = [agent EXCEPT !.pc = "fetch", !.http = HttpRoutes]
    /\ UNCHANGED << table, files, caddy, units, crashes, failures >>

Hashed(http, l4) == [ known |-> TRUE, http |-> http, l4 |-> l4 ]

FetchL4 ==
    /\ At("fetch")
    /\ agent' = [agent EXCEPT !.l4 = L4Forwards, !.changed = FALSE,
                    !.pc = IF Hashed(agent.http, L4Forwards) = agent.last_hash THEN Asleep
                                                                              ELSE "routes"]
    /\ UNCHANGED << table, files, caddy, units, crashes, failures >>

(***************************************************************************)
(* _sync_dir: stale files are removed, then files that differ written.     *)
(***************************************************************************)
Stale(dir)  == { h \in Hosts : files[dir][h] # NoSnippet /\ Rendered(agent.http)[dir][h] = NoSnippet }
Differ(dir) == { h \in Hosts : files[dir][h] # Rendered(agent.http)[dir][h] }
NextFiles(dir) == IF Stale(dir) # {} THEN Stale(dir) ELSE Differ(dir)

SyncFile(dir) ==
    /\ At(dir)
    /\ \E h \in NextFiles(dir) :
          files' = [files EXCEPT ![dir][h] = Rendered(agent.http)[dir][h]]
    /\ agent' = [agent EXCEPT !.changed = TRUE]
    /\ UNCHANGED << table, caddy, units, crashes, failures >>

(* Variant: "_sync_dir(a) or _sync_dir(b)" stops at the first change. *)
AfterDirShortCut(dir) ==
    IF agent.changed THEN "reload" ELSE IF dir = "routes" THEN "layer4" ELSE "forwards"

AfterDir(dir) ==
    IF dir = "routes" THEN "layer4" ELSE IF agent.changed THEN "reload" ELSE "forwards"

SyncDirDone(dir) ==
    /\ At(dir) /\ Differ(dir) = {}
    /\ GoTo(AfterDir(dir))
    /\ UNCHANGED << table, files, caddy, units, crashes, failures >>

Reload ==
    /\ At("reload")
    /\ caddy' = Loaded(files, "reload")
    /\ GoTo("forwards")
    /\ UNCHANGED << table, files, units, crashes, failures >>

(* subprocess.run(check=False): a reload that failed is not noticed.       *)
ReloadFails ==
    /\ At("reload") /\ failures < MaxFailures
    /\ failures' = failures + 1
    /\ GoTo("forwards")
    /\ UNCHANGED << table, files, caddy, units, crashes >>

(* caddy.service is restarted: it reads whatever files there are.          *)
CaddyRestart ==
    /\ failures < MaxFailures
    /\ caddy' = Loaded(files, "start")
    /\ failures' = failures + 1
    /\ UNCHANGED << table, agent, files, units, crashes >>

-----------------------------------------------------------------------------
(***************************************************************************)
(* sync_l4: stale forwards first, then missing ones.                       *)
(***************************************************************************)
(* Variant: what is stale is told from memory, not from the unit files. *)
StaleUnitsRemembered ==
    IF agent.last_hash.known THEN (agent.last_hash.l4 \cap units.file) \ agent.l4 ELSE {}

StaleUnits   == units.file \ agent.l4
MissingUnits == agent.l4 \ units.file

DisableUnit(s) ==
    /\ At("forwards") /\ s \in StaleUnits
    /\ units' = [units EXCEPT !.running = @ \ {s}]
    /\ agent' = [agent EXCEPT !.pc = "remove_unit", !.unit = s]
    /\ UNCHANGED << table, files, caddy, crashes, failures >>

RemoveUnit ==
    /\ At("remove_unit")
    /\ units' = [units EXCEPT !.file = @ \ {agent.unit}]
    /\ GoTo("close_port")
    /\ UNCHANGED << table, files, caddy, crashes, failures >>

ClosePort ==
    /\ At("close_port")
    /\ units' = [units EXCEPT !.open = @ \ {agent.unit}]
    /\ GoTo("forwards")
    /\ UNCHANGED << table, files, caddy, crashes, failures >>

WriteUnit(s) ==
    /\ At("forwards") /\ StaleUnits = {} /\ s \in MissingUnits
    /\ units' = [units EXCEPT !.file = @ \cup {s}]
    /\ agent' = [agent EXCEPT !.pc = "open_port", !.unit = s]
    /\ UNCHANGED << table, files, caddy, crashes, failures >>

OpenPort ==
    /\ At("open_port")
    /\ units' = [units EXCEPT !.open = @ \cup {agent.unit}]
    /\ GoTo("enable_unit")
    /\ UNCHANGED << table, files, caddy, crashes, failures >>

EnableUnit ==
    /\ At("enable_unit")
    /\ units' = [units EXCEPT !.running = @ \cup {agent.unit}]
    /\ GoTo("forwards")
    /\ UNCHANGED << table, files, caddy, crashes, failures >>

(* The poll is complete: its hash is remembered.                           *)
Applied ==
    /\ At("forwards") /\ StaleUnits = {} /\ MissingUnits = {}
    /\ agent' = [FreshAgent EXCEPT !.last_hash = Hashed(agent.http, agent.l4)]
    /\ UNCHANGED << table, files, caddy, units, crashes, failures >>

(* Any exception of a poll: the agent sleeps with the hash it had.         *)
PollError ==
    /\ agent.pc \in {"fetch", "routes", "layer4", "forwards"} /\ failures < MaxFailures
    /\ agent' = [FreshAgent EXCEPT !.last_hash = agent.last_hash]
    /\ failures' = failures + 1
    /\ UNCHANGED << table, files, caddy, units, crashes >>

(* Restart=always: a new process starts from nothing.                      *)
Crash ==
    /\ ~At(Asleep) /\ crashes < MaxCrashes
    /\ agent' = FreshAgent
    /\ crashes' = crashes + 1
    /\ UNCHANGED << table, files, caddy, units, failures >>

Dirs == {"routes", "layer4"}

AgentStep ==
    \/ FetchHttp \/ FetchL4
    \/ \E dir \in Dirs : SyncFile(dir) \/ SyncDirDone(dir)
    \/ Reload \/ ReloadFails
    \/ \E s \in Servers : DisableUnit(s) \/ WriteUnit(s)
    \/ RemoveUnit \/ ClosePort \/ OpenPort \/ EnableUnit
    \/ Applied \/ PollError

EdgeNext ==
    \/ TableNext /\ UNCHANGED edge
    \/ AgentStep
    \/ Crash
    \/ CaddyRestart

EdgeSpec == EdgeInit /\ [][EdgeNext]_vars

(* The agent polls for ever and the worker's tick comes round again.       *)
EdgeFairSpec ==
    EdgeSpec /\ WF_vars(AgentStep) /\ WF_vars(Recheck /\ UNCHANGED edge)

-----------------------------------------------------------------------------
Snippet  == (Addresses \cup {0}) \X BOOLEAN
Snippets == [ routes : [Hosts -> Snippet], layer4 : [Hosts -> Snippet] ]
HttpAnswer == [ Hosts -> [ passthrough : BOOLEAN, upstream : Addresses \cup {0}, gated : BOOLEAN ] ]
AgentPcs == Dirs \cup { Asleep, "fetch", "reload", "forwards", "remove_unit", "close_port",
                        "open_port", "enable_unit" }

(* Type correctness of the table, the agent and the edge's files.          *)
EdgeTypeOK ==
    /\ TableTypeOK
    /\ agent \in [ pc : AgentPcs, http : HttpAnswer, l4 : SUBSET Servers, changed : BOOLEAN,
                   unit : Servers \cup {NoUnit},
                   last_hash : { NoHash } \cup
                       [ known : {TRUE}, http : HttpAnswer, l4 : SUBSET Servers ] ]
    /\ files \in Snippets
    /\ caddy \in [ routes : [Hosts -> Snippet], layer4 : [Hosts -> Snippet],
                   by : {"reload", "start"} ]
    /\ units \in [ file : SUBSET Servers, running : SUBSET Servers, open : SUBSET Servers ]
    /\ crashes \in Nat
    /\ failures \in Nat

(* No reload leaves a host both terminated and passed through, although    *)
(* files move between the directories one by one and the agent may die or  *)
(* fail between two of them: an SNI route beside a gated host would bypass *)
(* its gate (edge/warpyard-edge-agent.py: "exactly one dir").  A Caddy     *)
(* that starts in the middle of a poll may see both.                       *)
OneWayIn ==
    caddy.by = "reload" =>
        \A h \in Hosts : NoSnippet \in { caddy.routes[h], caddy.layer4[h] }

(* What the table promises of one host, said for the owner: an active name *)
(* leads to the server that owns it; a gated one through the gate, any     *)
(* other as its server asked; nothing else leads anywhere.                 *)
Promised(h, snippets) ==
    LET owner == server[route[h].srv]
        sni   == route[h].status = "active" /\ owner.passthrough /\ ~owner.gated
    IN  /\ snippets.layer4[h] = IF sni THEN << owner.addr, FALSE >> ELSE NoSnippet
        /\ snippets.routes[h] = IF route[h].status # "active" \/ sni THEN NoSnippet
                                ELSE << owner.addr, owner.gated >>

LiveServers == { s \in Servers : Live(s) }

InStep ==
    /\ Due = {}
    /\ \A h \in Hosts : Promised(h, caddy)
    /\ LiveServers = units.running /\ units.running = units.open

(* Once users leave the table alone the edge does what it says: every      *)
(* change reaches Caddy and the forwards, as long as the agent does not    *)
(* die and no write or reload fails.                                       *)
EdgeFollowsUndisturbed == <>[](crashes = 0 /\ failures = 0 => InStep)

(* The files and units on disk come to match the table even when the agent *)
(* dies in the middle of a poll, and no forward of a destroyed server goes *)
(* on running: a fresh process compares the files, not its memory.         *)
FilesFollow ==
    <>[](failures = 0 => /\ \A h \in Hosts : Promised(h, files)
                         /\ LiveServers = units.file
                         /\ units.running \subseteq units.file)

=============================================================================
