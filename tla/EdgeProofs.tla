------------------------------ MODULE EdgeProofs ------------------------------
(***************************************************************************)
(* The routing table and the edge agent, proved for any number of servers, *)
(* hosts, crashes and failures: a name never leads to a server that is     *)
(* gone, and Caddy is only ever reloaded with the files of one answer,     *)
(* which gives a host one way in.                                          *)
(***************************************************************************)
EXTENDS EdgeSync, TLAPS

(* Every route leads to a live server.                                     *)
RoutesLive == \A h \in Hosts : route[h] # NoRoute => Live(route[h].srv)

TableInv ==
    /\ route \in [Hosts -> Route]
    /\ server = [ s \in Servers |-> server[s] ]
    /\ RoutesLive

(* The answer being applied is on disk, one directory after the other, and *)
(* nobody but the agent writes there.                                      *)
FilesInv ==
    /\ files = [ routes |-> files.routes, layer4 |-> files.layer4 ]
    /\ \A dir \in Dirs : files[dir] = [ h \in Hosts |-> files[dir][h] ]
    /\ agent.pc \in {"layer4", "reload"} => files.routes = Rendered(agent.http).routes
    /\ agent.pc = "reload" => files.layer4 = Rendered(agent.http).layer4

AgentFields == {"pc", "http", "l4", "changed", "unit", "last_hash"}
AgentInv == agent = [ x \in AgentFields |-> agent[x] ]

Inv == AgentInv /\ FilesInv /\ OneWayIn

-----------------------------------------------------------------------------
(* The routing table.                                                      *)
LEMMA RouteKinds ==
    ASSUME NEW r \in Route, r # NoRoute
    PROVE  r.srv \in Servers /\ r.status \in {"active", "pending"}
BY DEF Route

LEMMA TableStep ==
    ASSUME TableInv, [TableNext]_table
    PROVE  TableInv'
<1>. USE DEF TableInv
<1>1. ASSUME NEW s \in Servers, NEW n \in Names, NEW p \in BOOLEAN, Publish(s, n, p)
      PROVE  TableInv'
  <2> DEFINE i == [ life |-> "live", addr |-> Min(FreeAddresses), passthrough |-> p, gated |-> FALSE ]
             r == [ status |-> "active", srv |-> s ]
  <2>1. server' = [server EXCEPT ![s] = i] /\ route' = [route EXCEPT ![n] = r] /\ n \in Hosts
    BY <1>1 DEF Publish, Hosts
  <2>2. i.life = "live" /\ r \in Route /\ r.srv = s
    BY DEF Route
  <2>. HIDE DEF i, r
  <2>3. \A h \in Hosts : route[h] # NoRoute => route[h].srv \in Servers
    BY RouteKinds
  <2>. QED BY <2>1, <2>2, <2>3 DEF RoutesLive, Live
<1>2. ASSUME NEW s \in Servers, Withdraw(s)
      PROVE  TableInv'
  <2>1. /\ server' = [server EXCEPT ![s] = Gone]
        /\ route' = [ h \in Hosts |-> IF route[h] # NoRoute /\ route[h].srv = s THEN NoRoute
                                                                               ELSE route[h] ]
    BY <1>2 DEF Withdraw
  <2>2. \A h \in Hosts : route[h] # NoRoute => route[h].srv \in Servers
    BY RouteKinds
  <2>3. NoRoute \in Route
    BY DEF Route
  <2>. QED BY <2>1, <2>2, <2>3 DEF RoutesLive, Live
<1>3. ASSUME NEW s \in Servers, NEW b \in BOOLEAN, SetGate(s, b)
      PROVE  TableInv'
  <2>1. server' = [server EXCEPT ![s].gated = b] /\ UNCHANGED route
    BY <1>3 DEF SetGate
  <2>2. \A t \in Servers : Live(t) => Live(t)'
    BY <2>1 DEF Live
  <2>. QED BY <2>1 DEF RoutesLive, Live
<1>4. ASSUME NEW s \in Servers, NEW d \in Domains, AddDomain(s, d)
      PROVE  TableInv'
  <2> DEFINE r == [ status |-> IF d \in dns THEN "active" ELSE "pending", srv |-> s ]
  <2>1. route' = [route EXCEPT ![d] = r] /\ UNCHANGED server /\ Live(s) /\ d \in Hosts
    BY <1>4 DEF AddDomain, Hosts
  <2>2. r \in Route /\ r.srv = s
    BY DEF Route
  <2>. HIDE DEF r
  <2>. QED BY <2>1, <2>2 DEF RoutesLive, Live
<1>5. ASSUME NEW d \in Domains, RemoveDomain(d) \/ DnsChange(d)
      PROVE  TableInv'
  <2>1. NoRoute \in Route
    BY DEF Route
  <2>. QED BY <1>5, <2>1 DEF RemoveDomain, DnsChange, RoutesLive, Live
<1>6. CASE Recheck
  <2>1. \A h \in Due \cap Hosts : /\ [route[h] EXCEPT !.status = "active"] \in Route
                                  /\ [route[h] EXCEPT !.status = "active"].srv = route[h].srv
                                  /\ route[h] # NoRoute
    BY DEF Due, Route, NoRoute
  <2>2. /\ UNCHANGED server
        /\ route' = [ h \in Hosts |-> IF h \in Due THEN [route[h] EXCEPT !.status = "active"]
                                                  ELSE route[h] ]
    BY <1>6 DEF Recheck
  <2>3. \A h \in Hosts : /\ route'[h] \in Route
                         /\ route'[h] # NoRoute => route[h] # NoRoute
                                                   /\ route'[h].srv = route[h].srv
    BY <2>1, <2>2
  <2>. QED BY <2>2, <2>3 DEF RoutesLive, Live
<1>7. CASE UNCHANGED table
  BY <1>7 DEF table, RoutesLive, Live
<1>. QED BY <1>1, <1>2, <1>3, <1>4, <1>5, <1>6, <1>7 DEF TableNext

-----------------------------------------------------------------------------
(* The agent.                                                              *)
(* Each host is rendered into one directory at most.                       *)
LEMMA RenderedOneWay ==
    ASSUME NEW http, NEW h \in Hosts
    PROVE  NoSnippet \in { Rendered(http).routes[h], Rendered(http).layer4[h] }
BY DEF Rendered

LEMMA LoadedIs ==
    ASSUME NEW snippets, NEW by
    PROVE  /\ Loaded(snippets, by).by = by
           /\ Loaded(snippets, by).routes = snippets.routes
           /\ Loaded(snippets, by).layer4 = snippets.layer4
BY DEF Loaded

(* A step of the agent that leaves the files and Caddy alone.              *)
LEMMA AgentMoves ==
    ASSUME Inv, AgentInv', UNCHANGED << files, caddy >>,
           agent'.pc \in {"layer4", "reload"} =>
               /\ agent'.http = agent.http
               /\ files.routes = Rendered(agent.http).routes,
           agent'.pc = "reload" => files.layer4 = Rendered(agent.http).layer4
    PROVE  Inv'
BY DEF Inv, FilesInv, OneWayIn

LEMMA AgentPc ==
    ASSUME Inv, NEW pc, GoTo(pc)
    PROVE  AgentInv' /\ agent'.pc = pc /\ agent'.http = agent.http
BY DEF Inv, AgentInv, AgentFields, GoTo

LEMMA FreshAgentInv ==
    ASSUME NEW hash, agent' = [FreshAgent EXCEPT !.last_hash = hash]
    PROVE  AgentInv' /\ agent'.pc = Asleep
BY DEF AgentInv, AgentFields, FreshAgent

LEMMA SyncFileInv ==
    ASSUME Inv, NEW dir \in Dirs, SyncFile(dir)
    PROVE  Inv'
<1>1. PICK h \in NextFiles(dir) :
          files' = [files EXCEPT ![dir][h] = Rendered(agent.http)[dir][h]]
  BY DEF SyncFile
<1>2. /\ agent.pc = dir /\ agent' = [agent EXCEPT !.changed = TRUE] /\ caddy' = caddy
  BY DEF SyncFile, At
<1>3. AgentInv' /\ agent'.pc = dir /\ agent'.http = agent.http
  BY <1>2 DEF Inv, AgentInv, AgentFields
<1>4. /\ files' = [ routes |-> files'.routes, layer4 |-> files'.layer4 ]
      /\ \A d \in Dirs : files'[d] = [ x \in Hosts |-> files'[d][x] ]
      /\ dir = "layer4" => files'.routes = files.routes
  BY <1>1 DEF Inv, FilesInv, Dirs
<1>. QED BY <1>2, <1>3, <1>4 DEF Inv, FilesInv, OneWayIn, Dirs

LEMMA SyncDirDoneInv ==
    ASSUME Inv, NEW dir \in Dirs, SyncDirDone(dir)
    PROVE  Inv'
<1>1. /\ agent.pc = dir /\ Differ(dir) = {} /\ GoTo(AfterDir(dir))
      /\ UNCHANGED << files, caddy >>
  BY DEF SyncDirDone, At
<1>2. AgentInv' /\ agent'.pc = AfterDir(dir) /\ agent'.http = agent.http
  BY <1>1, AgentPc
<1>3. files[dir] = Rendered(agent.http)[dir]
  <2>1. \A h \in Hosts : files[dir][h] = Rendered(agent.http)[dir][h]
    BY <1>1 DEF Differ
  <2>2. files[dir] = [ h \in Hosts |-> files[dir][h] ]
    BY DEF Inv, FilesInv
  <2>3. Rendered(agent.http)[dir] = [ h \in Hosts |-> Rendered(agent.http)[dir][h] ]
    <3>1. CASE dir = "routes"
      BY <3>1 DEF Rendered
    <3>2. CASE dir = "layer4"
      BY <3>2 DEF Rendered
    <3>. QED BY <3>1, <3>2 DEF Dirs
  <2>. QED BY <2>1, <2>2, <2>3
<1>4. dir = "layer4" => files.routes = Rendered(agent.http).routes
  BY <1>1 DEF Inv, FilesInv
<1>. QED BY <1>1, <1>2, <1>3, <1>4, AgentMoves DEF AfterDir, Dirs

(* A reload finds the files of one answer.                                 *)
LEMMA ReloadInv ==
    ASSUME Inv, Reload
    PROVE  Inv'
<1>1. agent.pc = "reload" /\ caddy' = Loaded(files, "reload") /\ GoTo("forwards") /\ files' = files
  BY DEF Reload, At
<1>2. files.routes = Rendered(agent.http).routes /\ files.layer4 = Rendered(agent.http).layer4
  BY <1>1 DEF Inv, FilesInv
<1>3. OneWayIn'
  BY <1>1, <1>2, RenderedOneWay, LoadedIs DEF OneWayIn
<1>. QED BY <1>1, <1>3, AgentPc DEF Inv, FilesInv

LEMMA ForwardsInv ==
    ASSUME Inv, \/ ReloadFails \/ RemoveUnit \/ ClosePort \/ OpenPort \/ EnableUnit
                \/ \E s \in Servers : DisableUnit(s) \/ WriteUnit(s)
    PROVE  Inv'
<1>1. CASE ReloadFails \/ RemoveUnit \/ ClosePort \/ OpenPort \/ EnableUnit
  <2>1. /\ UNCHANGED << files, caddy >>
        /\ \E pc \in {"forwards", "close_port", "enable_unit"} : GoTo(pc)
    BY <1>1 DEF ReloadFails, RemoveUnit, ClosePort, OpenPort, EnableUnit
  <2>. QED BY <2>1, AgentPc, AgentMoves
<1>2. ASSUME NEW s \in Servers, DisableUnit(s) \/ WriteUnit(s)
      PROVE  Inv'
  <2>1. /\ UNCHANGED << files, caddy >>
        /\ \E pc \in {"remove_unit", "open_port"} : agent' = [agent EXCEPT !.pc = pc, !.unit = s]
    BY <1>2 DEF DisableUnit, WriteUnit
  <2>2. AgentInv' /\ agent'.pc \in {"remove_unit", "open_port"}
    BY <2>1 DEF Inv, AgentInv, AgentFields
  <2>. QED BY <2>1, <2>2, AgentMoves
<1>. QED BY <1>1, <1>2

LEMMA PollInv ==
    ASSUME Inv, FetchHttp \/ FetchL4 \/ Applied \/ PollError \/ Crash
    PROVE  Inv'
<1>1. UNCHANGED << files, caddy >>
  BY DEF FetchHttp, FetchL4, Applied, PollError, Crash
<1>2. AgentInv' /\ agent'.pc \in {"fetch", "routes", Asleep}
  <2>1. CASE FetchHttp \/ FetchL4
    BY <2>1 DEF FetchHttp, FetchL4, Inv, AgentInv, AgentFields, Asleep
  <2>2. CASE Applied \/ PollError
    BY <2>2, FreshAgentInv DEF Applied, PollError
  <2>3. CASE Crash
    BY <2>3 DEF Crash, AgentInv, AgentFields, FreshAgent
  <2>. QED BY <2>1, <2>2, <2>3
<1>. QED BY <1>1, <1>2, AgentMoves DEF Asleep

LEMMA NextInv ==
    ASSUME Inv, [EdgeNext]_vars
    PROVE  Inv'
<1>1. CASE UNCHANGED edge
  BY <1>1 DEF edge, Inv, AgentInv, FilesInv, OneWayIn
<1>2. CASE AgentStep
  BY <1>2, SyncFileInv, SyncDirDoneInv, ReloadInv, ForwardsInv, PollInv DEF AgentStep
<1>3. CASE Crash
  BY <1>3, PollInv
<1>4. CASE CaddyRestart
  <2>1. caddy' = Loaded(files, "start") /\ UNCHANGED << agent, files >>
    BY <1>4 DEF CaddyRestart
  <2>. QED BY <2>1, LoadedIs DEF Inv, AgentInv, FilesInv, OneWayIn
<1>. QED BY <1>1, <1>2, <1>3, <1>4 DEF EdgeNext, vars

LEMMA InitInv ==
    ASSUME EdgeInit
    PROVE  TableInv /\ Inv
<1>1. TableInv
  BY DEF EdgeInit, TableInit, TableInv, Route, RoutesLive
<1>2. AgentInv
  BY DEF EdgeInit, FreshAgent, AgentInv, AgentFields
<1>3. FilesInv
  BY DEF EdgeInit, FreshAgent, Asleep, Nowhere, NoSnippets, FilesInv, Dirs
<1>4. OneWayIn
  BY LoadedIs DEF EdgeInit, Nowhere, NoSnippets, OneWayIn
<1>. QED BY <1>1, <1>2, <1>3, <1>4 DEF Inv

(* A name in the routing table leads to a server that lives: what the edge *)
(* is told never points at an address that was given back.                 *)
THEOREM RoutesAlwaysLive == EdgeSpec => []RoutesLive
<1>1. TableInv /\ [EdgeNext]_vars => TableInv'
  <2>1. [EdgeNext]_vars => [TableNext]_table
    BY DEF EdgeNext, vars, AgentStep, Crash, CaddyRestart, FetchHttp, FetchL4, SyncFile,
           SyncDirDone, Reload, ReloadFails, DisableUnit, WriteUnit, RemoveUnit, ClosePort,
           OpenPort, EnableUnit, Applied, PollError
  <2>. QED BY <2>1, TableStep
<1>2. TableInv => RoutesLive
  BY DEF TableInv
<1>. QED BY <1>1, <1>2, InitInv, PTL DEF EdgeSpec

(* No reload leaves a host both terminated and passed through, wherever    *)
(* the agent died, failed or was overtaken by changes of the table.        *)
THEOREM OneWayInAlways == EdgeSpec => []OneWayIn
<1>1. Inv => OneWayIn
  BY DEF Inv
<1>. QED BY <1>1, InitInv, NextInv, PTL DEF EdgeSpec

=============================================================================
