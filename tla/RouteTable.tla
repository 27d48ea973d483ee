----------------------------- MODULE RouteTable -----------------------------
(***************************************************************************)
(* The routing table the control plane keeps for the edge: which name      *)
(* leads to which server (http_routes), whether the owner gated it, the    *)
(* address behind it and the forwarded ports (edge_mappings), as the       *)
(* create and destroy handlers, set_gate, the custom domain operations of  *)
(* app/service.py and the worker's periodic recheck change them.           *)
(***************************************************************************)
EXTENDS Naturals, FiniteSets, FiniteSetsExt

CONSTANTS Servers,
          Addresses,    \* the tenant pool, lowest id first
          Names,        \* <label>.<base domain> names
          Domains,      \* custom domains
          MaxChanges    \* bound: changes of users, handlers and DNS

ASSUME RouteTableAssumption ==
    /\ Addresses \subseteq Nat
    /\ Names \cap Domains = {}
    /\ MaxChanges \in Nat

VARIABLES server,   \* the instances rows
          route,    \* http_routes by hostname
          dns,      \* the domains whose DNS points at the edge
          changes   \* changes so far

table == << server, route, dns, changes >>

Hosts    == Names \cup Domains
NoRoute  == [ status |-> "none" ]
NoServer == [ life |-> "absent" ]
Gone     == [ life |-> "destroyed" ]

Route  == { NoRoute } \cup [ status : {"active", "pending"}, srv : Servers ]
Server == { NoServer, Gone } \cup
          [ life : {"live"}, addr : Addresses, passthrough : BOOLEAN, gated : BOOLEAN ]

TableTypeOK ==
    /\ server \in [Servers -> Server]
    /\ route \in [Hosts -> Route]
    /\ dns \subseteq Domains
    /\ changes \in Nat
    /\ \A h \in Hosts : route[h] # NoRoute => server[route[h].srv].life = "live"

TableInit ==
    /\ server = [ s \in Servers |-> NoServer ]
    /\ route = [ h \in Hosts |-> NoRoute ]
    /\ dns \in SUBSET Domains
    /\ changes = 0

Live(s) == server[s].life = "live"
FreeAddresses == Addresses \ { server[s].addr : s \in { t \in Servers : Live(t) } }

Change == changes < MaxChanges /\ changes' = changes + 1

(* instance_create, seen from the edge: the allocation, and the rows that  *)
(* make it visible.                                                        *)
Publish(s, n, passthrough) ==
    /\ Change
    /\ server[s] = NoServer /\ route[n] = NoRoute /\ FreeAddresses # {}
    /\ server' = [server EXCEPT ![s] = [ life |-> "live", addr |-> Min(FreeAddresses),
                                         passthrough |-> passthrough, gated |-> FALSE ]]
    /\ route' = [route EXCEPT ![n] = [ status |-> "active", srv |-> s ]]
    /\ UNCHANGED dns

(* instance_destroy's last commit: the address, every route and mapping.   *)
Withdraw(s) ==
    /\ Change /\ Live(s)
    /\ server' = [server EXCEPT ![s] = Gone]
    /\ route' = [ h \in Hosts |-> IF route[h] # NoRoute /\ route[h].srv = s THEN NoRoute
                                                                           ELSE route[h] ]
    /\ UNCHANGED dns

SetGate(s, enabled) ==
    /\ Change /\ Live(s)
    /\ server' = [server EXCEPT ![s].gated = enabled]
    /\ UNCHANGED << route, dns >>

AddDomain(s, d) ==
    /\ Change /\ Live(s) /\ route[d] = NoRoute
    /\ route' = [route EXCEPT ![d] = [ status |-> IF d \in dns THEN "active" ELSE "pending",
                                       srv |-> s ]]
    /\ UNCHANGED << server, dns >>

RemoveDomain(d) ==
    /\ Change /\ route[d] # NoRoute
    /\ route' = [route EXCEPT ![d] = NoRoute]
    /\ UNCHANGED << server, dns >>

(* recheck_pending_domains: one commit for all domains that point here.    *)
Due == { d \in dns : route[d].status = "pending" }

Recheck ==
    /\ Due # {}
    /\ route' = [ h \in Hosts |-> IF h \in Due THEN [route[h] EXCEPT !.status = "active"]
                                              ELSE route[h] ]
    /\ UNCHANGED << server, dns, changes >>

DnsChange(d) ==
    /\ Change
    /\ dns' = IF d \in dns THEN dns \ {d} ELSE dns \cup {d}
    /\ UNCHANGED << server, route >>

TableNext ==
    \/ \E s \in Servers, n \in Names, p \in BOOLEAN : Publish(s, n, p)
    \/ \E s \in Servers : Withdraw(s)
    \/ \E s \in Servers, b \in BOOLEAN : SetGate(s, b)
    \/ \E s \in Servers, d \in Domains : AddDomain(s, d)
    \/ \E d \in Domains : RemoveDomain(d) \/ DnsChange(d)
    \/ Recheck

-----------------------------------------------------------------------------
(***************************************************************************)
(* GET /edge/routes: what one poll is answered, in two queries.            *)
(***************************************************************************)
Unserved == [ passthrough |-> FALSE, upstream |-> 0, gated |-> FALSE ]

(* Variant: the gate does not override passthrough. *)
HttpRoutesUngated ==
    [ h \in Hosts |->
        IF route[h].status = "active"
          THEN LET i == server[route[h].srv]
               IN  [ upstream |-> i.addr, gated |-> i.gated, passthrough |-> i.passthrough ]
          ELSE Unserved ]

HttpRoutes ==
    [ h \in Hosts |->
        IF route[h].status = "active"
          THEN LET i == server[route[h].srv]
               IN  [ upstream |-> i.addr, gated |-> i.gated,
                     passthrough |-> i.passthrough /\ ~i.gated ]
          ELSE Unserved ]

(* The forwarded port of a server always leads to the same address.        *)
L4Forwards == { s \in Servers : Live(s) }
=============================================================================
