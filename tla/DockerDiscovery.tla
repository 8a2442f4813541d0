-------------------------- MODULE DockerDiscovery ---------------------------
(***************************************************************************)
(* Routes to containers (internal/docker, and the bind request of          *)
(* internal/api): containers start, stop, restart and change networks, and *)
(* Docker hands out the addresses that became free; the gateway, itself a  *)
(* container, lists them again and again and derives from labels where to  *)
(* send the requests for a host.                                           *)
(***************************************************************************)
EXTENDS Integers, FiniteSets, SequencesExt

CONSTANTS
  Containers, Gateway,  \* the gateway is one of the containers
  NameOf, ServiceOf,    \* names; the Compose service, "" for none
  Labels,               \* [enable, host, port]; port 0 if there is no label,
                        \*   -1 if it is not a number
  Ports,                \* the TCP ports of a container
  NetworkOrder,         \* the networks, in the order of their names
  Addresses,            \* of each network
  MaxMoves,             \* bound: changes of containers and networks
  MaxBound,             \* bound: routes made by bind requests
  MaxFailures           \* bound: failing calls to Docker

Networks == ToSet(NetworkOrder)

ValidPort(p) == p >= 1 /\ p <= 65535

\* Names are those of one container, and nobody else is of the gateway's
\* service; 0 is no address.
ASSUME ContainerAssumption ==
  /\ Gateway \in Containers
  /\ NetworkOrder \in Seq(STRING) /\ NetworkOrder # <<>>
  /\ Addresses \subseteq Nat \ {0} /\ Addresses # {}
  /\ \A c \in Containers :
       /\ Labels[c].port \in Int
       /\ Ports[c] \subseteq Nat /\ \A p \in Ports[c] : ValidPort(p)
       /\ NameOf[c] # ""
       /\ \A d \in Containers \ {c} : NameOf[c] \notin {NameOf[d], ServiceOf[d]}
       /\ c # Gateway /\ ServiceOf[c] # "" => ServiceOf[c] # ServiceOf[Gateway]

VARIABLES
  attached,      \* the networks of a container, {} if it does not run
  address,       \* its address on a network, 0 for none
  identified,    \* the gateway's host name is that of its container
  lastDiscovered,\* the routes of the last successful listing
  fresh,         \* history: nothing changed since
  bound,         \* routes made by bind requests
  moves, failures

docker == <<attached, address, moves>>
vars == <<docker, identified, lastDiscovered, fresh, bound, failures>>

TypeOK ==
  /\ attached \in [Containers -> SUBSET Networks]
  /\ address \in [Containers -> [Networks -> Addresses \cup {0}]]
  /\ \A r \in lastDiscovered : r.container # Gateway /\ ValidPort(r.port)
  /\ \A r \in bound : r.port \in Ports[r.container]

----------------------------------------------------------------------------
(* Docker (external).                                                      *)

\* host and none give no address; a container that is being restarted has
\* networks but no addresses.
Isolated == {"host", "none"}

\* The addresses a container may get for its networks.
Assigned(nets, restarting) ==
  {f \in [Networks -> Addresses \cup {0}] :
     \A n \in Networks : f[n] = 0 <=> restarting \/ n \notin nets \ Isolated}

\* No other container has them.
Free(c, addresses) ==
  \A n \in Networks, d \in Containers \ {c} :
    addresses[n] # 0 => addresses[n] # address[d][n]

Init ==
  /\ attached = [c \in Containers |-> IF c = Gateway THEN {NetworkOrder[1]} ELSE {}]
  /\ address = [c \in Containers |-> [n \in Networks |->
                  IF c = Gateway /\ n = NetworkOrder[1] THEN Min(Addresses) ELSE 0]]
  /\ identified \in BOOLEAN
  /\ lastDiscovered = {} /\ fresh = FALSE /\ bound = {}
  /\ moves = 0 /\ failures = 0

\* A container is started, stopped, restarted or connected otherwise; the
\* gateway is only connected otherwise.
Move(c, nets, restarting) ==
  /\ moves < MaxMoves /\ moves' = moves + 1
  /\ restarting => nets # {} /\ c # Gateway
  /\ c = Gateway => nets # {}
  /\ attached' = [attached EXCEPT ![c] = nets]
  /\ \E f \in Assigned(nets, restarting) :
       Free(c, f) /\ address' = [address EXCEPT ![c] = f]
  /\ fresh' = FALSE
  /\ UNCHANGED <<identified, lastDiscovered, bound, failures>>

Running == {c \in Containers : attached[c] # {}}

IP(n, i) == [net |-> n, number |-> i, name |-> ""]
ByName(name) == [net |-> "", number |-> 0, name |-> name]

\* The containers that an upstream address means inside the gateway.  The
\* default bridge resolves no names.
Reached(u) ==
  LET shared(c) == (attached[c] \cap attached[Gateway]) \ Isolated
  IN  IF u.name = ""
      THEN {c \in Running : u.net \in shared(c) /\ address[c][u.net] = u.number}
      ELSE {c \in Running : shared(c) \ {"bridge"} # {}
                              /\ u.name \in {NameOf[c], ServiceOf[c]}}

----------------------------------------------------------------------------
(* network.go *)

\* The gateway's networks, none if it does not find itself in the list.  Its
\* host name is taken to be the start of no other container's ID.
gatewayNetworks == IF identified THEN attached[Gateway] ELSE {}

\* Bug: any network of the container will do.
AllNetworks(c) == attached[c] \ Isolated

SharedNetworks(c) == (attached[c] \cap gatewayNetworks) \ Isolated

\* In the order of their names.
First(nets) ==
  NetworkOrder[Min({i \in DOMAIN NetworkOrder : NetworkOrder[i] \in nets})]

\* The name that stands for a container: that of its service, or its own.
Alias(c) == IF ServiceOf[c] # "" THEN ServiceOf[c] ELSE NameOf[c]

\* The address on the first of the networks.
AddressOn(c, nets) == IP(First(nets), address[c][First(nets)])

\* The first address on a shared network, or the name if one resolves it.
SharedNetworkAddress(c) ==
  LET usable == {n \in SharedNetworks(c) : address[c][n] # 0}
  IN  IF usable # {} THEN <<AddressOn(c, usable)>>
      ELSE IF SharedNetworks(c) \ {"bridge"} # {} THEN <<ByName(Alias(c))>>
      ELSE <<>>

----------------------------------------------------------------------------
(* discovery.go *)

\* The label, or the lowest TCP port.
labelPort(c) ==
  IF Labels[c].port # 0 \/ Ports[c] = {} THEN Labels[c].port ELSE Min(Ports[c])

\* The route of a container, if it has one.
routeFromLabels(c) ==
  IF /\ Labels[c].enable /\ Labels[c].host # ""
     /\ ValidPort(labelPort(c))
     /\ SharedNetworkAddress(c) # <<>>
  THEN {[container |-> c, host |-> Labels[c].host, port |-> labelPort(c),
         upstream |-> SharedNetworkAddress(c)[1]]}
  ELSE {}

\* Bug: the gateway's own labels make a route to it.
DiscoveredItself == IF identified THEN UNION {routeFromLabels(c) : c \in Running} ELSE {}

Discovered ==
  IF identified THEN UNION {routeFromLabels(c) : c \in Running \ {Gateway}} ELSE {}

\* Bug: a listing without routes is taken for one that failed.
DiscoverSome ==
  /\ lastDiscovered' = IF Discovered # {} THEN Discovered ELSE lastDiscovered
  /\ fresh' = (fresh \/ Discovered # {})
  /\ UNCHANGED <<docker, identified, bound, failures>>

\* The listing of a sync.
Discover ==
  /\ lastDiscovered' = Discovered
  /\ fresh' = TRUE
  /\ UNCHANGED <<docker, identified, bound, failures>>

\* A sync that cannot list the containers keeps the last routes.
DiscoverFails ==
  /\ failures < MaxFailures /\ failures' = failures + 1
  /\ UNCHANGED <<docker, identified, lastDiscovered, fresh, bound>>

----------------------------------------------------------------------------
(* handleBindContainer *)

\* The requested port has to be one of the container's; 0 asks for the first.
bindPort(c, requested) ==
  IF requested > 0 THEN Ports[c] \cap {requested}
                   ELSE {p \in Ports[c] : p = Min(Ports[c])}

\* A gateway that cannot tell its own networks lets every container pass.
CanBind(c) == gatewayNetworks = {} \/ SharedNetworks(c) # {}

\* The networks on which a container has an address.
OwnNetworks(c) == {n \in Networks : address[c][n] # 0}

\* Bug: the first address of the container, whatever its network.
FirstAddress(c) ==
  IF OwnNetworks(c) # {} THEN AddressOn(c, OwnNetworks(c)) ELSE ByName(NameOf[c])

\* Without an address on a shared network: any address, then a name.  (The
\* code takes the least of the addresses; which one matters to no property.)
bindUpstreamName(c) ==
  IF SharedNetworkAddress(c) # <<>> THEN SharedNetworkAddress(c)[1]
  ELSE IF OwnNetworks(c) # {} THEN AddressOn(c, OwnNetworks(c))
  ELSE ByName(Alias(c))

handleBindContainer(c, requested) ==
  /\ c \in Running
  /\ Cardinality(bound) < MaxBound
  /\ c = Gateway => ~identified
  /\ CanBind(c)
  /\ \E p \in bindPort(c, requested) :
       bound' = bound \cup {[container |-> c, port |-> p, upstream |-> bindUpstreamName(c)]}
  /\ UNCHANGED <<docker, identified, lastDiscovered, fresh, failures>>

Next ==
  \/ \E c \in Containers, nets \in SUBSET Networks, restarting \in BOOLEAN :
       Move(c, nets, restarting)
  \/ Discover \/ DiscoverFails
  \/ \E c \in Containers, port \in 0..1 : handleBindContainer(c, port)

Spec == Init /\ [][Next]_vars

\* The background loop lists the containers for ever.
FairSpec == Spec /\ WF_vars(Discover)

----------------------------------------------------------------------------
(* Properties.                                                             *)

\* The containers that are to have a route: the labels are right, and the
\* gateway shares a network with it on which it has an address or a name.
Routable ==
  {c \in Running \ {Gateway} :
     /\ identified /\ Labels[c].enable /\ Labels[c].host # ""
     /\ ValidPort(Labels[c].port) \/ (Labels[c].port = 0 /\ Ports[c] # {})
     /\ \E n \in (attached[c] \cap attached[Gateway]) \ Isolated :
          address[c][n] # 0 \/ n # "bridge"}

\* Means its container, or a replica of it, and never the gateway.
Means(u, c) ==
  LET there == Reached(u)
  IN  /\ c \in there /\ Gateway \notin there
      /\ \A d \in there : d = c \/ (ServiceOf[d] = ServiceOf[c] /\ ServiceOf[c] # "")

RoutesRight ==
  /\ {r.container : r \in lastDiscovered} = Routable
  /\ \A r \in lastDiscovered : Means(r.upstream, r.container)

\* Discover: the routes of a listing go to exactly the containers that can be
\* reached over a network of the gateway's, each under an address that means
\* this container there, whatever addresses were handed out before.
DiscoveryExact == fresh => RoutesRight

\* A container that stops leaves its address to another, and the requests for
\* its host go there until the next listing; listings that fail keep the old
\* routes.  Once containers stay as they are, the routes become right.
RoutesSettle == <>[]RoutesRight

\* handleBindContainer: a gateway that knows its networks binds a container
\* only under an address that means this container, if it has one.
BindExact ==
  [][\A r \in bound' \ bound :
       identified /\ (\E n \in Networks : address[r.container][n] # 0)
         => Means(r.upstream, r.container)]_vars

\* An address that goes into a route, by a listing or by a bind request, means
\* the container the route is for.
RoutesExact == []TypeOK /\ []DiscoveryExact /\ BindExact
=============================================================================
