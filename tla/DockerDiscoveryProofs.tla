----------------------- MODULE DockerDiscoveryProofs ------------------------
(***************************************************************************)
(* The routes to containers, for any containers, networks and addresses,   *)
(* and any number of changes, failures and requests.                       *)
(***************************************************************************)
EXTENDS DockerDiscovery, NaturalsInduction, WellFoundedInduction, TLAPS

(* No two containers have the same address on a network.                   *)
Apart ==
  \A c \in Containers : \A d \in Containers \ {c} : \A n \in Networks :
    address[c][n] # 0 => address[c][n] # address[d][n]

(* A container has an address on each of its networks, or on none.         *)
Addressed ==
  \A c \in Containers :
    \/ \A n \in Networks : address[c][n] = 0
    \/ \A n \in attached[c] \ Isolated : address[c][n] # 0

DockerInv ==
  /\ TypeOK /\ identified \in BOOLEAN
  /\ attached[Gateway] # {}
  /\ Apart /\ Addressed
  /\ fresh => lastDiscovered = Discovered

LEMMA LeastExists ==
  ASSUME NEW S, S \subseteq Nat, S # {}
  PROVE  \E x \in S : \A y \in S : x <= y
<1> DEFINE R == {ss \in Nat \X Nat : ss[1] < ss[2]}
<1>1. IsWellFoundedOn(R, Nat)
  BY NatLessThanWellFounded DEF OpToRel
<1>2. \E x \in S : \A y \in S : ~(<<y, x>> \in R)
  <2> HIDE DEF R
  <2> QED BY <1>1, WFMin
<1>3. PICK x \in S : \A y \in S : ~(<<y, x>> \in R)
  BY <1>2
<1>4. ASSUME NEW y \in S
      PROVE  x <= y
  <2>1. x \in Nat /\ y \in Nat
    OBVIOUS
  <2>2. ~(y < x)
    BY <1>3, <2>1
  <2> QED BY <2>1, <2>2
<1> QED BY <1>4

LEMMA LeastIn ==
  ASSUME NEW S, S \subseteq Nat, S # {}
  PROVE  Min(S) \in S
<1>1. \E x \in S : \A y \in S : x <= y
  BY LeastExists
<1> QED BY <1>1 DEF Min

LEMMA FirstIn ==
  ASSUME NEW nets, nets \subseteq Networks, nets # {}
  PROVE  First(nets) \in nets
<1> DEFINE places == {i \in DOMAIN NetworkOrder : NetworkOrder[i] \in nets}
<1>1. NetworkOrder \in Seq(STRING)
  BY ContainerAssumption
<1>2. DOMAIN NetworkOrder \subseteq Nat
  BY <1>1
<1>3. places \subseteq Nat /\ places # {}
  BY <1>2 DEF Networks, ToSet
<1>4. Min(places) \in places
  <2> HIDE DEF places
  <2> QED BY <1>3, LeastIn
<1> QED BY <1>4 DEF First

(* An address on a shared network means its container.                     *)
LEMMA AddressMeans ==
  ASSUME DockerInv, NEW c \in Running, c # Gateway,
         NEW nets, nets # {},
         \A n \in nets : /\ n \in (attached[c] \cap attached[Gateway]) \ Isolated
                         /\ address[c][n] # 0
  PROVE  Means(AddressOn(c, nets), c)
<1> DEFINE n == First(nets)
           u == AddressOn(c, nets)
<1>1. c \in Containers /\ Gateway \in Containers /\ attached[c] \subseteq Networks
  BY ContainerAssumption DEF Running, DockerInv, TypeOK
<1>2. n \in nets /\ n \in Networks
  <2>1. nets \subseteq Networks
    BY <1>1
  <2>2. n \in nets
    BY <2>1, FirstIn
  <2> QED BY <2>1, <2>2
<1>3. u = [net |-> n, number |-> address[c][n], name |-> ""]
  BY DEF AddressOn, IP
<1> HIDE DEF n, u
<1>4. Reached(u) =
        {d \in Running :
           /\ n \in (attached[d] \cap attached[Gateway]) \ Isolated
           /\ address[d][n] = address[c][n]}
  BY <1>3 DEF Reached
<1>5. \A d \in Containers \ {c} : address[c][n] # address[d][n]
  BY <1>1, <1>2 DEF DockerInv, Apart
<1>6. c \in Reached(u)
  BY <1>2, <1>4
<1>7. \A d \in Reached(u) : d = c
  BY <1>4, <1>5 DEF Running
<1> QED BY <1>6, <1>7 DEF Means, u

(* So does a name, where names are resolved.                               *)
LEMMA NameMeans ==
  ASSUME NEW c \in Running, c # Gateway,
         ((attached[c] \cap attached[Gateway]) \ Isolated) \ {"bridge"} # {}
  PROVE  Means(ByName(Alias(c)), c)
<1> DEFINE name == Alias(c)
           u == ByName(name)
<1>1. /\ c \in Containers /\ Gateway \in Containers /\ NameOf[c] # ""
      /\ \A d \in Containers : \A x \in Containers \ {d} :
           NameOf[d] # NameOf[x] /\ NameOf[d] # ServiceOf[x]
      /\ ServiceOf[c] # "" => ServiceOf[c] # ServiceOf[Gateway]
  BY ContainerAssumption DEF Running
<1>2. name = IF ServiceOf[c] # "" THEN ServiceOf[c] ELSE NameOf[c]
  BY DEF Alias
<1>3. u = [net |-> "", number |-> 0, name |-> name]
  BY DEF ByName
<1> HIDE DEF name, u
<1>4. name # ""
  BY <1>1, <1>2
<1>5. Reached(u) =
        {d \in Running :
           /\ ((attached[d] \cap attached[Gateway]) \ Isolated) \ {"bridge"} # {}
           /\ name \in {NameOf[d], ServiceOf[d]}}
  BY <1>3, <1>4 DEF Reached
<1>6. c \in Reached(u)
  BY <1>2, <1>5
<1>7. ASSUME NEW d \in Reached(u), d # c
      PROVE  ServiceOf[d] = ServiceOf[c] /\ ServiceOf[c] # "" /\ d # Gateway
  <2>1. d \in Containers /\ name \in {NameOf[d], ServiceOf[d]}
    BY <1>5 DEF Running
  <2>2. CASE ServiceOf[c] = ""
    BY <1>1, <1>2, <1>7, <2>1, <2>2
  <2>3. CASE ServiceOf[c] # ""
    <3>1. NameOf[d] # ServiceOf[c]
      BY <1>1, <1>7, <2>1
    <3> QED BY <1>1, <1>2, <2>1, <2>3, <3>1
  <2> QED BY <2>2, <2>3
<1> QED BY <1>6, <1>7 DEF Means, u, name

(* An address for a container is found if there is one, and means it.      *)
LEMMA SharedExact ==
  ASSUME DockerInv, identified,
         NEW c \in Running, c # Gateway
  PROVE  LET shared == (attached[c] \cap attached[Gateway]) \ Isolated
             u == SharedNetworkAddress(c)
         IN  /\ u # <<>> <=> \E n \in shared : address[c][n] # 0 \/ n # "bridge"
             /\ u # <<>> => Means(u[1], c)
<1> DEFINE shared == (attached[c] \cap attached[Gateway]) \ Isolated
           usable == {n \in shared : address[c][n] # 0}
           u == SharedNetworkAddress(c)
<1>1. SharedNetworks(c) = shared
  BY DEF SharedNetworks, gatewayNetworks
<1>2. u = IF usable # {} THEN <<AddressOn(c, usable)>>
          ELSE IF shared \ {"bridge"} # {} THEN <<ByName(Alias(c))>>
          ELSE <<>>
  BY <1>1 DEF SharedNetworkAddress
<1> HIDE DEF u
<1>3. CASE usable # {}
  <2>1. u = <<AddressOn(c, usable)>>
    BY <1>2, <1>3
  <2>2. Means(AddressOn(c, usable), c)
    BY <1>3, AddressMeans
  <2>3. u # <<>> /\ u[1] = AddressOn(c, usable)
    BY <2>1
  <2> QED BY <1>3, <2>2, <2>3 DEF u
<1>4. CASE usable = {} /\ shared \ {"bridge"} # {}
  <2>1. u = <<ByName(Alias(c))>>
    BY <1>2, <1>4
  <2>2. Means(ByName(Alias(c)), c)
    BY <1>4, NameMeans
  <2>3. u # <<>> /\ u[1] = ByName(Alias(c))
    BY <2>1
  <2> QED BY <1>4, <2>2, <2>3 DEF u
<1>5. CASE usable = {} /\ shared \ {"bridge"} = {}
  BY <1>2, <1>5 DEF u
<1> QED BY <1>3, <1>4, <1>5

(* The port of a route.                                                    *)
LEMMA PortExact ==
  ASSUME NEW c \in Containers
  PROVE  ValidPort(labelPort(c))
           <=> \/ ValidPort(Labels[c].port)
               \/ Labels[c].port = 0 /\ Ports[c] # {}
<1>1. Labels[c].port \in Int /\ Ports[c] \subseteq Nat /\ \A p \in Ports[c] : ValidPort(p)
  BY ContainerAssumption
<1>2. CASE Labels[c].port # 0 \/ Ports[c] = {}
  BY <1>1, <1>2 DEF labelPort, ValidPort
<1>3. CASE Labels[c].port = 0 /\ Ports[c] # {}
  <2>1. Min(Ports[c]) \in Ports[c]
    BY <1>1, <1>3, LeastIn
  <2> QED BY <1>1, <1>3, <2>1 DEF labelPort
<1> QED BY <1>2, <1>3

(* What a listing makes of the containers is right.                        *)
LEMMA DiscoveredRight ==
  ASSUME DockerInv
  PROVE  LET found == Discovered
         IN  /\ {r.container : r \in found} = Routable
             /\ \A r \in found : /\ Means(r.upstream, r.container)
                                 /\ r.container # Gateway /\ ValidPort(r.port)
<1> DEFINE found == Discovered
           Has(c) == /\ Labels[c].enable /\ Labels[c].host # ""
                     /\ ValidPort(labelPort(c))
                     /\ SharedNetworkAddress(c) # <<>>
           Route(c) == [container |-> c, host |-> Labels[c].host,
                        port |-> labelPort(c),
                        upstream |-> SharedNetworkAddress(c)[1]]
           able == {c \in Running \ {Gateway} : identified /\ Has(c)}
<1>1. found = {Route(c) : c \in able}
  BY DEF Discovered, routeFromLabels
<1>2. able = Routable
  <2>1. ASSUME NEW c \in Running \ {Gateway}, identified
        PROVE  Has(c) <=>
                 /\ Labels[c].enable /\ Labels[c].host # ""
                 /\ ValidPort(Labels[c].port) \/ (Labels[c].port = 0 /\ Ports[c] # {})
                 /\ \E n \in (attached[c] \cap attached[Gateway]) \ Isolated :
                      address[c][n] # 0 \/ n # "bridge"
    BY <2>1, SharedExact, PortExact DEF Running
  <2> HIDE DEF Has
  <2> QED BY <2>1 DEF Routable
<1>3. \A c \in able : /\ Route(c).container = c
                      /\ Route(c).port = labelPort(c)
                      /\ Route(c).upstream = SharedNetworkAddress(c)[1]
  OBVIOUS
<1>4. ASSUME NEW c \in able
      PROVE  /\ Means(SharedNetworkAddress(c)[1], c)
             /\ c # Gateway /\ ValidPort(labelPort(c))
  BY SharedExact
<1> HIDE DEF Route, able, found
<1>5. {r.container : r \in found} = able
  BY <1>1, <1>3
<1>6. \A r \in found : /\ Means(r.upstream, r.container)
                       /\ r.container # Gateway /\ ValidPort(r.port)
  BY <1>1, <1>3, <1>4
<1> QED BY <1>2, <1>5, <1>6 DEF found

LEMMA DockerInit ==
  ASSUME Init
  PROVE  DockerInv
<1>1. NetworkOrder[1] \in Networks /\ Gateway \in Containers
  <2>1. NetworkOrder \in Seq(STRING) /\ NetworkOrder # <<>> /\ Gateway \in Containers
    BY ContainerAssumption
  <2>2. 1 \in DOMAIN NetworkOrder
    BY <2>1
  <2> QED BY <2>1, <2>2 DEF Networks, ToSet
<1>2. Min(Addresses) \in Addresses /\ Min(Addresses) # 0
  BY LeastIn, ContainerAssumption
<1>3. /\ attached = [c \in Containers |-> IF c = Gateway THEN {NetworkOrder[1]} ELSE {}]
      /\ address = [c \in Containers |-> [n \in Networks |->
           IF c = Gateway /\ n = NetworkOrder[1] THEN Min(Addresses) ELSE 0]]
      /\ identified \in BOOLEAN /\ lastDiscovered = {} /\ bound = {} /\ fresh = FALSE
  BY DEF Init
<1>4. TypeOK
  BY <1>1, <1>2, <1>3 DEF TypeOK
<1>5. \A c \in Containers, n \in Networks :
        address[c][n] = IF c = Gateway /\ n = NetworkOrder[1]
                        THEN Min(Addresses) ELSE 0
  BY <1>3
<1>6. Apart
  BY <1>5 DEF Apart
<1>7. Addressed
  <2>1. ASSUME NEW c \in Containers, c # Gateway
        PROVE  \A n \in Networks : address[c][n] = 0
    BY <1>5, <2>1
  <2>2. \A n \in attached[Gateway] \ Isolated : address[Gateway][n] # 0
    BY <1>1, <1>2, <1>3, <1>5
  <2> QED BY <2>1, <2>2 DEF Addressed
<1>8. attached[Gateway] # {}
  BY <1>1, <1>3
<1> QED BY <1>3, <1>4, <1>6, <1>7, <1>8 DEF DockerInv

LEMMA MoveKeeps ==
  ASSUME DockerInv, Gateway \in Containers, NEW c \in Containers,
         NEW nets \in SUBSET Networks,
         NEW restarting \in BOOLEAN, Move(c, nets, restarting)
  PROVE  DockerInv'
<1>1. PICK f \in Assigned(nets, restarting) :
        Free(c, f) /\ address' = [address EXCEPT ![c] = f]
  BY DEF Move
<1>2. /\ attached' = [attached EXCEPT ![c] = nets] /\ fresh' = FALSE
      /\ c = Gateway => nets # {}
      /\ UNCHANGED <<identified, lastDiscovered, bound>>
  BY DEF Move
<1>3. /\ f \in [Networks -> Addresses \cup {0}]
      /\ \A n \in Networks :
           f[n] = 0 <=> restarting \/ n \notin nets \ Isolated
  BY <1>1 DEF Assigned
<1>4. /\ attached \in [Containers -> SUBSET Networks]
      /\ address \in [Containers -> [Networks -> Addresses \cup {0}]]
  BY DEF DockerInv, TypeOK
<1>5. TypeOK'
  BY <1>1, <1>2, <1>3, <1>4 DEF DockerInv, TypeOK
<1>6. /\ address'[c] = f /\ attached'[c] = nets
      /\ \A d \in Containers \ {c} : address'[d] = address[d] /\ attached'[d] = attached[d]
  BY <1>1, <1>2, <1>4
<1>7. Apart'
  <2>1. \A d \in Containers \ {c}, n \in Networks :
          f[n] # 0 => f[n] # address[d][n]
    BY <1>1 DEF Free
  <2>2. ASSUME NEW a \in Containers, NEW d \in Containers \ {a},
               NEW n \in Networks, address'[a][n] # 0
        PROVE  address'[a][n] # address'[d][n]
    <3>1. CASE a = c
      BY <1>6, <2>1, <2>2, <3>1
    <3>2. CASE d = c
      BY <1>6, <2>1, <2>2, <3>2
    <3>3. CASE a # c /\ d # c
      BY <1>6, <2>2, <3>3 DEF DockerInv, Apart
    <3> QED BY <3>1, <3>2, <3>3
  <2> QED BY <2>2 DEF Apart
<1>8. Addressed'
  <2>1. ASSUME NEW d \in Containers, d # c
        PROVE  \/ \A n \in Networks : address'[d][n] = 0
               \/ \A n \in attached'[d] \ Isolated : address'[d][n] # 0
    BY <1>6, <2>1 DEF DockerInv, Addressed
  <2>2. \/ \A n \in Networks : address'[c][n] = 0
        \/ \A n \in attached'[c] \ Isolated : address'[c][n] # 0
    BY <1>3, <1>6
  <2> QED BY <2>1, <2>2 DEF Addressed
<1>9. attached'[Gateway] # {}
  BY <1>2, <1>6 DEF DockerInv
<1> QED BY <1>2, <1>5, <1>7, <1>8, <1>9 DEF DockerInv

(* Steps that leave the containers where they are.                         *)
LEMMA DockerRests ==
  ASSUME DockerInv, UNCHANGED <<attached, address, identified>>, TypeOK',
         fresh' => lastDiscovered' = Discovered
  PROVE  DockerInv'
<1>1. Discovered' = Discovered
  <2>1. Running' = Running /\ gatewayNetworks' = gatewayNetworks
    BY DEF Running, gatewayNetworks
  <2>2. ASSUME NEW c
        PROVE  SharedNetworkAddress(c)' = SharedNetworkAddress(c)
    <3>1. SharedNetworks(c)' = SharedNetworks(c)
      BY <2>1 DEF SharedNetworks
    <3>2. \A nets : AddressOn(c, nets)' = AddressOn(c, nets)
      BY DEF AddressOn
    <3> QED BY <3>1, <3>2 DEF SharedNetworkAddress
  <2>3. ASSUME NEW c
        PROVE  routeFromLabels(c)' = routeFromLabels(c)
    BY <2>2 DEF routeFromLabels
  <2> QED BY <2>1, <2>3 DEF Discovered
<1>2. Apart' /\ Addressed'
  BY DEF DockerInv, Apart, Addressed
<1> QED BY <1>1, <1>2 DEF DockerInv

LEMMA DockerKeeps ==
  ASSUME DockerInv, [Next]_vars
  PROVE  DockerInv'
<1>0. Gateway \in Containers
  BY ContainerAssumption
<1>1. ASSUME NEW c \in Containers, NEW nets \in SUBSET Networks,
             NEW restarting \in BOOLEAN, Move(c, nets, restarting)
      PROVE  DockerInv'
  BY <1>0, <1>1, MoveKeeps
<1>2. ASSUME Discover
      PROVE  DockerInv'
  <2>1. /\ lastDiscovered' = Discovered
        /\ UNCHANGED <<attached, address, identified, bound>>
    BY <1>2 DEF Discover, docker
  <2>2. \A r \in lastDiscovered' : r.container # Gateway /\ ValidPort(r.port)
    BY <2>1, DiscoveredRight
  <2>3. TypeOK'
    BY <2>1, <2>2 DEF DockerInv, TypeOK
  <2> QED BY <2>1, <2>3, DockerRests
<1>3. ASSUME DiscoverFails
      PROVE  DockerInv'
  <2>1. UNCHANGED <<attached, address, identified, lastDiscovered, fresh, bound>>
    BY <1>3 DEF DiscoverFails, docker
  <2>2. TypeOK'
    BY <2>1 DEF DockerInv, TypeOK
  <2>3. fresh' => lastDiscovered' = Discovered
    BY <2>1 DEF DockerInv
  <2> QED BY <2>1, <2>2, <2>3, DockerRests
<1>4. ASSUME NEW c \in Containers, NEW port \in 0..1,
             handleBindContainer(c, port)
      PROVE  DockerInv'
  <2>1. PICK p \in bindPort(c, port) :
          bound' = bound \cup {[container |-> c, port |-> p,
                                upstream |-> bindUpstreamName(c)]}
    BY <1>4 DEF handleBindContainer
  <2>2. UNCHANGED <<attached, address, identified, lastDiscovered, fresh>>
    BY <1>4 DEF handleBindContainer, docker
  <2>3. p \in Ports[c]
    BY DEF bindPort
  <2>4. \A r \in bound' : r.port \in Ports[r.container]
    BY <2>1, <2>3 DEF DockerInv, TypeOK
  <2>5. TypeOK'
    BY <2>2, <2>4 DEF DockerInv, TypeOK
  <2>6. fresh' => lastDiscovered' = Discovered
    BY <2>2 DEF DockerInv
  <2> QED BY <2>2, <2>5, <2>6, DockerRests
<1>5. CASE UNCHANGED vars
  <2>1. UNCHANGED <<attached, address, identified, lastDiscovered, fresh, bound>>
    BY <1>5 DEF vars, docker
  <2>2. TypeOK'
    BY <2>1 DEF DockerInv, TypeOK
  <2>3. fresh' => lastDiscovered' = Discovered
    BY <2>1 DEF DockerInv
  <2> QED BY <2>1, <2>2, <2>3, DockerRests
<1> QED BY <1>1, <1>2, <1>3, <1>4, <1>5 DEF Next

(* A new route of a bind request.                                          *)
LEMMA BindRight ==
  ASSUME DockerInv, [Next]_vars,
         NEW r \in bound' \ bound, identified,
         \E n \in Networks : address[r.container][n] # 0
  PROVE  Means(r.upstream, r.container)
<1>1. PICK c \in Containers, port \in 0..1 : handleBindContainer(c, port)
  BY DEF Next, vars, Move, Discover, DiscoverFails
<1>2. PICK p \in bindPort(c, port) :
        bound' = bound \cup {[container |-> c, port |-> p,
                              upstream |-> bindUpstreamName(c)]}
  BY <1>1 DEF handleBindContainer
<1>3. r.container = c /\ r.upstream = bindUpstreamName(c)
  BY <1>2
<1>4. c \in Running /\ c # Gateway /\ CanBind(c)
  BY <1>1 DEF handleBindContainer
<1>5. PICK n \in (attached[c] \cap attached[Gateway]) \ Isolated : TRUE
  BY <1>4 DEF CanBind, SharedNetworks, gatewayNetworks, DockerInv
<1>6. address[c][n] # 0
  BY <1>3, <1>5 DEF DockerInv, Addressed
<1>7. /\ SharedNetworkAddress(c) # <<>>
      /\ Means(SharedNetworkAddress(c)[1], c)
  BY <1>4, <1>5, <1>6, SharedExact
<1> QED BY <1>3, <1>7 DEF bindUpstreamName

\* An address that goes into a route means the container the route is for: by a
\* listing, which finds exactly the containers that can be reached (Discover),
\* and by a bind request (handleBindContainer), for any containers and networks,
\* whatever was started, stopped and moved in between and whatever addresses
\* were handed out again.
THEOREM ExactRoutes == Spec => RoutesExact
<1>1. Init => DockerInv
  BY DockerInit
<1>2. DockerInv /\ [Next]_vars => DockerInv'
  BY DockerKeeps
<1>3. DockerInv => TypeOK /\ DiscoveryExact
  BY DiscoveredRight DEF DockerInv, DiscoveryExact, RoutesRight
<1>4. DockerInv /\ [Next]_vars =>
        [\A r \in bound' \ bound :
           identified /\ (\E n \in Networks : address[r.container][n] # 0)
             => Means(r.upstream, r.container)]_vars
  BY BindRight
<1> QED BY <1>1, <1>2, <1>3, <1>4, PTL
    DEF Spec, RoutesExact, BindExact

=============================================================================
