------------------------- MODULE MCDockerDiscovery --------------------------
(* The gateway, two workloads and one without a route; the default bridge, *)
(* the host's network and one of the user's.                               *)
EXTENDS DockerDiscovery

MCContainers == {"gw", "a", "b"}
MCNameOf == [c \in MCContainers |-> c]
MCServiceOf == [c \in MCContainers |-> IF c = "a" THEN "web" ELSE ""]
MCLabels ==
  [c \in MCContainers |->
     [enable |-> TRUE, host |-> c, port |-> IF c = "a" THEN 0 ELSE 8080]]
MCPorts == [c \in MCContainers |-> IF c = "a" THEN {1, 443} ELSE {1}]
MCNetworkOrder == <<"bridge", "host", "user">>
=============================================================================
