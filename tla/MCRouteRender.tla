--------------------------- MODULE MCRouteRender ----------------------------
(* Routes that overlap in every way: exact and wildcard hosts, nested       *)
(* prefixes, two listeners per protocol.                                    *)
EXTENDS RouteRender, TLC

a == <<"a", "x">>
b == <<"b", "x">>
any == <<"*", "x">>
MCHostRank == (a :> 2) @@ (b :> 3) @@ (any :> 1)
MCPathLength == (<<>> :> 0) @@ (<<"p">> :> 2) @@ (<<"p", "q">> :> 4)

Plain(id, host, path) ==
  [id |-> id, host |-> host, path |-> path, enabled |-> TRUE, internal |-> FALSE,
   protected |-> FALSE, protocol |-> "", https |-> TRUE, port |-> 0, mixed |-> FALSE,
   headers |-> {}, disabled |-> FALSE, blocked |-> {}, allowed |-> {}, methods |-> {},
   paths |-> {}]
Token == [name |-> "Authorization", value |-> "token"]

MCRoutes ==
  {Plain("root", a, <<>>),
   [Plain("wild", any, <<"p">>) EXCEPT !.methods = {"delete"}, !.allowed = {"in"}],
   [Plain("p", a, <<"p">>) EXCEPT !.protected = TRUE, !.headers = {Token},
                                 !.paths = {<<"p", "q">>, <<"r">>}],
   [Plain("q", a, <<"p", "q">>) EXCEPT !.internal = TRUE],
   [Plain("http", a, <<"p">>) EXCEPT !.https = FALSE, !.blocked = {"out"}],
   [Plain("alt", any, <<>>) EXCEPT !.protocol = "https", !.port = 8443,
                                 !.disabled = TRUE],
   [Plain("clash", b, <<>>) EXCEPT !.protocol = "http", !.port = 8443],
   [Plain("mixed", b, <<"p">>) EXCEPT !.mixed = TRUE]}

MCSetting ==
  [httpListen |-> [host |-> "any", port |-> 80],
   httpsListen |-> [host |-> "lo", port |-> 443],
   managementHost |-> <<>>, authRequired |-> TRUE, tokens |-> {"token"},
   allowBearer |-> FALSE, allowAdminHeader |-> FALSE, customHeader |-> FALSE,
   internalSources |-> {"in"}, securityEnabled |-> FALSE,
   blocked |-> {}, allowed |-> {}, methods |-> {}, paths |-> {}]

MCSettings ==
  {MCSetting,
   [MCSetting EXCEPT !.securityEnabled = TRUE, !.methods = {"delete"},
                     !.paths = {<<"p">>}, !.allowed = {"in", "out"}],
   [MCSetting EXCEPT !.managementHost = b, !.securityEnabled = TRUE,
                     !.customHeader = TRUE],
   [MCSetting EXCEPT !.httpListen = NoAddress, !.tokens = {}]}

MCRequestHosts == {a, b}
MCRequestPaths == {<<>>, <<"p">>, <<"p", "q">>}
MCHeaderSets == {{}, {Token}, {[name |-> "X-Custom", value |-> "custom"], Token}}
=============================================================================
