---------------------------- MODULE RouteRender -----------------------------
(***************************************************************************)
(* What Render (internal/caddy/config.go) makes of the routes and the      *)
(* settings: for each listener a list of entries, of which Caddy takes the *)
(* first that matches a request.  The properties say, for every request,   *)
(* what may happen to it; they are stated over the routes, not over the    *)
(* entries.                                                                *)
(*                                                                         *)
(* Hosts are sequences of labels, paths sequences of segments, and a set   *)
(* of CIDR ranges is the set of the sources in it.  An address has a host  *)
(* ("any" or one address) and a port.  Log fields and upstream addresses   *)
(* are left out.                                                           *)
(***************************************************************************)
EXTENDS Integers, FiniteSets, SequencesExt

CONSTANTS
  RouteSet,      \* routes that may be defined
  Settings,      \* settings that may be chosen
  HostRank,      \* the alphabetical order of hosts
  PathLength,    \* the length of a path prefix, in characters
  Sources, Methods, RequestHosts, RequestPaths, HeaderSets,  \* requests
  MaxRoutes      \* bound

NoAddress == [host |-> "none", port |-> 0]
ListenAddress == [host : STRING, port : Nat]

Host == Seq(STRING) \ {<<>>}
Path == Seq(STRING)

Route ==
  [id : STRING, host : Host, path : Path, enabled : BOOLEAN, internal : BOOLEAN,
   protected : BOOLEAN, protocol : {"", "http", "https"}, https : BOOLEAN,
   port : Nat, mixed : BOOLEAN, headers : SUBSET [name : STRING, value : STRING],
   disabled : BOOLEAN, blocked : SUBSET Sources, allowed : SUBSET Sources,
   methods : SUBSET Methods, paths : SUBSET Path]

Setting ==
  [httpListen : ListenAddress, httpsListen : ListenAddress,
   managementHost : Host \cup {<<>>}, authRequired : BOOLEAN,
   tokens : SUBSET STRING, allowBearer : BOOLEAN, allowAdminHeader : BOOLEAN,
   customHeader : BOOLEAN, internalSources : SUBSET Sources,
   securityEnabled : BOOLEAN, blocked : SUBSET Sources, allowed : SUBSET Sources,
   methods : SUBSET Methods, paths : SUBSET Path]

\* The hosts and paths of the routes, that of the management interface too.
Hosts == {r.host : r \in RouteSet} \cup ({c.managementHost : c \in Settings} \ {<<>>})
Paths == {r.path : r \in RouteSet} \cup {<<>>}

ASSUME TypeAssumption ==
  /\ RouteSet \subseteq Route /\ Settings \subseteq Setting
  /\ RequestHosts \subseteq Host /\ RequestPaths \subseteq Path

\* Strings are ordered totally, and a prefix is shorter than the whole.
ASSUME OrderAssumption ==
  /\ \A g, h \in Hosts : HostRank[g] \in Int /\ (HostRank[g] = HostRank[h] => g = h)
  /\ \A p \in Paths : PathLength[p] \in Nat
  /\ \A p, q \in Paths : IsPrefix(p, q) /\ p # q => PathLength[p] < PathLength[q]

----------------------------------------------------------------------------
(* The order of the routes.                                                *)

Wildcard(host) == Head(host) = "*"

\* Bug: shorter prefixes come first.
ShorterFirst(l, r) ==
  IF Wildcard(l.host) # Wildcard(r.host) THEN ~Wildcard(l.host)
  ELSE IF l.host # r.host THEN HostRank[l.host] < HostRank[r.host]
  ELSE PathLength[l.path] < PathLength[r.path]

\* The comparison of sort.SliceStable.
Less(l, r) ==
  IF Wildcard(l.host) # Wildcard(r.host) THEN ~Wildcard(l.host)
  ELSE IF l.host # r.host THEN HostRank[l.host] < HostRank[r.host]
  ELSE PathLength[l.path] > PathLength[r.path]

\* sort.SliceStable: the place of an element is behind all that are to be
\* in front of it.
StableSort(list) ==
  LET before(i, j) == Less(list[i], list[j]) \/ (~Less(list[j], list[i]) /\ i < j)
      place(i) == Cardinality({j \in DOMAIN list : before(j, i)}) + 1
  IN  [k \in DOMAIN list |-> list[CHOOSE i \in DOMAIN list : place(i) = k]]

\* The route of the management interface comes last in the input.
ManagementRoute(c) ==
  [id |-> "management-ui", host |-> c.managementHost, path |-> <<>>,
   enabled |-> TRUE, internal |-> FALSE, protected |-> FALSE,
   protocol |-> "", https |-> TRUE, port |-> 0, mixed |-> FALSE, headers |-> {},
   disabled |-> FALSE, blocked |-> {}, allowed |-> {}, methods |-> {}, paths |-> {}]

AllRoutes(routes, c) ==
  IF c.managementHost = <<>> THEN routes ELSE Append(routes, ManagementRoute(c))

RouteList(routes, c) == StableSort(AllRoutes(routes, c))

\* The loop of Render passes over the routes that are not enabled.
Enabled(routes, c) == {r \in ToSet(RouteList(routes, c)) : r.enabled}

----------------------------------------------------------------------------
(* Listeners.                                                              *)

Protocol(r) == IF r.protocol # "" THEN r.protocol
               ELSE IF r.https THEN "https" ELSE "http"

Default(protocol, c) == IF protocol = "https" THEN c.httpsListen ELSE c.httpListen

\* listenerAddress: another port of the address the protocol has by default.
Address(r, c) ==
  LET base == Default(Protocol(r), c)
  IN  IF r.port = 0 THEN base
      ELSE [host |-> IF base = NoAddress THEN "any" ELSE base.host, port |-> r.port]

Listener(r, c) == [address |-> Address(r, c), protocol |-> Protocol(r)]

\* The servers: those of the defaults and those of the routes.
Listeners(routes, c) ==
  {[address |-> Default(p, c), protocol |-> p] :
     p \in {x \in {"http", "https"} : Default(x, c) # NoAddress}}
  \cup {Listener(r, c) : r \in Enabled(routes, c)}

listenerAddressesOverlap(a, b) ==
  a.port = b.port /\ (a.host = b.host \/ "any" \in {a.host, b.host})

\* Bug: only equal addresses are taken for a conflict.
SameAddress(k, l) == k.protocol # l.protocol /\ k.address = l.address

\* The error of ensureServer.
Conflicting(k, l) ==
  k.protocol # l.protocol /\ listenerAddressesOverlap(k.address, l.address)

----------------------------------------------------------------------------
(* The entries of a route.  An entry matches a request that has the host,  *)
(* one of the path prefixes, one of the sources and methods, and, if       *)
(* headers are named, one of them; port 0 and protocol "" stand for any.   *)
(* The route an entry was made from is kept in it.                         *)

routeMatch(r) ==
  [host |-> r.host, paths |-> {r.path}, port |-> r.port, protocol |-> r.protocol,
   sources |-> Sources, methods |-> Methods, headers |-> {}]

Entry(match, kind, r, status) ==
  [match |-> match, kind |-> kind, route |-> r, status |-> status,
   strip |-> {}, set |-> {}, port |-> 0]

authTokens(c) == c.tokens

\* Bearer and admin header are both accepted if nothing is configured.  The
\* additional header has a name and a value, or neither: validateConfig
\* refuses the one without the other.
protectedHeaderPolicies(c) ==
  LET neither == ~c.allowBearer /\ ~c.allowAdminHeader /\ ~c.customHeader
      headers(name) == {[name |-> name, value |-> t] : t \in authTokens(c)}
  IN  (IF c.allowBearer \/ neither THEN headers("Authorization") ELSE {})
      \cup (IF c.allowAdminHeader \/ neither THEN headers("X-Admin-Token") ELSE {})
      \cup (IF c.customHeader THEN {[name |-> "X-Custom", value |-> "custom"]} ELSE {})

\* Bug: a denied prefix counts only if the route has it or one above it.
IntersectBelow(left, right) == IF IsPrefix(left, right) THEN {right} ELSE {}

\* The longer of two prefixes, if one is a part of the other.
intersectPathPrefixes(left, right) ==
  CASE IsPrefix(right, left) -> {left}
    [] IsPrefix(left, right) -> {right}
    [] OTHER -> {}

\* Rejections, in front of everything else of the route.
renderSecurityEntries(r, c) ==
  LET reject(field, values, status) ==
        IF values = {} THEN <<>>
        ELSE <<Entry([routeMatch(r) EXCEPT ![field] = values], "status", r, status)>>
      outside(allowed) == IF allowed = {} THEN {} ELSE Sources \ allowed
      denied == UNION {intersectPathPrefixes(r.path, p) : p \in c.paths \cup r.paths}
  IN  IF ~c.securityEnabled \/ r.disabled THEN <<>>
      ELSE reject("sources", c.blocked \cup r.blocked, 403)
           \o reject("sources", outside(c.allowed), 403)
           \o reject("sources", outside(r.allowed), 403)
           \o reject("methods", c.methods \cup r.methods, 405)
           \o reject("paths", denied, 403)

\* Bug: the headers a route sets replace what was stripped.
SetAll(r, strip) == IF strip \subseteq strip THEN r.headers ELSE {}

\* reverseProxyHandler: configured headers, but for the credentials.
SetHeaders(r, strip) == {h \in r.headers : h.name \notin strip}

renderRoute(r, c) ==
  LET match == IF r.internal
               THEN [routeMatch(r) EXCEPT !.sources = c.internalSources]
               ELSE routeMatch(r)
      policies == protectedHeaderPolicies(c)
      strip == {p.name : p \in policies}
      proxy(m, s) == [Entry(m, "proxy", r, 200) EXCEPT !.strip = s,
                                                      !.set = SetHeaders(r, s)]
      fallback(status) == Entry(match, "status", r, status)
  IN  renderSecurityEntries(r, c) \o
      CASE ~r.protected -> <<proxy(match, {})>>
        [] r.protected /\ policies = {} -> <<fallback(503)>>
        [] r.protected /\ policies # {} ->
             <<proxy([match EXCEPT !.headers = policies], strip), fallback(401)>>

\* The redirection of an HTTPS route on the default HTTP listener.
Redirect(r, c) ==
  [Entry([routeMatch(r) EXCEPT !.port = 0, !.protocol = ""], "redirect", r, 308)
     EXCEPT !.port = Address(r, c).port]

----------------------------------------------------------------------------
(* Render.                                                                 *)

\* None of the errors of Render.  Two cannot come up: routes and settings
\* with a negative body limit are refused before, and a ListenAddress has a
\* host and a port.
Renderable(routes, c) ==
  LET ls == Listeners(routes, c)
  IN  /\ c.managementHost # <<>> => c.authRequired /\ authTokens(c) # {}
      /\ ls # {}
      /\ \A k, l \in ls : ~Conflicting(k, l)
      /\ \A r \in Enabled(routes, c) :
           /\ Address(r, c) # NoAddress
           /\ r.internal => c.internalSources # {}
           /\ ~r.mixed

\* Bug: redirections come before the routes of the HTTP listener.
RedirectsFirst(own, redirects) == redirects \o own

EntriesOf(own, redirects) == own \o redirects

\* What the loop appends to the routes of one server, and to redirects.
OwnEntries(list, l, c) ==
  FlattenSeq([i \in DOMAIN list |->
    IF list[i].enabled /\ Listener(list[i], c) = l THEN renderRoute(list[i], c)
    ELSE <<>>])

RedirectEntries(list, c) ==
  FlattenSeq([i \in DOMAIN list |->
    IF list[i].enabled /\ Protocol(list[i]) = "https" THEN <<Redirect(list[i], c)>>
    ELSE <<>>])

Render(routes, c) ==
  LET list == RouteList(routes, c)
  IN  [l \in Listeners(routes, c) |->
         IF l = [address |-> c.httpListen, protocol |-> "http"]
         THEN EntriesOf(OwnEntries(list, l, c), RedirectEntries(list, c))
         ELSE OwnEntries(list, l, c)]

----------------------------------------------------------------------------
(* Caddy: the first entry that matches decides (external).                 *)

HostMatches(pattern, host) ==
  \/ pattern = host
  \/ Wildcard(pattern) /\ Len(pattern) = Len(host) /\ Tail(pattern) = Tail(host)

EntryMatches(m, l, q) ==
  /\ HostMatches(m.host, q.host)
  /\ \E p \in m.paths : IsPrefix(p, q.path)
  /\ m.port \in {0, l.address.port} /\ m.protocol \in {"", l.protocol}
  /\ q.source \in m.sources /\ q.method \in m.methods
  /\ m.headers # {} => m.headers \cap q.headers # {}

Unhandled == [kind |-> "unhandled"]

Respond(servers, l, q) ==
  LET matching == {i \in DOMAIN servers[l] : EntryMatches(servers[l][i].match, l, q)}
  IN  IF matching = {} THEN Unhandled
      ELSE servers[l][CHOOSE i \in matching : \A j \in matching : i <= j]

----------------------------------------------------------------------------
(* Routes and settings change.  A change that cannot be rendered is refused *)
(* and leaves both as they were, so Caddy runs what they render to.        *)

VARIABLES routes, settings

vars == <<routes, settings>>

Running == Render(routes, settings)

Load(rs, c) ==
  /\ Renderable(rs, c)
  /\ routes' = rs /\ settings' = c

Init ==
  /\ routes = <<>>
  /\ settings \in {c \in Settings : Renderable(<<>>, c)}

\* No two of RouteSet have listener, host and path in common: the store would
\* refuse the second.
AddRoute(r) ==
  /\ Len(routes) < MaxRoutes
  /\ \A i \in DOMAIN routes : routes[i].id # r.id
  /\ Load(Append(routes, r), settings)

DeleteRoute(i) == Load(RemoveAt(routes, i), settings)

EnableRoute(i) == Load([routes EXCEPT ![i].enabled = ~@], settings)

ChangeSettings(c) == c # settings /\ Load(routes, c)

Next ==
  \/ \E r \in RouteSet : AddRoute(r)
  \/ \E i \in DOMAIN routes : DeleteRoute(i) \/ EnableRoute(i)
  \/ \E c \in Settings : ChangeSettings(c)

Spec == Init /\ [][Next]_vars

----------------------------------------------------------------------------
(* Properties, for every request to every listener of what Caddy runs.     *)
(*                                                                         *)

Requests == [host : RequestHosts, path : RequestPaths, source : Sources,
             method : Methods, headers : HeaderSets]

Conf == settings
Defined == ToSet(AllRoutes(routes, Conf))

\* The route is for requests like this one on this listener.
For(r, l, q) ==
  /\ r.enabled /\ Listener(r, Conf) = l
  /\ HostMatches(r.host, q.host) /\ IsPrefix(r.path, q.path)

Serves(r, l, q) == For(r, l, q) /\ (r.internal => q.source \in Conf.internalSources)

\* An exact host is more specific than a wildcard, then a longer prefix.
MoreSpecific(r, s) ==
  IF Wildcard(r.host) # Wildcard(s.host) THEN ~Wildcard(r.host)
  ELSE Len(r.path) > Len(s.path)

ForEveryRequest(P(_, _, _)) ==
  LET servers == Running
  IN  \A l \in DOMAIN servers, q \in Requests : P(l, q, Respond(servers, l, q))

\* Render's order of entries: a request reaches the backend of the most
\* specific enabled route for it, in whatever order the routes were defined,
\* and it is left without an answer only if there is no route for it.
MostSpecificRoute ==
  ForEveryRequest(LAMBDA l, q, answer :
    /\ answer.kind = "proxy" =>
         /\ answer.route \in Defined /\ Serves(answer.route, l, q)
         /\ \A r \in Defined :
              Serves(r, l, q) => ~MoreSpecific(r, answer.route)
    /\ answer.kind = "unhandled" => \A r \in Defined : ~Serves(r, l, q))

\* No request reaches a backend that the security policy of the gateway or of
\* the route it takes denies: by source, method or path.
SecurityEnforced ==
  ForEveryRequest(LAMBDA l, q, answer :
    answer.kind = "proxy" /\ Conf.securityEnabled /\ ~answer.route.disabled =>
      LET r == answer.route
      IN  /\ q.source \notin Conf.blocked \cup r.blocked
          /\ \A allowed \in {Conf.allowed, r.allowed} \ {{}} : q.source \in allowed
          /\ q.method \notin Conf.methods \cup r.methods
          /\ ~\E p \in Conf.paths \cup r.paths : IsPrefix(p, q.path))

\* A backend behind a protected route sees only requests with a credential
\* the settings accept, and never the credential: neither as the client sent
\* it nor as a header the route sets.
CredentialsStayHere ==
  ForEveryRequest(LAMBDA l, q, answer :
    answer.kind = "proxy" /\ answer.route.protected =>
      LET accepted == protectedHeaderPolicies(Conf)
          forwarded == {h \in q.headers : h.name \notin answer.strip} \cup answer.set
      IN  /\ accepted \cap q.headers # {}
          /\ \A h \in forwarded : h.name \notin {a.name : a \in accepted})

\* The entries securityEntries and authentication put in front of a route hold
\* for every request that gets past them.
PolicyEnforced == SecurityEnforced /\ CredentialsStayHere

\* A plain HTTP request is redirected only if no route of the HTTP listener
\* is for it, and where it is sent there is a route for it.
RedirectsServed ==
  ForEveryRequest(LAMBDA l, q, answer :
    answer.kind = "redirect" =>
      /\ \A r \in Defined : ~Serves(r, l, q)
      /\ \E k \in Listeners(routes, settings), r \in Defined :
           /\ k.protocol = "https" /\ k.address.port = answer.port
           /\ For(r, k, q))

\* No configuration is loaded in which an HTTP and an HTTPS server claim the
\* same port of an address.
ListenersCompatible ==
  \A k, l \in Listeners(routes, settings) :
    k.address.port = l.address.port /\ (k.address.host = l.address.host
      \/ k.address.host = "any" \/ l.address.host = "any") => k.protocol = l.protocol

\* The listeners of a rendered configuration fit together, and a redirection
\* from one of them lands at a route of another.
RedirectsLand == RedirectsServed /\ ListenersCompatible
=============================================================================
