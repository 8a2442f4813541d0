--------------------------- MODULE MCRouteStore ---------------------------
(***************************************************************************)
(* A small instance of RouteStore for TLC: two identifiers of each kind,   *)
(* two hosts on one bind, two path prefixes.                               *)
(***************************************************************************)
EXTENDS RouteStore, TLC

CONSTANTS l1, l2, p1, p2, r1, r2, h1, h2, b1, root, sub, n1, t1, t2, k1


MCListenerIDs == {l1, l2}
MCPoolIDs == {p1, p2}
MCRuleIDs == {r1, r2}
MCPaths == {root, sub}

L(id, host) == [id |-> id, host |-> host, bind |-> b1, source |-> "explicit"]
P(id, name) ==
  [id |-> id, name |-> name, source |-> "explicit", targets |-> t1]
C(id, name) ==
  [id |-> id, name |-> name, source |-> "compatibility", targets |-> t1]

OneRule ==
  [listeners |-> {L(l1, h1)}, pools |-> {P(p1, n1)},
   rules |-> {NewRule(r1, l1, p1, root, FALSE)}]

(* Two rules of the compatibility API on one listener.                     *)
TwoRoutes ==
  [listeners |-> {[L(l1, h1) EXCEPT !.source = "compatibility"]},
   pools |-> {C(p1, r1), C(p2, r2)},
   rules |-> {NewRule(r1, l1, p1, root, FALSE),
              NewRule(r2, l1, p2, sub, FALSE)}]

Dangling == [OneRule EXCEPT !.pools = {}]

(* Two rules with the same listener and path, as an old file may have.     *)
Ambiguous ==
  [OneRule EXCEPT !.rules = @ \cup {NewRule(r2, l1, p1, root, FALSE)}]

MCBundles == {OneRule, Dangling}
MCLegacyFiles == {TwoRoutes, Ambiguous}

=============================================================================
