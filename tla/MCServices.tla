----------------------------- MODULE MCServices -----------------------------
(***************************************************************************)
(* The services that run beside the control plane of the gateway: the      *)
(* runtime log, the audit log, the health checker and the supervision of   *)
(* the Caddy process.  They share no state, so a behaviour exercises one   *)
(* of them, chosen at the start, while the others rest.                    *)
(***************************************************************************)
EXTENDS LogStore

CONSTANTS
  stdout, stderr,
  Requests, Lengths, BlockSize, MaxLineSize, Limits, DefaultLimit, MaxLimit,
  MaxEvents, MaxTears,
  RouteLists, maxConcurrentChecks,
  Probes

ASSUME HealthAssumption ==
  /\ RouteLists \subseteq Seq([id : STRING, enabled : BOOLEAN, upstreams : Seq(STRING)])
  /\ maxConcurrentChecks \in Nat

ASSUME AuditAssumption ==
  /\ Lengths \subseteq Nat \ {0} /\ BlockSize \in Nat \ {0} /\ MaxLineSize \in Nat
  /\ Limits \subseteq Int /\ DefaultLimit \in Nat \ {0} /\ MaxLimit \in Nat
  /\ "nobody" \notin Requests

VARIABLES
  service,
  file, size, writer, mu, recorded, tears, reader,
  active, next, closed, ctxDone, worker, statuses, returned, answers,
  cmd, ready, stopping, lastErr, exit, waiter, main, failed,
  child, signalled, cancelled, asked, probe

Audit == INSTANCE AuditLog WITH Writers <- Requests
Health == INSTANCE HealthChecker WITH done <- ctxDone
Caddy == INSTANCE CaddyManager WITH done <- exit

auditVars == <<file, size, writer, mu, recorded, tears, reader>>
healthVars ==
  <<active, next, closed, ctxDone, worker, statuses, returned, answers>>
caddyVars == <<cmd, ready, stopping, lastErr, exit, waiter, main, failed,
               child, signalled, cancelled, asked, probe>>
all == <<service, vars, auditVars, healthVars, caddyVars>>

----------------------------------------------------------------------------
(* The instance: a line may be cut and either limit of the ring reached;   *)
(* audit lines cross blocks and a torn one can grow past the longest that  *)
(* a read accepts; there are fewer routes than workers, as many, and more. *)

MCLengths == {1, 3}
MCLimits == {0, 2, 3}

Route(id, upstreams) == [id |-> id, enabled |-> TRUE, upstreams |-> upstreams]

MCRouteLists ==
  {<<>>,
   <<Route("a", <<"u">>), Route("b", <<>>)>>,
   <<Route("a", <<"u", "v">>), Route("b", <<"malformed">>)>>,
   <<[Route("a", <<"u">>) EXCEPT !.enabled = FALSE], Route("b", <<"u", "v">>),
     Route("c", <<"u">>), Route("d", <<"v", "malformed">>), Route("e", <<"w">>)>>}

----------------------------------------------------------------------------

\* A check that is not exercised has no route to check.
ServicesInit ==
  /\ service \in {"logs", "audit", "health", "caddy"}
  /\ Init /\ Audit!Init /\ Health!Init /\ Caddy!Init
  /\ service # "health" => active = <<>>

ServicesNext ==
  \/ /\ service = "logs" /\ Next
     /\ UNCHANGED <<service, auditVars, healthVars, caddyVars>>
  \/ /\ service = "audit" /\ Audit!Next
     /\ UNCHANGED <<service, vars, healthVars, caddyVars>>
  \/ /\ service = "health" /\ Health!Next
     /\ UNCHANGED <<service, vars, auditVars, caddyVars>>
  \/ /\ service = "caddy" /\ Caddy!Next
     /\ UNCHANGED <<service, vars, auditVars, healthVars>>

ServicesSpec ==
  /\ ServicesInit /\ [][ServicesNext]_all
  /\ service = "health" => Health!Fairness
  /\ service = "caddy" => Caddy!Fairness

----------------------------------------------------------------------------
(* The properties of the instances, under names a configuration can use.   *)

\* ReadLast of the audit log against its meaning.
ReadExact == Audit!ReadExact

\* A torn write of Record costs at most one recorded event.
DamageContained == Audit!DamageContained

\* Checker.Check reports every active route, and what its upstreams did.
StatusHonest == Health!StatusHonest

\* Checker.Check returns, whatever the upstreams do.
CheckReturns == service = "health" => Health!CheckReturns

\* The exit status of main never hides that Caddy died, and no Caddy is left
\* behind.
ExitsHonest == Caddy!ExitsHonest

\* /readyz answers "ready" only while the manager has its child.
ReadyzHonest == Caddy!ReadyzHonest

\* Once Caddy is gone the gateway exits.
ExitNoticed == Caddy!ExitNoticed
=============================================================================
