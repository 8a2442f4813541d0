---------------------------- MODULE CaddyManager ----------------------------
(***************************************************************************)
(* The life of the Caddy child process: Manager.Start with its wait        *)
(* goroutine and its wait for the admin endpoint, Manager.Stop, the main   *)
(* goroutine that supervises it, and the readiness probe.                  *)
(*                                                                         *)
(* main starts Caddy once; when Caddy is gone the gateway exits and the    *)
(* container is started again.  Each section under Manager.mu is one step. *)
(***************************************************************************)
EXTENDS Naturals

CONSTANT Probes   \* goroutines that serve /readyz

VARIABLES
  \* Manager
  cmd,       \* m.cmd is set
  ready, stopping,
  lastErr,   \* m.lastErr is set
  done,      \* the error in the channel m.done, of capacity 1
  waiter,    \* where the goroutine of wait is
  \* main
  main,      \* where main is, at last the exit status
  failed,    \* runtimeErr is set
  \* the world
  child,     \* the Caddy process
  signalled, \* it was killed or interrupted by the manager
  cancelled, \* the context of main is done
  asked,     \* SIGTERM arrived or the management server failed
  probe      \* per probe: nothing, reading, or the answer it has given

manager == <<cmd, ready, stopping, lastErr, done, waiter>>
world == <<child, signalled, cancelled, asked>>
vars == <<manager, main, failed, world, probe>>

Exited == main \in {"exit0", "exit1"}

Init ==
  /\ cmd = FALSE /\ ready = FALSE /\ stopping = FALSE /\ lastErr = FALSE
  /\ done = FALSE /\ waiter = "none"
  /\ main = "start" /\ failed = FALSE
  /\ child = "none" /\ signalled = FALSE
  /\ cancelled = FALSE /\ asked = FALSE
  /\ probe = [p \in Probes |-> "none"]

----------------------------------------------------------------------------
(* Manager.Start, called by main.                                          *)

Spawn ==
  /\ main = "start"
  /\ \/ /\ ~cancelled
        /\ child' = "alive" /\ waiter' = "waiting" /\ cmd' = TRUE
        /\ main' = "admin"
     \/ main' = "exit1" /\ UNCHANGED <<child, waiter, cmd>>
  /\ UNCHANGED <<ready, stopping, lastErr, done, failed, signalled, cancelled,
                 asked, probe>>

(* waitForAdmin succeeds.  Whoever listens there has answered.             *)
AdminAnswers ==
  /\ main = "admin"
  /\ main' = "settle"
  /\ UNCHANGED <<manager, failed, world, probe>>

(* stopCommand *)
StopCommand ==
  /\ stopping' = (stopping \/ cmd)
  /\ ready' = (ready /\ ~cmd)
  /\ signalled' = (signalled \/ cmd)

\* Bug: the child is not stopped.
ReturnError == UNCHANGED <<stopping, ready, signalled>>

(* What Start does on an error of waitForAdmin.                            *)
AbortStart == StopCommand

(* The endpoint was not ready in time, or the context is done.             *)
AdminFails ==
  /\ main = "admin"
  /\ AbortStart
  /\ main' = "exit1"
  /\ UNCHANGED <<cmd, lastErr, done, waiter, failed, child, cancelled, asked,
                 probe>>

\* Bug: an answer of the endpoint is enough.
StillRunning == TRUE

(* Caddy may have exited after the endpoint answered.                      *)
CommandCurrent == cmd

Settle ==
  /\ main = "settle"
  /\ IF CommandCurrent THEN ready' = TRUE /\ main' = "select"
                       ELSE main' = "exit1" /\ UNCHANGED ready
  /\ UNCHANGED <<cmd, stopping, lastErr, done, waiter, failed, world, probe>>

----------------------------------------------------------------------------
(* Manager.wait.                                                           *)

Expected == stopping \/ cancelled

WaitReturns ==
  /\ ~Exited
  /\ waiter = "waiting" /\ child = "dead"
  /\ cmd' = FALSE /\ ready' = FALSE
  /\ lastErr' = (lastErr \/ ~Expected)
  /\ waiter' = IF Expected THEN "over" ELSE "report"
  /\ UNCHANGED <<stopping, done, main, failed, world, probe>>

\* Bug: the exit is only logged.
LogOnly == UNCHANGED done

Deliver == done' = TRUE

Report ==
  /\ ~Exited
  /\ waiter = "report"
  /\ Deliver
  /\ waiter' = "over"
  /\ UNCHANGED <<cmd, ready, stopping, lastErr, main, failed, world, probe>>

----------------------------------------------------------------------------
(* main after the start.                                                   *)

SelectContext ==
  /\ main = "select" /\ cancelled
  /\ main' = "shutdown"
  /\ UNCHANGED <<manager, failed, world, probe>>

\* Bug: the error is logged and forgotten.
DropError == UNCHANGED failed

KeepError == failed' = TRUE

SelectDone ==
  /\ main = "select" /\ done
  /\ done' = FALSE
  /\ KeepError
  /\ cancelled' = TRUE
  /\ main' = "shutdown"
  /\ UNCHANGED <<cmd, ready, stopping, lastErr, waiter, child, signalled,
                 asked, probe>>

(* The management server is shut down, then Manager.Stop.                  *)
Shutdown ==
  /\ main = "shutdown"
  /\ StopCommand
  /\ main' = IF failed THEN "exit1" ELSE "exit0"
  /\ UNCHANGED <<cmd, lastErr, done, waiter, failed, child, cancelled, asked,
                 probe>>

----------------------------------------------------------------------------
(* handleReady: Ready and LastError are two calls.                         *)

ProbeReady(p) ==
  /\ main \in {"select", "shutdown"}
  /\ probe[p] # "reading"
  /\ probe' = [probe EXCEPT ![p] = IF ready THEN "ready" ELSE "reading"]
  /\ UNCHANGED <<manager, main, failed, world>>

ProbeError(p) ==
  /\ ~Exited
  /\ probe[p] = "reading"
  /\ probe' = [probe EXCEPT ![p] = IF lastErr THEN "error" ELSE "not_ready"]
  /\ UNCHANGED <<manager, main, failed, world>>

----------------------------------------------------------------------------
(* The world.                                                              *)

(* The operator stops the gateway, or the management server fails.         *)
Cancel ==
  /\ ~Exited /\ ~asked
  /\ cancelled' = TRUE /\ asked' = TRUE
  /\ UNCHANGED <<manager, main, failed, child, signalled, probe>>

(* Caddy exits: by itself, by a signal, or because exec.CommandContext     *)
(* kills it when the context is done.                                      *)
ChildExits ==
  /\ child = "alive"
  /\ child' = "dead"
  /\ UNCHANGED <<manager, main, failed, signalled, cancelled, asked, probe>>

Over == Exited /\ child # "alive" /\ UNCHANGED vars

Main == Spawn \/ AdminAnswers \/ AdminFails \/ Settle \/ SelectContext
        \/ SelectDone \/ Shutdown

Next ==
  \/ Main \/ WaitReturns \/ Report
  \/ \E p \in Probes : ProbeReady(p) \/ ProbeError(p)
  \/ Cancel \/ ChildExits \/ Over

(* The goroutines are scheduled: waitForAdmin ends after five seconds, a   *)
(* signal or a cancelled context ends Caddy.                               *)
Fairness ==
  /\ WF_vars(Main) /\ WF_vars(WaitReturns) /\ WF_vars(Report)
  /\ WF_vars(ChildExits /\ (signalled \/ cancelled))

Spec == Init /\ [][Next]_vars /\ Fairness

----------------------------------------------------------------------------

(* /readyz answers "ready" only while the manager has a child that it has  *)
(* neither stopped nor seen exit (docs/operations.md, Health): an answer   *)
(* of the admin endpoint to Start never hides an exit that came before it. *)
ReadyzHonest ==
  [][\A p \in Probes : probe'[p] = "ready" /\ probe[p] # "ready" =>
       cmd /\ ~stopping /\ ~lastErr /\ waiter = "waiting"]_vars

(* The exit status of main never hides that Caddy died: it is 0 only when  *)
(* SIGTERM or a failed management server cancelled the context, and        *)
(* runtimeErr is set only for an exit that nobody asked for, which the     *)
(* probes report through LastError as well.                                *)
ExitStatusHonest ==
  /\ main = "exit0" => asked
  /\ failed => lastErr

(* The gateway never exits and leaves a Caddy behind that it did not try   *)
(* to stop.                                                                *)
NoOrphan == Exited => child # "alive" \/ signalled

(* However main and Caddy come to an end, the exit status tells it and no  *)
(* process is left behind.                                                 *)
ExitsHonest == ExitStatusHonest /\ NoOrphan

(* Once Caddy is gone the gateway exits, so that the container is started  *)
(* again: the exit is never lost, whatever main is doing when it happens.  *)
ExitNoticed == child = "dead" ~> Exited

=============================================================================
