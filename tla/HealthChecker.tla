---------------------------- MODULE HealthChecker ---------------------------
(***************************************************************************)
(* One call of Checker.Check (internal/health/checker.go): the caller      *)
(* hands the indexes of the active routes to a few workers over an         *)
(* unbuffered channel, closes it and waits for the workers.  The context   *)
(* ends when the request that asked for the check goes away or when the    *)
(* ten seconds of checkBudget are over.                                    *)
(*                                                                         *)
(* An upstream answers as it likes, or never; what is asked of it (the     *)
(* path, the method) is left out.                                          *)
(***************************************************************************)
EXTENDS Integers, FiniteSets, SequencesExt

CONSTANTS
  RouteLists,           \* the argument of Check: sequences of routes
  maxConcurrentChecks   \* positive

VARIABLES
  active,      \* the routes to check
  next,        \* the index the caller sends next
  closed,      \* the channel is closed
  done,        \* ctx has ended
  worker,      \* what each worker does
  statuses,    \* the answer: a status for each active route
  returned,    \* Check has returned
  answers      \* what the upstreams of each active route have answered

vars == <<active, next, closed, done, worker, statuses, returned, answers>>

Indexes == DOMAIN active
Unset == [route |-> "", healthy |-> FALSE, failed |-> 0]
Receiving == [pc |-> "receiving", job |-> 0, upstream |-> 0, status |-> Unset]

\* The loop that collects the routes to check.
Active(routes) ==
  LET upTo[n \in 0..Len(routes)] ==
        IF n = 0 THEN <<>>
        ELSE IF routes[n].enabled /\ routes[n].upstreams # <<>>
        THEN Append(upTo[n - 1], routes[n]) ELSE upTo[n - 1]
  IN  upTo[Len(routes)]

\* The start of Check; the workers are started with it.
Init ==
  \E routes \in RouteLists :
    /\ active = Active(routes)
    /\ worker = [w \in 1..(IF Len(active) < maxConcurrentChecks THEN Len(active)
                           ELSE maxConcurrentChecks) |-> Receiving]
    /\ next = 1 /\ closed = FALSE /\ done = FALSE /\ returned = FALSE
    /\ statuses = [i \in Indexes |-> Unset]
    /\ answers = [i \in Indexes |-> <<>>]

Upstreams(w) == active[worker[w].job].upstreams

\* Bug: one status for all the jobs of a worker.
SameStatus(w, i) ==
  IF worker[w].status = Unset
  THEN [route |-> active[i].id, healthy |-> TRUE, failed |-> 0]
  ELSE [worker[w].status EXCEPT !.route = active[i].id]

\* The status a worker begins a job with.
NewStatus(w, i) == [route |-> active[i].id, healthy |-> TRUE, failed |-> 0]

\* An index passes from the caller to a worker that waits for one.
Send(w) ==
  /\ next \in Indexes /\ worker[w].pc = "receiving"
  /\ next' = next + 1
  /\ worker' = [worker EXCEPT ![w] = [pc |-> "checking", job |-> next, upstream |-> 1,
                                      status |-> NewStatus(w, next)]]
  /\ UNCHANGED <<active, closed, done, statuses, returned, answers>>

Close ==
  /\ next \notin Indexes /\ ~closed
  /\ closed' = TRUE
  /\ UNCHANGED <<active, next, done, worker, statuses, returned, answers>>

\* What a worker does with the result of checkUpstream: a failure ends the
\* route, a success goes on to the next upstream or ends it.
Result(w, ok) ==
  LET now == worker[w]
      after == IF ~ok THEN [now EXCEPT !.pc = "storing", !.status.healthy = FALSE,
                                       !.status.failed = now.upstream]
               ELSE IF now.upstream = Len(Upstreams(w)) THEN [now EXCEPT !.pc = "storing"]
               ELSE [now EXCEPT !.pc = "checking", !.upstream = now.upstream + 1]
  IN  worker' = [worker EXCEPT ![w] = after]

\* healthURL refuses a URL without scheme or host.
HasHealthURL(upstream) == upstream # "malformed"

\* checkUpstream before the request: the context has ended, or the URL has
\* no scheme or host.
checkUpstream(w) ==
  /\ worker[w].pc = "checking"
  /\ IF done \/ ~HasHealthURL(Upstreams(w)[worker[w].upstream]) THEN Result(w, FALSE)
     ELSE worker' = [worker EXCEPT ![w].pc = "asking"]
  /\ UNCHANGED <<active, next, closed, done, statuses, returned, answers>>

\* The upstream answers: 200 to 399 is healthy.
Answer(w, ok) ==
  /\ worker[w].pc = "asking"
  /\ answers' = [answers EXCEPT ![worker[w].job] = Append(@, ok)]
  /\ Result(w, ok)
  /\ UNCHANGED <<active, next, closed, done, statuses, returned>>

\* The request fails: refused, the timeout of the client, or the context.
GiveUp(w) ==
  /\ worker[w].pc = "asking"
  /\ Result(w, FALSE)
  /\ UNCHANGED <<active, next, closed, done, statuses, returned, answers>>

Store(w) ==
  /\ worker[w].pc = "storing"
  /\ statuses' = [statuses EXCEPT ![worker[w].job] = worker[w].status]
  /\ worker' = [worker EXCEPT ![w].pc = "receiving"]
  /\ UNCHANGED <<active, next, closed, done, returned, answers>>

\* Bug: a worker also stops when the context has ended.
StopsOnCancel(w) == closed \/ done

MayExit(w) == closed

\* The range over the channel ends.
Exit(w) ==
  /\ worker[w].pc = "receiving" /\ MayExit(w)
  /\ worker' = [worker EXCEPT ![w].pc = "exited"]
  /\ UNCHANGED <<active, next, closed, done, statuses, returned, answers>>

Cancel ==
  /\ ~done /\ ~returned
  /\ done' = TRUE
  /\ UNCHANGED <<active, next, closed, worker, statuses, returned, answers>>

\* Bug: Check does not wait for its workers.
WithoutWait == closed

Waited == closed /\ \A w \in DOMAIN worker : worker[w].pc = "exited"

Return ==
  /\ Waited /\ ~returned
  /\ returned' = TRUE
  /\ UNCHANGED <<active, next, closed, done, worker, statuses, answers>>

Work(w) == checkUpstream(w) \/ GiveUp(w) \/ Store(w) \/ Exit(w)

Next ==
  \/ \E w \in DOMAIN worker : Send(w) \/ Work(w) \/ \E ok \in BOOLEAN : Answer(w, ok)
  \/ Close \/ Cancel \/ Return

\* Goroutines that can go on do; a request ends at the latest when the time
\* of the client is over.  Nobody has to answer and nothing has to be
\* cancelled.
Fairness ==
  /\ \A w \in 1..maxConcurrentChecks : WF_vars(w \in DOMAIN worker /\ Work(w))
  /\ WF_vars(\E w \in DOMAIN worker : Send(w))
  /\ WF_vars(Close) /\ WF_vars(Return)

Spec == Init /\ [][Next]_vars /\ Fairness

----------------------------------------------------------------------------
(* Properties.                                                             *)

\* When Check returns, every route that is enabled and has an upstream has
\* its own status at its own place, however the workers shared the work and
\* whenever the context ended.
ReportComplete ==
  returned => \A i \in Indexes : statuses[i].route = active[i].id

\* A status says what the upstreams did: healthy if and only if all of them
\* answered well during this check; otherwise it names the first that did
\* not, after the ones in front of it had.
StatusTrue ==
  \A i \in Indexes : statuses[i] # Unset =>
    LET good == {k \in DOMAIN answers[i] : answers[i][k]}
    IN  IF statuses[i].healthy THEN good = DOMAIN active[i].upstreams
        ELSE good = 1..(statuses[i].failed - 1) /\ good # DOMAIN active[i].upstreams

\* The report of Check is complete and true.
StatusHonest == ReportComplete /\ StatusTrue

\* Check returns, even if no upstream ever answers and whenever the context
\* ends: the caller is never left sending to workers that are gone, and the
\* workers are never left receiving.
CheckReturns == <>returned
=============================================================================
