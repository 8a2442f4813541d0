--------------------------- MODULE ServicesProofs ---------------------------
(***************************************************************************)
(* Theorems about the services that run beside the control plane, for any  *)
(* number of probes, routes, workers and upstreams.                        *)
(***************************************************************************)
EXTENDS MCServices, SequenceTheorems, FiniteSetTheorems, WellFoundedInduction,
        TLAPS

LEMMA Steps == ServicesSpec => ServicesInit /\ [][ServicesNext]_all
BY DEF ServicesSpec

----------------------------------------------------------------------------
(* The Caddy process.                                                      *)

CaddyTypes ==
  /\ cmd \in BOOLEAN /\ ready \in BOOLEAN /\ stopping \in BOOLEAN
  /\ lastErr \in BOOLEAN /\ exit \in BOOLEAN /\ failed \in BOOLEAN
  /\ signalled \in BOOLEAN /\ cancelled \in BOOLEAN /\ asked \in BOOLEAN
  /\ waiter \in {"none", "waiting", "report", "over"}
  /\ main \in {"start", "admin", "settle", "select", "shutdown", "exit0", "exit1"}
  /\ child \in {"none", "alive", "dead"}
  /\ probe \in [Probes -> {"none", "reading", "ready", "error", "not_ready"}]

(* The manager has its child as long as wait has not returned.             *)
HasChild ==
  /\ cmd <=> waiter = "waiting"
  /\ main = "start" => waiter = "none"
  /\ waiter = "none" => child = "none"
  /\ child = "alive" => waiter = "waiting"

(* Ready is set for a child that is neither stopped nor gone.              *)
ReadyChild ==
  /\ ready => cmd /\ ~stopping
  /\ stopping => Caddy!Exited
  /\ lastErr => waiter \in {"report", "over"}

(* An error in the channel is that of an exit nobody asked for; the        *)
(* context ends for a signal or for such an error.                         *)
ErrorKept ==
  /\ exit \/ waiter = "report" \/ failed => lastErr
  /\ cancelled => asked \/ failed
  /\ main \in {"shutdown", "exit0"} => cancelled
  /\ main = "exit0" => ~failed

CaddyInv == CaddyTypes /\ HasChild /\ ReadyChild /\ ErrorKept /\ Caddy!NoOrphan

LEMMA CaddyStarts == ServicesInit => CaddyInv
BY DEF ServicesInit, Caddy!Init, CaddyInv, CaddyTypes, HasChild, ReadyChild,
       ErrorKept, Caddy!NoOrphan, Caddy!Exited

LEMMA CaddyStep ==
  ASSUME [ServicesNext]_all
  PROVE  Caddy!Next \/ UNCHANGED caddyVars
BY DEF ServicesNext, all

LEMMA CaddyNext ==
  ASSUME CaddyInv, Caddy!Next
  PROVE  CaddyInv'
<1> USE DEF CaddyInv, CaddyTypes, HasChild, ReadyChild, ErrorKept, Caddy!NoOrphan,
        Caddy!Exited
<1>1. CASE Caddy!Spawn
  <2>1. CASE /\ ~cancelled
             /\ child' = "alive" /\ waiter' = "waiting" /\ cmd' = TRUE
             /\ main' = "admin"
    BY <1>1, <2>1 DEF Caddy!Spawn
  <2>2. CASE main' = "exit1" /\ UNCHANGED <<child, waiter, cmd>>
    BY <1>1, <2>2 DEF Caddy!Spawn
  <2> QED BY <1>1, <2>1, <2>2 DEF Caddy!Spawn
<1>2. CASE Caddy!AdminAnswers
  BY <1>2 DEF Caddy!AdminAnswers, Caddy!manager, Caddy!world
<1>3. CASE Caddy!AdminFails
  BY <1>3 DEF Caddy!AdminFails, Caddy!AbortStart, Caddy!StopCommand
<1>4. CASE Caddy!Settle
  BY <1>4 DEF Caddy!Settle, Caddy!CommandCurrent, Caddy!world
<1>5. CASE Caddy!SelectContext
  BY <1>5 DEF Caddy!SelectContext, Caddy!manager, Caddy!world
<1>6. CASE Caddy!SelectDone
  BY <1>6 DEF Caddy!SelectDone, Caddy!KeepError
<1>7. CASE Caddy!Shutdown
  BY <1>7 DEF Caddy!Shutdown, Caddy!StopCommand
<1>8. CASE Caddy!WaitReturns
  BY <1>8 DEF Caddy!WaitReturns, Caddy!Expected, Caddy!world
<1>9. CASE Caddy!Report
  BY <1>9 DEF Caddy!Report, Caddy!Deliver, Caddy!world
<1>10. CASE \E p \in Probes : Caddy!ProbeReady(p) \/ Caddy!ProbeError(p)
  BY <1>10 DEF Caddy!ProbeReady, Caddy!ProbeError, Caddy!manager, Caddy!world
<1>11. CASE Caddy!Cancel
  BY <1>11 DEF Caddy!Cancel, Caddy!manager
<1>12. CASE Caddy!ChildExits
  BY <1>12 DEF Caddy!ChildExits, Caddy!manager
<1>13. CASE Caddy!Over
  BY <1>13 DEF Caddy!Over, Caddy!vars, Caddy!manager, Caddy!world
<1> QED BY <1>1, <1>2, <1>3, <1>4, <1>5, <1>6, <1>7, <1>8, <1>9, <1>10, <1>11,
           <1>12, <1>13 DEF Caddy!Next, Caddy!Main

LEMMA CaddyInvariant == ServicesSpec => []CaddyInv
<1>1. CaddyInv /\ [ServicesNext]_all => CaddyInv'
  <2>1. ASSUME CaddyInv, UNCHANGED caddyVars
        PROVE  CaddyInv'
    BY <2>1 DEF caddyVars, CaddyInv, CaddyTypes, HasChild, ReadyChild, ErrorKept,
                Caddy!NoOrphan, Caddy!Exited
  <2> QED BY <2>1, CaddyStep, CaddyNext
<1> QED BY <1>1, CaddyStarts, Steps, PTL

(* However main and Caddy come to an end, the exit status of the gateway   *)
(* never hides an exit of Caddy that nobody asked for, and no Caddy is     *)
(* left behind without a signal: over every order of wait, waitForAdmin,   *)
(* Stop and the signals.                                                   *)
THEOREM TrueExits == ServicesSpec => []ExitsHonest
<1>1. CaddyInv => ExitsHonest
  BY DEF CaddyInv, ExitsHonest, Caddy!ExitsHonest, Caddy!ExitStatusHonest, ErrorKept
<1> QED BY <1>1, CaddyInvariant, PTL

(* handleReady answers "ready" only while the manager has a child that it  *)
(* has neither stopped nor seen exit, although Start sets ready after the  *)
(* answer of an endpoint that may be that of another process.              *)
THEOREM TrueReadiness == ServicesSpec => ReadyzHonest
<1> DEFINE Fresh(p) == probe'[p] = "ready" /\ probe[p] # "ready"
           Held == cmd /\ ~stopping /\ ~lastErr /\ waiter = "waiting"
<1>1. ASSUME CaddyInv, Caddy!Next, NEW p \in Probes, Fresh(p)
      PROVE  Held
  <2>0. probe' # probe
    BY <1>1
  <2>1. PICK q \in Probes : Caddy!ProbeReady(q) \/ Caddy!ProbeError(q)
    BY <1>1, <2>0, Zenon DEF Caddy!Next, Caddy!Main, Caddy!Spawn, Caddy!AdminAnswers,
       Caddy!AdminFails, Caddy!Settle, Caddy!SelectContext, Caddy!SelectDone,
       Caddy!Shutdown, Caddy!WaitReturns, Caddy!Report, Caddy!Cancel,
       Caddy!ChildExits, Caddy!Over, Caddy!vars
  <2> QED BY <1>1, <2>1
     DEF Caddy!ProbeReady, Caddy!ProbeError, CaddyInv, CaddyTypes, ReadyChild, HasChild
<1>2. CaddyInv /\ [ServicesNext]_all =>
        [\A p \in Probes : Fresh(p) => Held]_(Caddy!vars)
  <2>1. ASSUME UNCHANGED caddyVars
        PROVE  UNCHANGED Caddy!vars
    BY <2>1 DEF caddyVars, Caddy!vars, Caddy!manager, Caddy!world
  <2> QED BY <1>1, <2>1, CaddyStep
<1> QED BY <1>2, CaddyInvariant, Steps, PTL DEF ReadyzHonest, Caddy!ReadyzHonest
----------------------------------------------------------------------------
(* Induction and recursion over the natural numbers, for sets and          *)
(* functions.                                                              *)

LEMMA SetInduction ==
  ASSUME NEW P, 0 \in P, \A n \in Nat : n \in P => n + 1 \in P
  PROVE  Nat \subseteq P
<1> DEFINE T == Nat \ P
           R == {ss \in Nat \X Nat : ss[1] < ss[2]}
<1> SUFFICES ASSUME T # {} PROVE FALSE
  OBVIOUS
<1>1. IsWellFoundedOn(R, Nat)
  BY NatLessThanWellFounded DEF OpToRel
<1>2. \E x \in T : \A t \in T : ~(<<t, x>> \in R)
  <2>1. T \subseteq Nat
    OBVIOUS
  <2> HIDE DEF R, T
  <2> QED BY <1>1, <2>1, WFMin
<1>3. PICK x \in T : \A t \in T : ~(<<t, x>> \in R)
  BY <1>2
<1>4. x \in Nat /\ x # 0 /\ x - 1 \in Nat /\ x - 1 < x /\ (x - 1) + 1 = x
  OBVIOUS
<1>5. x - 1 \notin P
  BY <1>4
<1> QED BY <1>3, <1>4, <1>5

(* A function that is what its predecessor makes it.                       *)
Follows(g, n, S, z, step) ==
  g \in [0..n -> S] /\ g[0] = z /\ \A k \in 1..n : g[k] = step[k][g[k - 1]]

LEMMA RecursionUpTo ==
  ASSUME NEW S, NEW z \in S, NEW n \in Nat, NEW step \in [1..n -> [S -> S]]
  PROVE  \E g : Follows(g, n, S, z, step)
<1> DEFINE P == {m \in Nat : m <= n => \E g : Follows(g, m, S, z, step)}
<1>1. 0 \in P
  <2>1. Follows([k \in 0..0 |-> z], 0, S, z, step)
    BY DEF Follows
  <2> QED BY <2>1
<1>2. ASSUME NEW m \in Nat, m \in P, m + 1 <= n
      PROVE  \E g : Follows(g, m + 1, S, z, step)
  <2>1. PICK g : Follows(g, m, S, z, step)
    BY <1>2
  <2> DEFINE h == [k \in 0..(m + 1) |-> IF k = m + 1 THEN step[m + 1][g[m]] ELSE g[k]]
  <2>2. g \in [0..m -> S] /\ g[0] = z /\ \A k \in 1..m : g[k] = step[k][g[k - 1]]
    BY <2>1 DEF Follows
  <2>3. step[m + 1][g[m]] \in S
    BY <1>2, <2>2
  <2>4. h \in [0..(m + 1) -> S] /\ h[0] = z
    BY <2>2, <2>3
  <2>5. ASSUME NEW k \in 1..(m + 1)
        PROVE  h[k] = step[k][h[k - 1]]
    <3>1. h[k - 1] = g[k - 1]
      OBVIOUS
    <3>2. CASE k = m + 1
      BY <3>1, <3>2
    <3>3. CASE k # m + 1
      <4>1. k \in 1..m /\ h[k] = g[k]
        BY <3>3
      <4> QED BY <2>2, <3>1, <4>1
    <3> QED BY <3>2, <3>3
  <2> HIDE DEF h
  <2>6. Follows(h, m + 1, S, z, step)
    BY <2>4, <2>5 DEF Follows
  <2> QED BY <2>6
<1>3. \A m \in Nat : m \in P => m + 1 \in P
  BY <1>2
<1>4. Nat \subseteq P
  <2> HIDE DEF P
  <2> QED BY <1>1, <1>3, SetInduction
<1> QED BY <1>4

----------------------------------------------------------------------------
(* The health checker.                                                     *)

Routes == [id : STRING, enabled : BOOLEAN, upstreams : Seq(STRING)]
Checked == {r \in Routes : r.upstreams # <<>>}

(* The routes to check are a sequence of routes with upstreams.            *)
LEMMA ActiveRoutes ==
  ASSUME NEW routes \in Seq(Routes)
  PROVE  Health!Active(routes) \in Seq(Checked)
<1> DEFINE L == Len(routes)
           keep(n) == routes[n].enabled /\ routes[n].upstreams # <<>>
           body(f) == [n \in 0..L |-> IF n = 0 THEN <<>>
                                      ELSE IF keep(n) THEN Append(f[n - 1], routes[n])
                                      ELSE f[n - 1]]
           upTo == CHOOSE f : f = body(f)
           step == [n \in 1..L |-> [s \in Seq(Checked) |->
                                      IF keep(n) THEN Append(s, routes[n]) ELSE s]]
<1>1. L \in Nat /\ \A n \in 1..L : routes[n] \in Routes
  BY LenProperties
<1>2. step \in [1..L -> [Seq(Checked) -> Seq(Checked)]]
  BY <1>1 DEF Checked
<1>3. <<>> \in Seq(Checked)
  BY EmptySeq
<1>4. PICK g : Follows(g, L, Seq(Checked), <<>>, step)
  <2> HIDE DEF step
  <2> QED BY <1>1, <1>2, <1>3, RecursionUpTo
<1>5. /\ g \in [0..L -> Seq(Checked)] /\ g[0] = <<>>
      /\ \A n \in 1..L : g[n] = step[n][g[n - 1]]
  BY <1>4 DEF Follows
<1>6. g = body(g)
  <2>1. ASSUME NEW n \in 0..L
        PROVE  g[n] = body(g)[n]
    <3>1. CASE n = 0
      BY <1>5, <3>1
    <3>2. CASE n # 0
      <4>1. n \in 1..L /\ n - 1 \in 0..L
        BY <1>1, <3>2
      <4>2. g[n - 1] \in Seq(Checked)
        <5> HIDE DEF L, step, body, keep
        <5> QED BY <1>5, <4>1
      <4> QED BY <1>5, <3>2, <4>1, <4>2
    <3> QED BY <3>1, <3>2
  <2> HIDE DEF step
  <2> QED BY <1>5, <2>1
<1>7. upTo = body(upTo)
  <2> HIDE DEF body
  <2> QED BY <1>6
<1>8. Health!Active(routes) = upTo[L]
  BY DEF Health!Active
<1> DEFINE P == {n \in Nat : n <= L => upTo[n] \in Seq(Checked)}
<1> HIDE DEF upTo, L
<1>9. 0 \in P
  BY <1>1, <1>3, <1>7
<1>10. ASSUME NEW n \in Nat, n \in P, n + 1 <= L
       PROVE  upTo[n + 1] \in Seq(Checked)
  <2>1. upTo[n] \in Seq(Checked) /\ n + 1 \in 1..L /\ n + 1 \in 0..L
    BY <1>1, <1>10
  <2>2. keep(n + 1) => routes[n + 1] \in Checked
    BY <1>1, <2>1 DEF Checked
  <2>3. upTo[n + 1] = IF keep(n + 1) THEN Append(upTo[n], routes[n + 1]) ELSE upTo[n]
    <3>1. upTo[n + 1] = body(upTo)[n + 1]
      <4> HIDE DEF body
      <4> QED BY <1>7
    <3>2. n + 1 # 0 /\ (n + 1) - 1 = n
      OBVIOUS
    <3> HIDE DEF keep
    <3>3. body(upTo)[n + 1] = IF keep(n + 1) THEN Append(upTo[(n + 1) - 1], routes[n + 1])
                              ELSE upTo[(n + 1) - 1]
      BY <2>1, <3>2
    <3> QED BY <3>1, <3>2, <3>3
  <2> QED BY <2>1, <2>2, <2>3
<1>11. Nat \subseteq P
  <2>1. \A n \in Nat : n \in P => n + 1 \in P
    BY <1>10
  <2> HIDE DEF P
  <2> QED BY <1>9, <2>1, SetInduction
<1> QED BY <1>1, <1>8, <1>11

Status == [route : STRING \cup {""}, healthy : BOOLEAN, failed : Nat]
Worker == [pc : {"receiving", "checking", "asking", "storing", "exited"},
           job : Nat, upstream : Nat, status : Status]
Working == {"checking", "asking", "storing"}

HealthTypes ==
  /\ active \in Seq(Checked)
  /\ \E n \in Nat : worker \in [1..n -> Worker]
  /\ next \in 1..(Len(active) + 1)
  /\ closed \in BOOLEAN /\ ctxDone \in BOOLEAN /\ returned \in BOOLEAN
  /\ statuses \in [1..Len(active) -> Status]
  /\ answers \in [1..Len(active) -> Seq(BOOLEAN)]

(* Each job is that of one worker, which stores its status.                *)
Assigned ==
  /\ \A w \in DOMAIN worker : worker[w].pc \in Working =>
       /\ worker[w].job \in 1..(next - 1)
       /\ statuses[worker[w].job] = Health!Unset
       /\ worker[w].status.route = active[worker[w].job].id
  /\ \A v, w \in DOMAIN worker :
       worker[v].pc \in Working /\ worker[w].pc \in Working /\ v # w =>
         worker[v].job # worker[w].job

(* A job that was handed out is done, or being done; the others are as     *)
(* they were.                                                              *)
NoneForgotten ==
  /\ \A i \in 1..(next - 1) :
       \/ statuses[i].route = active[i].id
       \/ \E w \in DOMAIN worker : worker[w].pc \in Working /\ worker[w].job = i
  /\ \A i \in 1..Len(active) : i >= next =>
       statuses[i] = Health!Unset /\ answers[i] = <<>>

(* Check returns when all is handed out and the workers are gone.          *)
Ended ==
  /\ closed => next = Len(active) + 1
  /\ returned => closed /\ \A w \in DOMAIN worker : worker[w].pc = "exited"

Good(given) == {k \in DOMAIN given : given[k]}
Truth(given, upstreams, status) ==
  IF status.healthy THEN Good(given) = DOMAIN upstreams
  ELSE Good(given) = 1..(status.failed - 1) /\ Good(given) # DOMAIN upstreams

(* A worker has come as far as the answers have been good.                 *)
AskedOf(w) ==
  /\ worker[w].pc \in {"checking", "asking"} =>
       /\ worker[w].upstream \in 1..Len(active[worker[w].job].upstreams)
       /\ worker[w].status.healthy
       /\ Len(answers[worker[w].job]) = worker[w].upstream - 1
       /\ \A k \in DOMAIN answers[worker[w].job] : answers[worker[w].job][k]
  /\ worker[w].pc = "storing" =>
       Truth(answers[worker[w].job], active[worker[w].job].upstreams, worker[w].status)
Asked == \A w \in DOMAIN worker : AskedOf(w)

StatusesTrue ==
  \A i \in 1..Len(active) : statuses[i] # Health!Unset =>
    Truth(answers[i], active[i].upstreams, statuses[i])

HealthInv ==
  HealthTypes /\ Assigned /\ NoneForgotten /\ Ended /\ Asked /\ StatusesTrue

LEMMA HealthStarts == ServicesInit => HealthInv
<1> SUFFICES ASSUME ServicesInit PROVE HealthInv
  OBVIOUS
<1> DEFINE n == IF Len(active) < maxConcurrentChecks THEN Len(active)
                ELSE maxConcurrentChecks
<1>1. /\ \E routes \in RouteLists : active = Health!Active(routes)
      /\ worker = [w \in 1..n |-> Health!Receiving]
      /\ next = 1 /\ closed = FALSE /\ ctxDone = FALSE /\ returned = FALSE
      /\ statuses = [i \in DOMAIN active |-> Health!Unset]
      /\ answers = [i \in DOMAIN active |-> <<>>]
  BY DEF ServicesInit, Health!Init, Health!Indexes
<1>2. active \in Seq(Checked)
  BY <1>1, HealthAssumption, ActiveRoutes DEF Routes
<1>3. DOMAIN active = 1..Len(active) /\ Len(active) \in Nat
  BY <1>2, LenProperties
<1>4. n \in Nat
  BY <1>3, HealthAssumption
<1>5. Health!Unset \in Status /\ Health!Receiving \in Worker
      /\ Health!Receiving.pc = "receiving"
  <2>1. Health!Unset \in Status
    BY DEF Health!Unset, Status
  <2> QED BY <2>1 DEF Health!Receiving, Worker
<1> HIDE DEF n
<1>6. HealthTypes
  <2>1. worker \in [1..n -> Worker]
    BY <1>1, <1>5
  <2>2. <<>> \in Seq(BOOLEAN)
    BY EmptySeq
  <2>3. /\ statuses \in [1..Len(active) -> Status]
        /\ answers \in [1..Len(active) -> Seq(BOOLEAN)]
    BY <1>1, <1>3, <1>5, <2>2
  <2>4. next \in 1..(Len(active) + 1)
    BY <1>1, <1>3
  <2> QED BY <1>1, <1>2, <1>4, <2>1, <2>3, <2>4 DEF HealthTypes
<1>7. \A w \in DOMAIN worker : worker[w].pc = "receiving"
  BY <1>1, <1>5
<1>8. Assigned /\ NoneForgotten /\ Ended /\ Asked /\ StatusesTrue
  BY <1>1, <1>3, <1>7 DEF Assigned, NoneForgotten, Ended, Asked, AskedOf,
     StatusesTrue, Working
<1> QED BY <1>6, <1>8 DEF HealthInv

LEMMA HealthFacts ==
  ASSUME HealthTypes
  PROVE  /\ Len(active) \in Nat /\ DOMAIN active = 1..Len(active)
         /\ \A i \in 1..Len(active) :
              /\ active[i].id \in STRING /\ active[i].upstreams \in Seq(STRING)
              /\ Len(active[i].upstreams) \in Nat /\ active[i].upstreams # <<>>
              /\ Len(active[i].upstreams) >= 1
              /\ answers[i] \in Seq(BOOLEAN) /\ Len(answers[i]) \in Nat
              /\ DOMAIN answers[i] = 1..Len(answers[i])
         /\ \A w \in DOMAIN worker : worker[w] \in Worker
         /\ next \in 1..(Len(active) + 1) /\ next \in Nat
<1>1. Len(active) \in Nat /\ DOMAIN active = 1..Len(active)
  BY LenProperties DEF HealthTypes
<1>2. \A i \in 1..Len(active) : active[i] \in Checked
  BY <1>1 DEF HealthTypes
<1>3. ASSUME NEW i \in 1..Len(active)
      PROVE  /\ active[i].id \in STRING /\ active[i].upstreams \in Seq(STRING)
             /\ Len(active[i].upstreams) \in Nat /\ active[i].upstreams # <<>>
             /\ Len(active[i].upstreams) >= 1
  <2>1. active[i].id \in STRING /\ active[i].upstreams \in Seq(STRING)
        /\ active[i].upstreams # <<>>
    BY <1>2, <1>3 DEF Checked, Routes
  <2> QED BY <2>1, EmptySeq, LenProperties
<1>4. ASSUME NEW i \in 1..Len(active)
      PROVE  /\ answers[i] \in Seq(BOOLEAN) /\ Len(answers[i]) \in Nat
             /\ DOMAIN answers[i] = 1..Len(answers[i])
  BY <1>4, LenProperties DEF HealthTypes
<1>5. \A w \in DOMAIN worker : worker[w] \in Worker
  BY DEF HealthTypes
<1>6. next \in 1..(Len(active) + 1) /\ next \in Nat
  BY <1>1 DEF HealthTypes
<1> QED BY <1>1, <1>3, <1>4, <1>5, <1>6

LEMMA WorkerSet ==
  ASSUME HealthTypes, NEW w \in DOMAIN worker, NEW r \in Worker,
         worker' = [worker EXCEPT ![w] = r]
  PROVE  /\ DOMAIN worker' = DOMAIN worker /\ worker'[w] = r
         /\ \A v \in DOMAIN worker : v # w => worker'[v] = worker[v]
         /\ \E n \in Nat : worker' \in [1..n -> Worker]
BY DEF HealthTypes

(* A worker goes on with its job.                                          *)
LEMMA Continues ==
  ASSUME HealthInv, NEW w \in DOMAIN worker, NEW r \in Worker,
         worker[w].pc \in Working, r.pc \in Working, r.job = worker[w].job,
         r.status.route = worker[w].status.route,
         worker' = [worker EXCEPT ![w] = r],
         UNCHANGED <<active, next, closed, ctxDone, statuses, returned>>,
         answers' \in [1..Len(active) -> Seq(BOOLEAN)],
         \A i \in 1..Len(active) : i # r.job => answers'[i] = answers[i],
         AskedOf(w)'
  PROVE  HealthInv'
<1>0. HealthTypes /\ Assigned /\ NoneForgotten /\ Ended /\ Asked /\ StatusesTrue
  BY DEF HealthInv
<1>1. /\ DOMAIN worker' = DOMAIN worker /\ worker'[w] = r
      /\ \A v \in DOMAIN worker : v # w => worker'[v] = worker[v]
      /\ \E n \in Nat : worker' \in [1..n -> Worker]
  BY <1>0, WorkerSet
<1>2. HealthTypes'
  BY <1>0, <1>1 DEF HealthTypes
<1>3. /\ Len(active) \in Nat /\ next \in 1..(Len(active) + 1) /\ next \in Nat
  BY <1>0, HealthFacts
<1>4. r.job \in 1..(next - 1) /\ r.job \in 1..Len(active)
      /\ statuses[r.job] = Health!Unset
  BY <1>0, <1>3 DEF Assigned
<1>5. Assigned'
  BY <1>0, <1>1, <1>4 DEF Assigned
<1>6. NoneForgotten'
  <2>1. \A i \in 1..(next - 1) :
          \/ statuses[i].route = active[i].id
          \/ \E v \in DOMAIN worker : worker'[v].pc \in Working /\ worker'[v].job = i
    BY <1>0, <1>1 DEF NoneForgotten
  <2>2. \A i \in 1..Len(active) : i >= next =>
          statuses[i] = Health!Unset /\ answers'[i] = <<>>
    BY <1>0, <1>3, <1>4 DEF NoneForgotten
  <2> QED BY <1>1, <2>1, <2>2 DEF NoneForgotten
<1>7. Ended'
  BY <1>0, <1>1 DEF Ended, Working
<1>8. Asked'
  <2> SUFFICES ASSUME NEW v \in DOMAIN worker, v # w
               PROVE  AskedOf(v)'
    BY <1>1 DEF Asked
  <2>1. worker'[v] = worker[v] /\ AskedOf(v)
    BY <1>0, <1>1 DEF Asked
  <2>2. CASE worker[v].pc \in Working
    <3>1. worker[v].job \in 1..Len(active) /\ worker[v].job # r.job
      BY <1>0, <1>3, <2>2 DEF Assigned
    <3>2. answers'[worker[v].job] = answers[worker[v].job]
      BY <3>1
    <3> QED BY <2>1, <3>2 DEF AskedOf
  <2>3. CASE worker[v].pc \notin Working
    BY <2>1, <2>3 DEF AskedOf, Working
  <2> QED BY <2>2, <2>3
<1>9. StatusesTrue'
  <2> SUFFICES ASSUME NEW i \in 1..Len(active), statuses[i] # Health!Unset
               PROVE  Truth(answers'[i], active[i].upstreams, statuses[i])
    BY DEF StatusesTrue
  <2>1. answers'[i] = answers[i]
    BY <1>4
  <2> QED BY <1>0, <2>1 DEF StatusesTrue
<1> QED BY <1>2, <1>5, <1>6, <1>7, <1>8, <1>9 DEF HealthInv

(* Good answers, and then one that is not.                                 *)
LEMMA Counted ==
  ASSUME NEW s \in Seq(BOOLEAN), \A k \in DOMAIN s : s[k]
  PROVE  /\ Good(s) = 1..Len(s) /\ Good(Append(s, FALSE)) = 1..Len(s)
         /\ Append(s, TRUE) \in Seq(BOOLEAN) /\ Len(Append(s, TRUE)) = Len(s) + 1
         /\ \A k \in DOMAIN Append(s, TRUE) : Append(s, TRUE)[k]
         /\ Good(Append(s, TRUE)) = 1..(Len(s) + 1)
         /\ Append(s, FALSE) \in Seq(BOOLEAN)
<1>2. Len(s) \in Nat /\ DOMAIN s = 1..Len(s)
  BY LenProperties
<1>3. ASSUME NEW b \in BOOLEAN
      PROVE  /\ Append(s, b) \in Seq(BOOLEAN) /\ Len(Append(s, b)) = Len(s) + 1
             /\ DOMAIN Append(s, b) = 1..(Len(s) + 1)
             /\ \A k \in 1..Len(s) : Append(s, b)[k] = s[k]
             /\ Append(s, b)[Len(s) + 1] = b
  BY <1>2, AppendProperties
<1>4. Good(s) = 1..Len(s)
  BY <1>2 DEF Good
<1>5. Good(Append(s, FALSE)) = 1..Len(s)
  <2>1. \A k \in DOMAIN Append(s, FALSE) : Append(s, FALSE)[k] <=> k \in 1..Len(s)
    BY <1>2, <1>3
  <2>2. \A k \in 1..Len(s) : k \in DOMAIN Append(s, FALSE)
    BY <1>2, <1>3
  <2> QED BY <2>1, <2>2 DEF Good
<1>6. \A k \in DOMAIN Append(s, TRUE) : Append(s, TRUE)[k]
  BY <1>2, <1>3
<1>7. Good(Append(s, TRUE)) = 1..(Len(s) + 1)
  BY <1>3, <1>6 DEF Good
<1> QED BY <1>3, <1>4, <1>5, <1>6, <1>7

LEMMA ResultKeeps ==
  ASSUME HealthInv, NEW w \in DOMAIN worker, worker[w].pc \in {"checking", "asking"},
         NEW ok \in BOOLEAN, Health!Result(w, ok),
         \/ ok = FALSE /\ UNCHANGED answers
         \/ answers' = [answers EXCEPT ![worker[w].job] = Append(@, ok)],
         UNCHANGED <<active, next, closed, ctxDone, statuses, returned>>
  PROVE  HealthInv'
<1> DEFINE W == worker[w]
           job == W.job
           n == Len(active[job].upstreams)
<1>0. HealthTypes /\ Assigned /\ AskedOf(w)
  BY DEF HealthInv, Asked
<1>1. /\ W \in Worker /\ job \in 1..Len(active) /\ W.pc \in Working
      /\ W.upstream \in 1..n /\ n \in Nat /\ W.status.healthy
      /\ DOMAIN active[job].upstreams = 1..n
      /\ answers[job] \in Seq(BOOLEAN)
      /\ Len(answers[job]) = W.upstream - 1
      /\ \A k \in DOMAIN answers[job] : answers[job][k]
  <2>1. job \in 1..(next - 1) /\ W.pc \in Working
    BY <1>0 DEF Assigned, Working
  <2>2. W \in Worker /\ job \in 1..Len(active)
    BY <1>0, <2>1, HealthFacts
  <2>3. n \in Nat /\ answers[job] \in Seq(BOOLEAN) /\ DOMAIN active[job].upstreams = 1..n
    BY <1>0, <2>2, HealthFacts, LenProperties
  <2> QED BY <1>0, <2>1, <2>2, <2>3 DEF AskedOf
<1>2. /\ answers' \in [1..Len(active) -> Seq(BOOLEAN)]
      /\ \A i \in 1..Len(active) : i # job => answers'[i] = answers[i]
      /\ \/ answers'[job] = answers[job] /\ ok = FALSE
         \/ answers'[job] = Append(answers[job], ok)
  <2>1. answers \in [1..Len(active) -> Seq(BOOLEAN)]
    BY <1>0 DEF HealthTypes
  <2>2. Append(answers[job], ok) \in Seq(BOOLEAN)
    BY <1>1, AppendProperties
  <2>3. CASE ok = FALSE /\ UNCHANGED answers
    BY <2>1, <2>3
  <2>4. CASE answers' = [answers EXCEPT ![job] = Append(answers[job], ok)]
    <3> HIDE DEF job
    <3> QED BY <1>1, <2>1, <2>2, <2>4
  <2> QED BY <2>3, <2>4
<1>3. CASE ok = FALSE
  <2> DEFINE r == [W EXCEPT !.pc = "storing", !.status.healthy = FALSE,
                            !.status.failed = W.upstream]
  <2>1. worker' = [worker EXCEPT ![w] = r]
    BY <1>3 DEF Health!Result
  <2>2. /\ r \in Worker /\ r.pc = "storing" /\ r.job = job
        /\ r.status.route = W.status.route
        /\ r.status.healthy = FALSE /\ r.status.failed = W.upstream
    BY <1>1 DEF Worker, Status
  <2>3. Good(answers'[job]) = 1..(W.upstream - 1)
    BY <1>1, <1>2, <1>3, Counted
  <2>4. Truth(answers'[job], active[job].upstreams, r.status)
    <3>1. W.upstream \notin 1..(W.upstream - 1) /\ W.upstream \in 1..n
      BY <1>1
    <3> QED BY <1>1, <2>2, <2>3, <3>1 DEF Truth
  <2> HIDE DEF r
  <2>5. worker'[w] = r
    BY <2>1
  <2>6. AskedOf(w)'
    BY <2>2, <2>4, <2>5 DEF AskedOf
  <2> QED BY <1>1, <1>2, <2>1, <2>2, <2>6, Continues DEF Working
<1>4. CASE ok = TRUE /\ W.upstream = n
  <2> DEFINE r == [W EXCEPT !.pc = "storing"]
  <2>1. worker' = [worker EXCEPT ![w] = r]
    <3>1. Health!Result(w, TRUE)
      BY <1>4
    <3> QED BY <1>4, <3>1 DEF Health!Result, Health!Upstreams
  <2>2. r \in Worker /\ r.pc = "storing" /\ r.job = job /\ r.status = W.status
    BY <1>1 DEF Worker
  <2>3. Good(answers'[job]) = 1..W.upstream
    <3>1. answers'[job] = Append(answers[job], TRUE)
      BY <1>2, <1>4
    <3>2. Good(Append(answers[job], TRUE)) = 1..(Len(answers[job]) + 1)
      BY <1>1, Counted
    <3>3. W.upstream \in Nat
      BY <1>1 DEF Worker
    <3>4. Len(answers[job]) + 1 = W.upstream
      BY <1>1, <3>3
    <3> QED BY <3>1, <3>2, <3>4, Zenon
  <2>4. Truth(answers'[job], active[job].upstreams, r.status)
    BY <1>1, <1>4, <2>2, <2>3 DEF Truth
  <2> HIDE DEF r
  <2>5. worker'[w] = r
    BY <2>1
  <2>6. AskedOf(w)'
    BY <2>2, <2>4, <2>5 DEF AskedOf
  <2> QED BY <1>1, <1>2, <2>1, <2>2, <2>6, Continues DEF Working
<1>5. CASE ok = TRUE /\ W.upstream # n
  <2> DEFINE r == [W EXCEPT !.pc = "checking", !.upstream = W.upstream + 1]
  <2>1. worker' = [worker EXCEPT ![w] = r]
    <3>1. Health!Result(w, TRUE)
      BY <1>5
    <3> QED BY <1>5, <3>1 DEF Health!Result, Health!Upstreams
  <2>2. /\ r \in Worker /\ r.pc = "checking" /\ r.job = job /\ r.status = W.status
        /\ r.upstream = W.upstream + 1
    <3>1. W \in Worker /\ W.upstream \in Nat /\ W.upstream + 1 \in Nat
      BY <1>1 DEF Worker
    <3> HIDE DEF W
    <3> QED BY <3>1 DEF Worker
  <2>3. /\ Len(answers'[job]) = r.upstream - 1
        /\ \A k \in DOMAIN answers'[job] : answers'[job][k]
    <3>1. answers'[job] = Append(answers[job], TRUE)
      BY <1>2, <1>5
    <3>2. /\ Len(Append(answers[job], TRUE)) = Len(answers[job]) + 1
          /\ \A k \in DOMAIN Append(answers[job], TRUE) : Append(answers[job], TRUE)[k]
      BY <1>1, Counted
    <3>3. W.upstream \in Nat /\ r.upstream = W.upstream + 1
      BY <1>1, <2>2 DEF Worker
    <3>4. Len(answers[job]) + 1 = r.upstream - 1
      BY <1>1, <3>3
    <3> QED BY <3>1, <3>2, <3>4, Zenon
  <2>4. r.upstream \in 1..n
    BY <1>1, <1>5, <2>2
  <2> HIDE DEF r
  <2>5. worker'[w] = r
    BY <2>1
  <2>6. AskedOf(w)'
    BY <1>1, <2>2, <2>3, <2>4, <2>5 DEF AskedOf
  <2> QED BY <1>1, <1>2, <2>1, <2>2, <2>6, Continues DEF Working
<1> QED BY <1>3, <1>4, <1>5

LEMMA AskingKeeps ==
  ASSUME HealthInv, NEW w \in DOMAIN worker, Health!checkUpstream(w)
  PROVE  HealthInv'
<1> DEFINE W == worker[w]
           r == [W EXCEPT !.pc = "asking"]
<1>0. /\ HealthTypes /\ AskedOf(w) /\ W.pc = "checking" /\ W \in Worker
      /\ UNCHANGED <<active, next, closed, ctxDone, statuses, returned, answers>>
  BY HealthFacts DEF HealthInv, Asked, Health!checkUpstream
<1>1. CASE Health!Result(w, FALSE)
  BY <1>0, <1>1, ResultKeeps
<1>2. CASE worker' = [worker EXCEPT ![w].pc = "asking"]
  <2>1. worker' = [worker EXCEPT ![w] = r]
    BY <1>2
  <2>2. /\ r \in Worker /\ r.pc = "asking" /\ r.job = W.job /\ r.status = W.status
        /\ r.upstream = W.upstream
    <3> HIDE DEF W
    <3> QED BY <1>0 DEF Worker
  <2> HIDE DEF r
  <2>3. worker'[w] = r
    BY <2>1
  <2>4. AskedOf(w)'
    BY <1>0, <2>2, <2>3 DEF AskedOf
  <2>5. answers' \in [1..Len(active) -> Seq(BOOLEAN)]
    BY <1>0 DEF HealthTypes
  <2> QED BY <1>0, <2>1, <2>2, <2>4, <2>5, Continues DEF Working
<1> QED BY <1>1, <1>2 DEF Health!checkUpstream

LEMMA AnswerKeeps ==
  ASSUME HealthInv, NEW w \in DOMAIN worker,
         Health!GiveUp(w) \/ \E ok \in BOOLEAN : Health!Answer(w, ok)
  PROVE  HealthInv'
<1>1. CASE Health!GiveUp(w)
  BY <1>1, ResultKeeps DEF Health!GiveUp
<1>2. CASE \E ok \in BOOLEAN : Health!Answer(w, ok)
  BY <1>2, ResultKeeps DEF Health!Answer
<1> QED BY <1>1, <1>2

(* A worker takes the next job.                                            *)
LEMMA SendKeeps ==
  ASSUME HealthInv, NEW w \in DOMAIN worker, Health!Send(w)
  PROVE  HealthInv'
<1> DEFINE s == [route |-> active[next].id, healthy |-> TRUE, failed |-> 0]
           r == [pc |-> "checking", job |-> next, upstream |-> 1, status |-> s]
<1>0. HealthTypes /\ Assigned /\ NoneForgotten /\ Ended /\ Asked /\ StatusesTrue
  BY DEF HealthInv
<1>1. /\ next \in DOMAIN active /\ worker[w].pc = "receiving" /\ next' = next + 1
      /\ worker' = [worker EXCEPT ![w] = r]
      /\ UNCHANGED <<active, closed, ctxDone, statuses, returned, answers>>
  BY DEF Health!Send, Health!NewStatus, Health!Indexes
<1>2. /\ Len(active) \in Nat /\ next \in 1..Len(active) /\ next \in Nat
      /\ active[next].id \in STRING /\ Len(active[next].upstreams) >= 1
      /\ Len(active[next].upstreams) \in Nat
  BY <1>0, <1>1, HealthFacts
<1>3. s \in Status /\ s.route = active[next].id /\ s.healthy
  BY <1>2 DEF Status
<1>4. r \in Worker /\ r.pc = "checking" /\ r.job = next /\ r.upstream = 1 /\ r.status = s
  <2> HIDE DEF s
  <2> QED BY <1>2, <1>3 DEF Worker
<1> HIDE DEF r, s
<1>5. /\ DOMAIN worker' = DOMAIN worker /\ worker'[w] = r
      /\ \A v \in DOMAIN worker : v # w => worker'[v] = worker[v]
      /\ \E n \in Nat : worker' \in [1..n -> Worker]
  BY <1>0, <1>1, <1>4, WorkerSet
<1>6. statuses[next] = Health!Unset /\ answers[next] = <<>>
  BY <1>0, <1>2 DEF NoneForgotten
<1>7. HealthTypes'
  BY <1>0, <1>1, <1>2, <1>5 DEF HealthTypes
<1>8. Assigned'
  <2>1. \A v \in DOMAIN worker : v # w /\ worker[v].pc \in Working =>
          worker[v].job \in 1..(next - 1)
    BY <1>0 DEF Assigned
  <2>2. next \in 1..((next + 1) - 1) /\ next \notin 1..(next - 1)
        /\ \A i \in 1..(next - 1) : i \in 1..((next + 1) - 1)
    BY <1>2
  <2> QED BY <1>0, <1>1, <1>3, <1>4, <1>5, <1>6, <2>1, <2>2 DEF Assigned
<1>9. NoneForgotten'
  <2>1. \A i \in 1..(next' - 1) :
          \/ statuses[i].route = active[i].id
          \/ \E v \in DOMAIN worker : worker'[v].pc \in Working /\ worker'[v].job = i
    <3> SUFFICES ASSUME NEW i \in 1..(next' - 1), statuses[i].route # active[i].id
                 PROVE  \E v \in DOMAIN worker :
                          worker'[v].pc \in Working /\ worker'[v].job = i
      OBVIOUS
    <3>1. CASE i = next
      BY <1>4, <1>5, <3>1 DEF Working
    <3>2. CASE i # next
      <4>1. i \in 1..(next - 1)
        BY <1>1, <1>2, <3>2
      <4>2. PICK v \in DOMAIN worker : worker[v].pc \in Working /\ worker[v].job = i
        BY <1>0, <4>1 DEF NoneForgotten
      <4>3. v # w
        BY <1>1, <4>2 DEF Working
      <4> QED BY <1>5, <4>2, <4>3
    <3> QED BY <3>1, <3>2
  <2>2. \A i \in 1..Len(active) : i >= next' =>
          statuses[i] = Health!Unset /\ answers[i] = <<>>
    BY <1>0, <1>1, <1>2 DEF NoneForgotten
  <2> QED BY <1>1, <1>5, <2>1, <2>2 DEF NoneForgotten
<1>10. Ended'
  BY <1>0, <1>1, <1>2 DEF Ended
<1>11. Asked'
  <2>1. AskedOf(w)'
    <3>1. Len(<<>>) = 0 /\ DOMAIN <<>> = {}
      OBVIOUS
    <3> QED BY <1>1, <1>2, <1>3, <1>4, <1>5, <1>6, <3>1 DEF AskedOf
  <2>2. ASSUME NEW v \in DOMAIN worker, v # w
        PROVE  AskedOf(v)'
    <3>1. worker'[v] = worker[v] /\ AskedOf(v)
      BY <1>0, <1>5, <2>2 DEF Asked
    <3> QED BY <1>1, <3>1 DEF AskedOf
  <2> QED BY <1>5, <2>1, <2>2 DEF Asked
<1>12. StatusesTrue'
  BY <1>0, <1>1 DEF StatusesTrue
<1> QED BY <1>7, <1>8, <1>9, <1>10, <1>11, <1>12 DEF HealthInv

(* A worker without a job any more, or gone.                               *)
LEMMA StoreKeeps ==
  ASSUME HealthInv, NEW w \in DOMAIN worker, Health!Store(w)
  PROVE  HealthInv'
<1> DEFINE W == worker[w]
           r == [W EXCEPT !.pc = "receiving"]
           job == W.job
<1>0. HealthTypes /\ Assigned /\ NoneForgotten /\ Ended /\ Asked /\ StatusesTrue
  BY DEF HealthInv
<1>1. /\ W.pc = "storing" /\ worker' = [worker EXCEPT ![w] = r]
      /\ statuses' = [statuses EXCEPT ![job] = W.status]
      /\ UNCHANGED <<active, next, closed, ctxDone, returned, answers>>
  BY DEF Health!Store
<1>2. /\ W \in Worker /\ Len(active) \in Nat /\ next \in 1..(Len(active) + 1)
      /\ next \in Nat /\ job \in 1..(next - 1) /\ job \in 1..Len(active)
      /\ W.status.route = active[job].id
  <2>1. W \in Worker /\ Len(active) \in Nat /\ next \in 1..(Len(active) + 1)
        /\ next \in Nat
    BY <1>0, HealthFacts
  <2>2. job \in 1..(next - 1) /\ W.status.route = active[job].id
    BY <1>0, <1>1 DEF Assigned, Working
  <2> QED BY <2>1, <2>2
<1>3. r \in Worker /\ r.pc = "receiving" /\ W.status \in Status
  <2> HIDE DEF W
  <2> QED BY <1>2 DEF Worker
<1> HIDE DEF r
<1>4. /\ DOMAIN worker' = DOMAIN worker /\ worker'[w] = r
      /\ \A v \in DOMAIN worker : v # w => worker'[v] = worker[v]
      /\ \E n \in Nat : worker' \in [1..n -> Worker]
  BY <1>0, <1>1, <1>3, WorkerSet
<1>5. /\ statuses' \in [1..Len(active) -> Status] /\ statuses'[job] = W.status
      /\ \A i \in 1..Len(active) : i # job => statuses'[i] = statuses[i]
  <2> HIDE DEF job, W
  <2> QED BY <1>0, <1>1, <1>2, <1>3 DEF HealthTypes
<1>6. HealthTypes'
  BY <1>0, <1>1, <1>4, <1>5 DEF HealthTypes
<1>7. ASSUME NEW v \in DOMAIN worker, worker'[v].pc \in Working
      PROVE  /\ v # w /\ worker'[v] = worker[v] /\ worker[v].job # job
             /\ worker[v].job \in 1..(next - 1) /\ worker[v].job \in 1..Len(active)
  <2>1. v # w /\ worker'[v] = worker[v]
    BY <1>3, <1>4, <1>7 DEF Working
  <2>2. worker[v].job # job /\ worker[v].job \in 1..(next - 1)
    BY <1>0, <1>1, <1>7, <2>1 DEF Assigned, Working
  <2> QED BY <1>2, <2>1, <2>2
<1>8. Assigned'
  BY <1>0, <1>1, <1>4, <1>5, <1>7 DEF Assigned
<1>9. NoneForgotten'
  <2>1. \A i \in 1..(next - 1) :
          \/ statuses'[i].route = active[i].id
          \/ \E v \in DOMAIN worker : worker'[v].pc \in Working /\ worker'[v].job = i
    <3> SUFFICES ASSUME NEW i \in 1..(next - 1), statuses'[i].route # active[i].id
                 PROVE  \E v \in DOMAIN worker :
                          worker'[v].pc \in Working /\ worker'[v].job = i
      OBVIOUS
    <3>1. i # job /\ i \in 1..Len(active) /\ statuses'[i] = statuses[i]
      BY <1>2, <1>5
    <3>2. PICK v \in DOMAIN worker : worker[v].pc \in Working /\ worker[v].job = i
      BY <1>0, <3>1 DEF NoneForgotten
    <3> QED BY <1>4, <3>1, <3>2
  <2>2. \A i \in 1..Len(active) : i >= next =>
          statuses'[i] = Health!Unset /\ answers[i] = <<>>
    BY <1>0, <1>2, <1>5 DEF NoneForgotten
  <2> QED BY <1>1, <1>4, <2>1, <2>2 DEF NoneForgotten
<1>10. Ended'
  BY <1>0, <1>1 DEF Ended
<1>11. Asked'
  <2> SUFFICES ASSUME NEW v \in DOMAIN worker
               PROVE  AskedOf(v)'
    BY <1>4 DEF Asked
  <2>1. CASE worker'[v].pc \in Working
    <3>1. worker'[v] = worker[v] /\ AskedOf(v)
      BY <1>0, <1>7, <2>1 DEF Asked
    <3> QED BY <1>1, <3>1 DEF AskedOf
  <2>2. CASE worker'[v].pc \notin Working
    BY <2>2 DEF AskedOf, Working
  <2> QED BY <2>1, <2>2
<1>12. StatusesTrue'
  <2>1. Truth(answers[job], active[job].upstreams, W.status)
    BY <1>0, <1>1 DEF Asked, AskedOf
  <2> QED BY <1>0, <1>1, <1>2, <1>5, <2>1 DEF StatusesTrue
<1> QED BY <1>6, <1>8, <1>9, <1>10, <1>11, <1>12 DEF HealthInv

LEMMA ExitKeeps ==
  ASSUME HealthInv, NEW w \in DOMAIN worker, Health!Exit(w)
  PROVE  HealthInv'
<1> DEFINE W == worker[w]
           r == [W EXCEPT !.pc = "exited"]
<1>0. HealthTypes /\ Assigned /\ NoneForgotten /\ Ended /\ Asked /\ StatusesTrue
  BY DEF HealthInv
<1>1. /\ W.pc = "receiving" /\ worker' = [worker EXCEPT ![w] = r]
      /\ UNCHANGED <<active, next, closed, ctxDone, statuses, returned, answers>>
  BY DEF Health!Exit
<1>2. r \in Worker /\ r.pc = "exited"
  <2>1. W \in Worker
    BY <1>0, HealthFacts
  <2> HIDE DEF W
  <2> QED BY <2>1 DEF Worker
<1> HIDE DEF r
<1>3. /\ DOMAIN worker' = DOMAIN worker /\ worker'[w] = r
      /\ \A v \in DOMAIN worker : v # w => worker'[v] = worker[v]
      /\ \E n \in Nat : worker' \in [1..n -> Worker]
  BY <1>0, <1>1, <1>2, WorkerSet
<1>4. HealthTypes'
  BY <1>0, <1>1, <1>3 DEF HealthTypes
<1>5. \A v \in DOMAIN worker :
        /\ worker'[v].pc \in Working => worker'[v] = worker[v]
        /\ worker[v].pc \in Working => worker'[v] = worker[v]
        /\ worker'[v] = worker[v] \/ worker'[v].pc = "exited"
  BY <1>1, <1>2, <1>3 DEF Working
<1>6. Assigned'
  BY <1>0, <1>1, <1>3, <1>5 DEF Assigned
<1>7. NoneForgotten'
  <2>1. \A i \in 1..(next - 1) :
          \/ statuses[i].route = active[i].id
          \/ \E v \in DOMAIN worker : worker'[v].pc \in Working /\ worker'[v].job = i
    BY <1>0, <1>5 DEF NoneForgotten
  <2> QED BY <1>0, <1>1, <1>3, <2>1 DEF NoneForgotten
<1>8. Ended'
  BY <1>0, <1>1, <1>3, <1>5 DEF Ended
<1>9. Asked'
  <2> SUFFICES ASSUME NEW v \in DOMAIN worker
               PROVE  AskedOf(v)'
    BY <1>3 DEF Asked
  <2>1. CASE worker'[v] = worker[v]
    BY <1>0, <1>1, <2>1 DEF Asked, AskedOf
  <2>2. CASE worker'[v].pc = "exited"
    BY <2>2 DEF AskedOf
  <2> QED BY <1>5, <2>1, <2>2
<1>10. StatusesTrue'
  BY <1>0, <1>1 DEF StatusesTrue
<1> QED BY <1>4, <1>6, <1>7, <1>8, <1>9, <1>10 DEF HealthInv

(* The caller closes the channel or returns, or the context ends.          *)
LEMMA CallerKeeps ==
  ASSUME HealthInv, UNCHANGED <<active, next, worker, statuses, answers>>,
         closed' \in BOOLEAN, ctxDone' \in BOOLEAN, returned' \in BOOLEAN, Ended'
  PROVE  HealthInv'
<1>0. HealthTypes /\ Assigned /\ NoneForgotten /\ Asked /\ StatusesTrue
  BY DEF HealthInv
<1>1. HealthTypes' /\ Assigned' /\ NoneForgotten' /\ StatusesTrue'
  BY <1>0 DEF HealthTypes, Assigned, NoneForgotten, StatusesTrue
<1>2. Asked'
  BY <1>0 DEF Asked, AskedOf
<1> QED BY <1>1, <1>2 DEF HealthInv

LEMMA HealthNext ==
  ASSUME HealthInv, Health!Next
  PROVE  HealthInv'
<1>0. HealthTypes /\ Ended
  BY DEF HealthInv
<1>1. CASE \E w \in DOMAIN worker : \/ Health!Send(w) \/ Health!Work(w)
                                    \/ \E ok \in BOOLEAN : Health!Answer(w, ok)
  BY <1>1, SendKeeps, AskingKeeps, AnswerKeeps, StoreKeeps, ExitKeeps DEF Health!Work
<1>2. CASE Health!Close
  <2>1. next = Len(active) + 1
    BY <1>0, <1>2, HealthFacts DEF Health!Close, Health!Indexes
  <2> QED BY <1>0, <1>2, <2>1, CallerKeeps DEF Health!Close, HealthTypes, Ended
<1>3. CASE Health!Cancel
  BY <1>0, <1>3, CallerKeeps DEF Health!Cancel, HealthTypes, Ended
<1>4. CASE Health!Return
  BY <1>0, <1>4, CallerKeeps DEF Health!Return, Health!Waited, HealthTypes, Ended
<1> QED BY <1>1, <1>2, <1>3, <1>4 DEF Health!Next

LEMMA HealthStep ==
  ASSUME [ServicesNext]_all
  PROVE  Health!Next \/ UNCHANGED healthVars
BY DEF ServicesNext, all

(* However the workers of Checker.Check share the routes, and whenever the *)
(* context ends, the report is complete and each status says what the      *)
(* upstreams of its own route did.                                         *)
THEOREM TrueStatuses == ServicesSpec => []StatusHonest
<1>1. HealthInv /\ [ServicesNext]_all => HealthInv'
  <2>1. ASSUME HealthInv, UNCHANGED healthVars
        PROVE  HealthInv'
    <3>1. HealthTypes /\ Ended
      BY <2>1 DEF HealthInv
    <3> QED BY <2>1, <3>1, CallerKeeps DEF healthVars, HealthTypes, Ended
  <2> QED BY <2>1, HealthStep, HealthNext
<1>2. ASSUME HealthInv
      PROVE  StatusHonest
  <2>0. HealthTypes /\ Assigned /\ NoneForgotten /\ Ended /\ StatusesTrue
    BY <1>2 DEF HealthInv
  <2>1. Len(active) \in Nat /\ DOMAIN active = 1..Len(active)
    BY <2>0, HealthFacts
  <2>2. Health!ReportComplete
    <3> SUFFICES ASSUME returned, NEW i \in 1..Len(active)
                 PROVE  statuses[i].route = active[i].id
      BY <2>1 DEF Health!ReportComplete, Health!Indexes
    <3>1. \A w \in DOMAIN worker : worker[w].pc \notin Working
      BY <2>0 DEF Ended, Working
    <3>2. i \in 1..(next - 1)
      BY <2>0, <2>1 DEF Ended
    <3> QED BY <2>0, <3>1, <3>2 DEF NoneForgotten
  <2>3. Health!StatusTrue
    BY <2>0, <2>1 DEF StatusesTrue, Truth, Good, Health!StatusTrue, Health!Indexes
  <2> QED BY <2>2, <2>3 DEF StatusHonest, Health!StatusHonest
<1> QED BY <1>1, <1>2, HealthStarts, Steps, PTL

----------------------------------------------------------------------------
(* Sums.                                                                   *)

LEMMA TotalUnfolds ==
  ASSUME NEW s \in Seq(Nat)
  PROVE  \E f \in [0..Len(s) -> Nat] :
           /\ f[0] = 0 /\ \A n \in 1..Len(s) : f[n] = f[n - 1] + s[n]
           /\ Total(s) = f[Len(s)]
<1> DEFINE L == Len(s)
           body(f) == [n \in 0..L |-> IF n = 0 THEN 0 ELSE f[n - 1] + s[n]]
           upTo == CHOOSE f : f = body(f)
           step == [n \in 1..L |-> [m \in Nat |-> m + s[n]]]
<1>1. L \in Nat /\ \A n \in 1..L : s[n] \in Nat
  BY LenProperties
<1>2. step \in [1..L -> [Nat -> Nat]]
  BY <1>1
<1>3. PICK g : Follows(g, L, Nat, 0, step)
  <2> HIDE DEF step
  <2> QED BY <1>1, <1>2, RecursionUpTo
<1>4. g \in [0..L -> Nat] /\ g[0] = 0 /\ \A n \in 1..L : g[n] = g[n - 1] + s[n]
  <2>1. g \in [0..L -> Nat] /\ g[0] = 0 /\ \A n \in 1..L : g[n] = step[n][g[n - 1]]
    <3> HIDE DEF step, L
    <3> QED BY <1>3 DEF Follows
  <2>2. ASSUME NEW n \in 1..L
        PROVE  g[n] = g[n - 1] + s[n]
    <3>1. g[n - 1] \in Nat
      <4>1. n - 1 \in 0..L
        BY <1>1
      <4> HIDE DEF L, step
      <4> QED BY <2>1, <4>1
    <3>2. step[n] = [m \in Nat |-> m + s[n]]
      OBVIOUS
    <3> HIDE DEF step, L
    <3>3. g[n] = step[n][g[n - 1]]
      BY <2>1
    <3>4. step[n][g[n - 1]] = g[n - 1] + s[n]
      BY <3>1, <3>2
    <3> QED BY <3>3, <3>4
  <2> QED BY <2>1, <2>2
<1>5. g = body(g)
  BY <1>4
<1>6. upTo = body(upTo)
  <2> HIDE DEF body
  <2> QED BY <1>5
<1>7. Total(s) = upTo[L]
  BY DEF Total
<1> DEFINE P == {n \in Nat : n <= L => upTo[n] = g[n]}
<1> HIDE DEF upTo, L
<1>8. 0 \in P
  BY <1>1, <1>4, <1>6
<1>9. ASSUME NEW n \in Nat, n \in P, n + 1 <= L
      PROVE  upTo[n + 1] = g[n + 1]
  <2>1. n + 1 \in 1..L /\ n + 1 \in 0..L /\ n + 1 # 0 /\ (n + 1) - 1 = n
    BY <1>1, <1>9
  <2>2. upTo[n + 1] = body(upTo)[n + 1]
    <3> HIDE DEF body
    <3> QED BY <1>6
  <2>3. body(upTo)[n + 1] = upTo[(n + 1) - 1] + s[n + 1]
    BY <2>1
  <2>4. upTo[n] = g[n] /\ g[n + 1] = g[n] + s[n + 1]
    BY <1>1, <1>4, <1>9, <2>1
  <2> QED BY <2>1, <2>2, <2>3, <2>4
<1>10. Nat \subseteq P
  <2>1. \A n \in Nat : n \in P => n + 1 \in P
    BY <1>9
  <2> HIDE DEF P
  <2> QED BY <1>8, <2>1, SetInduction
<1> QED BY <1>1, <1>4, <1>7, <1>10 DEF L

LEMMA TotalNat ==
  ASSUME NEW s \in Seq(Nat) PROVE Total(s) \in Nat
<1>1. Len(s) \in Nat
  BY LenProperties
<1> QED BY <1>1, TotalUnfolds

LEMMA TotalEmpty == Total(<<>>) = 0
<1>1. <<>> \in Seq(Nat) /\ Len(<<>>) = 0
  BY EmptySeq
<1> QED BY <1>1, TotalUnfolds

LEMMA TotalAppend ==
  ASSUME NEW s \in Seq(Nat), NEW x \in Nat
  PROVE  Total(Append(s, x)) = Total(s) + x
<1> DEFINE L == Len(s)
           t == Append(s, x)
<1>1. /\ L \in Nat /\ t \in Seq(Nat) /\ Len(t) = L + 1 /\ t[L + 1] = x
      /\ \A n \in 1..L : t[n] = s[n]
  BY LenProperties, AppendProperties
<1>2. PICK f \in [0..L -> Nat] :
        f[0] = 0 /\ (\A n \in 1..L : f[n] = f[n - 1] + s[n]) /\ Total(s) = f[L]
  BY TotalUnfolds
<1>3. PICK g \in [0..(L + 1) -> Nat] :
        /\ g[0] = 0 /\ (\A n \in 1..(L + 1) : g[n] = g[n - 1] + t[n])
        /\ Total(t) = g[L + 1]
  <2> HIDE DEF t
  <2> QED BY <1>1, TotalUnfolds
<1> DEFINE P == {n \in Nat : n <= L => f[n] = g[n]}
<1> HIDE DEF L, t
<1>4. 0 \in P
  BY <1>2, <1>3
<1>5. \A n \in Nat : n \in P => n + 1 \in P
  <2> SUFFICES ASSUME NEW n \in Nat, n \in P, n + 1 <= L PROVE f[n + 1] = g[n + 1]
    OBVIOUS
  <2>1. n + 1 \in 1..L /\ n + 1 \in 1..(L + 1) /\ (n + 1) - 1 = n /\ f[n] = g[n]
    BY <1>1
  <2> QED BY <1>1, <1>2, <1>3, <2>1
<1>6. f[L] = g[L]
  <2>1. Nat \subseteq P
    <3> HIDE DEF P
    <3> QED BY <1>4, <1>5, SetInduction
  <2> QED BY <1>1, <2>1
<1>7. g[L + 1] = g[L] + x
  <2>1. L + 1 \in 1..(L + 1) /\ (L + 1) - 1 = L
    BY <1>1
  <2> QED BY <1>1, <1>3, <2>1
<1> QED BY <1>2, <1>3, <1>6, <1>7 DEF t

(* A sequence but for its last element.                                    *)
LEMMA PartLonger ==
  ASSUME NEW S, NEW s \in Seq(S), NEW a \in 1..(Len(s) + 1), NEW m \in (a - 1)..(Len(s) - 1)
  PROVE  /\ SubSeq(s, a, m) \in Seq(S)
         /\ SubSeq(s, a, m + 1) = Append(SubSeq(s, a, m), s[m + 1])
         /\ s[m + 1] \in S
<1>1. Len(s) \in Nat /\ \A i \in 1..Len(s) : s[i] \in S
  BY LenProperties
<1> DEFINE t == SubSeq(s, a, m)
           u == SubSeq(s, a, m + 1)
<1>2. /\ t \in Seq(S) /\ Len(t) = m - a + 1
      /\ \A i \in 1..(m - a + 1) : t[i] = s[a + i - 1]
  BY <1>1, SubSeqProperties
<1>3. /\ u \in Seq(S) /\ Len(u) = m - a + 2
      /\ \A i \in 1..(m - a + 2) : u[i] = s[a + i - 1]
  <2>1. (m + 1) - a + 1 = m - a + 2 /\ m + 1 \in Int /\ a <= m + 1
        /\ \A i \in a..(m + 1) : s[i] \in S
    BY <1>1
  <2> QED BY <1>1, <2>1, SubSeqProperties
<1> HIDE DEF t, u
<1>4. s[m + 1] \in S /\ Append(t, s[m + 1]) \in Seq(S)
  BY <1>1, <1>2
<1>5. u = Append(t, s[m + 1])
  <2>1. /\ Len(Append(t, s[m + 1])) = m - a + 2
        /\ Append(t, s[m + 1])[m - a + 2] = s[m + 1]
        /\ \A i \in 1..(m - a + 1) : Append(t, s[m + 1])[i] = t[i]
    BY <1>2, <1>4, AppendProperties
  <2>2. ASSUME NEW i \in 1..(m - a + 2)
        PROVE  u[i] = Append(t, s[m + 1])[i]
    <3>1. u[i] = s[a + i - 1]
      BY <1>3
    <3>2. CASE i = m - a + 2
      <4>1. a + i - 1 = m + 1
        BY <3>2
      <4> QED BY <2>1, <3>1, <3>2, <4>1
    <3>3. CASE i # m - a + 2
      <4>1. i \in 1..(m - a + 1)
        BY <3>3
      <4> QED BY <1>2, <2>1, <3>1, <4>1
    <3> QED BY <3>2, <3>3
  <2> QED BY <1>3, <1>4, <2>1, <2>2, SeqEqual
<1> QED BY <1>2, <1>4, <1>5 DEF t, u

(* A sum in two parts.                                                     *)
LEMMA TotalParts ==
  ASSUME NEW s \in Seq(Nat), NEW k \in 0..Len(s)
  PROVE  /\ SubSeq(s, 1, k) \in Seq(Nat) /\ SubSeq(s, k + 1, Len(s)) \in Seq(Nat)
         /\ Total(s) = Total(SubSeq(s, 1, k)) + Total(SubSeq(s, k + 1, Len(s)))
<1> DEFINE L == Len(s)
           front == SubSeq(s, 1, k)
           Q(m) == /\ SubSeq(s, 1, m) \in Seq(Nat)
                   /\ SubSeq(s, k + 1, m) \in Seq(Nat)
                   /\ Total(SubSeq(s, 1, m)) = Total(front) + Total(SubSeq(s, k + 1, m))
           P == {n \in Nat : k + n <= L => Q(k + n)}
<1>1. L \in Nat /\ k \in Nat /\ k <= L /\ \A n \in 1..L : s[n] \in Nat
  BY LenProperties
<1>2. front \in Seq(Nat)
  BY <1>1, SubSeqProperties
<1>3. 0 \in P
  <2>1. SubSeq(s, k + 1, k + 0) = <<>>
    BY <1>1, SubSeqEmpty
  <2>2. SubSeq(s, 1, k + 0) = front
    BY <1>1
  <2> HIDE DEF front
  <2>3. Total(front) \in Nat /\ <<>> \in Seq(Nat)
    BY <1>2, TotalNat, EmptySeq
  <2>4. Total(front) = Total(front) + Total(<<>>)
    BY <2>3, TotalEmpty
  <2> QED BY <1>2, <2>1, <2>2, <2>3, <2>4
<1>4. \A n \in Nat : n \in P => n + 1 \in P
  <2> SUFFICES ASSUME NEW n \in Nat, n \in P, k + (n + 1) <= L PROVE Q(k + (n + 1))
    <3> HIDE DEF Q
    <3> QED OBVIOUS
  <2> DEFINE a == SubSeq(s, 1, k + n)
             b == SubSeq(s, k + 1, k + n)
             x == s[k + n + 1]
  <2>1. a \in Seq(Nat) /\ b \in Seq(Nat) /\ Total(a) = Total(front) + Total(b)
    BY <1>1
  <2>2. x \in Nat /\ SubSeq(s, 1, k + n + 1) = Append(a, x)
    <3>1. 1 \in 1..(L + 1) /\ k + n \in (1 - 1)..(L - 1)
      BY <1>1
    <3> QED BY <3>1, PartLonger
  <2>3. SubSeq(s, k + 1, k + n + 1) = Append(b, x)
    <3>1. k + 1 \in 1..(L + 1) /\ k + n \in ((k + 1) - 1)..(L - 1)
      BY <1>1
    <3> QED BY <3>1, PartLonger
  <2> HIDE DEF a, b, x, front
  <2>4. Total(Append(a, x)) = Total(front) + Total(Append(b, x))
    <3>1. Total(front) \in Nat /\ Total(b) \in Nat
      BY <1>2, <2>1, TotalNat
    <3> QED BY <2>1, <2>2, <3>1, TotalAppend
  <2>5. Append(a, x) \in Seq(Nat) /\ Append(b, x) \in Seq(Nat) /\ k + (n + 1) = k + n + 1
    BY <1>1, <2>1, <2>2
  <2>6. /\ SubSeq(s, 1, k + (n + 1)) = Append(a, x)
        /\ SubSeq(s, k + 1, k + (n + 1)) = Append(b, x)
    BY <2>2, <2>3, <2>5
  <2> QED BY <2>4, <2>5, <2>6
<1>5. L - k \in P
  <2>1. Nat \subseteq P
    <3> HIDE DEF P
    <3> QED BY <1>3, <1>4, SetInduction
  <2> HIDE DEF P
  <2> QED BY <1>1, <2>1
<1>6. k + (L - k) = L /\ SubSeq(s, 1, L) = s
  BY <1>1, SubSeqFull
<1>7. Q(L)
  <2> HIDE DEF Q, L
  <2> QED BY <1>1, <1>5, <1>6
<1>8. /\ SubSeq(s, k + 1, L) \in Seq(Nat)
      /\ Total(s) = Total(front) + Total(SubSeq(s, k + 1, L))
  BY <1>6, <1>7
<1> QED BY <1>2, <1>8

----------------------------------------------------------------------------
(* Positions in the ring.                                                  *)

LEMMA ModRange ==
  ASSUME NEW a \in Nat, NEW L \in Nat \ {0}
  PROVE  a % L \in 0..(L - 1) /\ \E q \in Int : a = L * q + (a % L)
<1>1. a % L \in 0..(L - 1)
  OBVIOUS
<1>2. a \div L \in Int /\ a = L * (a \div L) + (a % L)
  OBVIOUS
<1> QED BY <1>1, <1>2

LEMMA ModUnique ==
  ASSUME NEW L \in Nat \ {0}, NEW q \in Int, NEW r \in 0..(L - 1), NEW a \in Nat,
         a = L * q + r
  PROVE  a % L = r
OBVIOUS

LEMMA ModShift ==
  ASSUME NEW a \in Nat, NEW b \in Nat, NEW L \in Nat \ {0}
  PROVE  ((a % L) + b) % L = (a + b) % L
<1> DEFINE r == a % L
           t == (a + b) % L
<1>1. PICK q \in Int : a = L * q + r
  BY ModRange
<1>2. PICK p \in Int : a + b = L * p + t
  <2>1. a + b \in Nat
    OBVIOUS
  <2> QED BY <2>1, ModRange
<1>3. r \in Nat /\ t \in 0..(L - 1)
  BY ModRange
<1> HIDE DEF r, t
<1>4. r + b = L * (p - q) + t
  <2>1. L * (p - q) = L * p - L * q
    OBVIOUS
  <2> QED BY <1>1, <1>2, <1>3, <2>1
<1>5. r + b \in Nat /\ p - q \in Int
  BY <1>3
<1>6. (r + b) % L = t
  <2>1. PICK c \in Nat : c = r + b
    BY <1>5
  <2>2. PICK d \in Int : d = p - q
    OBVIOUS
  <2>3. c = L * d + t
    BY <1>4, <2>1, <2>2
  <2>4. c % L = t
    BY <1>3, <2>3, ModUnique
  <2> QED BY <2>1, <2>4
<1> QED BY <1>6 DEF r, t

LEMMA ModApart ==
  ASSUME NEW a \in Nat, NEW b \in Nat, NEW L \in Nat \ {0}, a < b, b - a < L
  PROVE  a % L # b % L
<1> SUFFICES ASSUME a % L = b % L PROVE FALSE
  OBVIOUS
<1> DEFINE r == a % L
<1>1. PICK q \in Int : a = L * q + r
  BY ModRange
<1>2. PICK p \in Int : b = L * p + r
  BY ModRange
<1>3. r \in Nat
  BY ModRange
<1> HIDE DEF r
<1>4. b - a = L * (p - q)
  <2>1. L * (p - q) = L * p - L * q
    OBVIOUS
  <2> QED BY <1>1, <1>2, <1>3, <2>1
<1>5. PICK d \in Int : d = p - q
  OBVIOUS
<1>6. CASE d >= 1
  <2>1. L * d >= L
    BY <1>6
  <2> QED BY <1>4, <1>5, <2>1
<1>7. CASE d <= 0
  <2>1. L * d <= 0
    BY <1>7
  <2> QED BY <1>4, <1>5, <2>1
<1> QED BY <1>6, <1>7

LEMMA ModTurn ==
  ASSUME NEW a \in Nat, NEW L \in Nat \ {0}
  PROVE  (a + L) % L = a % L
<1> DEFINE r == a % L
<1>1. PICK q \in Int : a = L * q + r
  BY ModRange
<1>2. r \in 0..(L - 1)
  BY ModRange
<1> HIDE DEF r
<1>3. a + L = L * (q + 1) + r
  <2>1. L * (q + 1) = L * q + L
    OBVIOUS
  <2> QED BY <1>1, <1>2, <2>1
<1>4. (a + L) % L = r
  <2>1. PICK c \in Nat : c = a + L
    OBVIOUS
  <2>2. PICK d \in Int : d = q + 1
    OBVIOUS
  <2>3. c = L * d + r
    BY <1>3, <2>1, <2>2
  <2>4. c % L = r
    BY <1>2, <2>3, ModUnique
  <2> QED BY <2>1, <2>4
<1> QED BY <1>4 DEF r

LEMMA ModSmall ==
  ASSUME NEW L \in Nat \ {0}, NEW a \in 0..(L - 1)
  PROVE  a % L = a
<1>1. a = L * 0 + a
  OBVIOUS
<1> QED BY <1>1, ModUnique

(* The least and the greatest of a set.                                    *)
LEMMA LeastIs ==
  ASSUME NEW S, NEW m \in S, \A x \in S : x \in Int, \A x \in S : m <= x
  PROVE  Min(S) = m
<1>1. m \in S /\ \A y \in S : m <= y
  OBVIOUS
<1>2. Min(S) \in S /\ \A y \in S : Min(S) <= y
  BY <1>1 DEF Min
<1>3. Min(S) <= m /\ m <= Min(S) /\ m \in Int /\ Min(S) \in Int
  BY <1>2
<1> QED BY <1>3

LEMMA LeastOfTwo ==
  ASSUME NEW a \in Int, NEW b \in Int
  PROVE  Min({a, b}) = IF a <= b THEN a ELSE b
<1>1. CASE a <= b
  BY <1>1, LeastIs
<1>2. CASE ~(a <= b)
  BY <1>2, LeastIs
<1> QED BY <1>1, <1>2

LEMMA GreatestIs ==
  ASSUME NEW S, NEW m \in S, \A x \in S : x \in Int, \A x \in S : x <= m
  PROVE  Max(S) = m
<1>1. m \in S /\ \A y \in S : m >= y
  OBVIOUS
<1>2. Max(S) \in S /\ \A y \in S : Max(S) >= y
  BY <1>1 DEF Max
<1>3. Max(S) >= m /\ m >= Max(S) /\ m \in Int /\ Max(S) \in Int
  BY <1>2
<1> QED BY <1>3

LEMMA LeastExists ==
  ASSUME NEW S, S \subseteq Nat, S # {}
  PROVE  Min(S) \in S /\ \A x \in S : Min(S) <= x
<1> DEFINE R == {ss \in Nat \X Nat : ss[1] < ss[2]}
<1>1. IsWellFoundedOn(R, Nat)
  BY NatLessThanWellFounded DEF OpToRel
<1>2. \E x \in S : \A y \in S : ~(<<y, x>> \in R)
  <2> HIDE DEF R
  <2> QED BY <1>1, WFMin
<1>3. PICK x \in S : \A y \in S : ~(<<y, x>> \in R)
  BY <1>2
<1>4. ASSUME NEW y \in S
      PROVE  x <= y
  <2>1. x \in Nat /\ y \in Nat
    OBVIOUS
  <2>2. ~(y < x)
    BY <1>3, <2>1
  <2> QED BY <2>1, <2>2
<1>5. Min(S) = x
  <2>1. \A y \in S : y \in Int
    OBVIOUS
  <2> QED BY <1>4, <2>1, LeastIs
<1> QED BY <1>4, <1>5

LEMMA GreatestExists ==
  ASSUME NEW n \in Nat, NEW S \in SUBSET (0..n), S # {}
  PROVE  \E m \in S : \A x \in S : x <= m
<1> DEFINE T == {y \in Nat : \E x \in S : y = n - x}
<1>5. \A x \in S : n - x \in Nat /\ x \in Nat
  OBVIOUS
<1>1. T \subseteq Nat /\ T # {} /\ \A x \in S : n - x \in T
  BY <1>5
<1>2. PICK y \in T : \A z \in T : y <= z
  <2> HIDE DEF T
  <2> QED BY <1>1, LeastExists
<1>3. PICK m \in S : y = n - m
  OBVIOUS
<1>4. ASSUME NEW x \in S
      PROVE  x <= m
  <2>1. n - m <= n - x
    BY <1>1, <1>2, <1>3
  <2>2. x \in Nat /\ m \in Nat
    BY <1>5
  <2> QED BY <2>1, <2>2
<1> QED BY <1>4

----------------------------------------------------------------------------
(* The runtime log.                                                        *)

SizesOf(s) == [i \in DOMAIN s |-> s[i].size]

(* The slots in use hold entries, whose sizes are beside them.             *)
Ringed ==
  \A k \in 0..(count - 1) :
    entries[Slot(k)] \in Entry /\ sizes[Slot(k)] = entries[Slot(k)].size

(* The rest of a line that is too long is being dropped.                   *)
Dropped ==
  \A w \in Writers : dropping[w] <=> received[w] > MaxLine

LogInv == TypeOK /\ Ringed /\ BytesExact /\ LinesWhole /\ Dropped

LEMMA SlotRange ==
  ASSUME TypeOK, NEW k \in Nat PROVE Slot(k) \in Slots
<1>1. start \in Nat /\ start + k \in Nat /\ Limit \in Nat \ {0}
  BY LimitAssumption DEF TypeOK, Slots
<1> QED BY <1>1, ModRange DEF Slot, Slots

LEMMA SlotsApart ==
  ASSUME TypeOK, NEW i \in Nat, NEW j \in Nat, i < j, j - i < Limit
  PROVE  Slot(i) # Slot(j)
<1>1. start \in Nat /\ Limit \in Nat \ {0}
  BY LimitAssumption DEF TypeOK, Slots
<1>2. start + i \in Nat /\ start + j \in Nat /\ start + i < start + j
      /\ (start + j) - (start + i) < Limit
  BY <1>1
<1> QED BY <1>1, <1>2, ModApart DEF Slot

(* The log is a sequence of entries.                                       *)
LEMMA LogIs ==
  ASSUME TypeOK, Ringed
  PROVE  /\ Log \in Seq(Entry) /\ Len(Log) = count /\ DOMAIN Log = 1..count
         /\ count \in Nat /\ \A k \in 1..count : Log[k] = entries[Slot(k - 1)]
         /\ SizesOf(Log) \in Seq(Nat) /\ Len(SizesOf(Log)) = count
         /\ \A k \in 1..count : SizesOf(Log)[k] = sizes[Slot(k - 1)]
<1>1. count \in Nat
  BY LimitAssumption DEF TypeOK
<1>2. \A k \in 1..count :
        entries[Slot(k - 1)] \in Entry /\ sizes[Slot(k - 1)] = entries[Slot(k - 1)].size
  BY <1>1 DEF Ringed
<1>3. /\ Log \in Seq(Entry) /\ Len(Log) = count /\ DOMAIN Log = 1..count
      /\ \A k \in 1..count : Log[k] = entries[Slot(k - 1)]
  BY <1>1, <1>2 DEF Log
<1>4. \A x \in Entry : x.size \in Nat
  BY LimitAssumption DEF Entry
<1>5. SizesOf(Log) = [i \in 1..count |-> Log[i].size]
  BY <1>3 DEF SizesOf
<1>6. \A k \in 1..count : Log[k].size \in Nat /\ Log[k].size = sizes[Slot(k - 1)]
  BY <1>2, <1>3, <1>4
<1> HIDE DEF Log
<1>7. /\ SizesOf(Log) \in Seq(Nat) /\ Len(SizesOf(Log)) = count
      /\ \A k \in 1..count : SizesOf(Log)[k] = sizes[Slot(k - 1)]
  BY <1>1, <1>5, <1>6
<1> QED BY <1>1, <1>3, <1>7

LEMMA BytesIs ==
  ASSUME NEW s PROVE BoundedLog!Bytes(s) = Total(SizesOf(s))
BY DEF BoundedLog!Bytes, BoundedLog!Total, Total, SizesOf

(* What is freed with the k oldest entries, and what is left.              *)
LEMMA FreedIs ==
  ASSUME LogInv, NEW k \in 0..count
  PROVE  /\ Freed(k) = Total(SubSeq(SizesOf(Log), 1, k)) /\ Freed(k) \in Nat
         /\ storedBytes - Freed(k) = Total(SubSeq(SizesOf(Log), k + 1, count))
         /\ SubSeq(SizesOf(Log), k + 1, count) \in Seq(Nat)
<1> DEFINE S == SizesOf(Log)
           part == [i \in 1..k |-> sizes[Slot(i - 1)]]
           front == SubSeq(S, 1, k)
           back == SubSeq(S, k + 1, count)
<1>1. /\ S \in Seq(Nat) /\ Len(S) = count /\ count \in Nat
      /\ \A i \in 1..count : S[i] = sizes[Slot(i - 1)]
  BY LogIs DEF LogInv
<1>2. storedBytes = Total(S)
  BY BytesIs DEF LogInv, BytesExact
<1> HIDE DEF S
<1>3. /\ front \in Seq(Nat) /\ back \in Seq(Nat)
      /\ Total(S) = Total(front) + Total(back)
  BY <1>1, TotalParts
<1>4. \A i \in 1..count : S[i] \in Nat
  BY <1>1, LenProperties
<1>5. part = front
  <2>1. Len(front) = k /\ \A i \in 1..k : front[i] = S[i]
    <3>1. \A i \in 1..k : S[i] \in Nat
      BY <1>1, <1>4
    <3>2. k \in Nat /\ k - 1 + 1 = k /\ \A i \in 1..k : 1 + i - 1 = i
      BY <1>1
    <3> QED BY <3>1, <3>2, SubSeqProperties
  <2>2. \A i \in 1..k : S[i] = sizes[Slot(i - 1)] /\ S[i] \in Nat
    BY <1>1, <1>4
  <2>3. DOMAIN front = 1..k /\ front = [i \in 1..k |-> front[i]]
    <3> HIDE DEF front
    <3> QED BY <1>3, <2>1, LenProperties
  <2> HIDE DEF front
  <2> QED BY <2>1, <2>2, <2>3
<1>6. Freed(k) = Total(front)
  BY <1>5 DEF Freed
<1>7. Total(front) \in Nat /\ Total(back) \in Nat
  <2> HIDE DEF front, back
  <2> QED BY <1>3, TotalNat
<1>8. storedBytes - Freed(k) = Total(back)
  <2> HIDE DEF front, back
  <2> QED BY <1>2, <1>3, <1>6, <1>7
<1> QED BY <1>3, <1>6, <1>7, <1>8 DEF S

LEMMA EvictedIs ==
  ASSUME LogInv, NEW bytes
  PROVE  LET k == Evicted(bytes)
         IN  /\ k \in 0..count /\ (k = count \/ Room(k, bytes))
             /\ \A j \in 0..(k - 1) : ~Room(j, bytes)
<1> DEFINE S == {k \in 0..count : k = count \/ Room(k, bytes)}
<1>1. count \in Nat
  BY LogIs DEF LogInv
<1>2. S \subseteq Nat /\ count \in S
  BY <1>1
<1>3. Evicted(bytes) = Min(S)
  BY DEF Evicted
<1>4. Min(S) \in S /\ \A x \in S : Min(S) <= x
  <2> HIDE DEF S
  <2> QED BY <1>2, LeastExists
<1>5. ASSUME NEW j \in 0..(Evicted(bytes) - 1)
      PROVE  ~Room(j, bytes)
  <2>1. Evicted(bytes) \in 0..count
    BY <1>3, <1>4
  <2>2. j \in 0..count /\ ~(Evicted(bytes) <= j)
    BY <1>1, <2>1
  <2>3. j \notin S
    <3> HIDE DEF S
    <3> QED BY <1>3, <1>4, <2>2
  <2> QED BY <2>2, <2>3
<1> QED BY <1>3, <1>4, <1>5

(* Add drops the oldest entries and puts the new one behind the others.    *)
After(j) == (start' + j) % Limit

LEMMA AddSlots ==
  ASSUME LogInv, NEW e \in Entry, Add(e), NEW k, k = Evicted(e.size)
  PROVE  /\ k \in 0..count /\ count' = count - k + 1 /\ count' \in 1..Limit
         /\ start' \in Slots /\ entries' \in [Slots -> Entry \cup {NoEntry}]
         /\ sizes' \in [Slots -> EntrySizes \cup {0}]
         /\ \A j \in 0..(count - k - 1) :
              entries'[After(j)] = entries[Slot(k + j)] /\ sizes'[After(j)] = sizes[Slot(k + j)]
         /\ entries'[After(count - k)] = e /\ sizes'[After(count - k)] = e.size
<1> DEFINE gone == {Slot(i) : i \in 0..(k - 1)}
           index == Slot(count)
<1>1. /\ TypeOK /\ count \in 0..Limit /\ Limit \in Nat \ {0} /\ start \in Slots
      /\ entries \in [Slots -> Entry \cup {NoEntry}]
      /\ sizes \in [Slots -> EntrySizes \cup {0}]
  BY LimitAssumption DEF LogInv, TypeOK
<1>2. k \in 0..count /\ (k = count \/ count - k < Limit)
  BY EvictedIs DEF Room
<1>3. /\ entries' = [i \in Slots |-> IF i = index THEN e
                                     ELSE IF i \in gone THEN NoEntry ELSE entries[i]]
      /\ sizes' = [i \in Slots |-> IF i = index THEN e.size
                                   ELSE IF i \in gone THEN 0 ELSE sizes[i]]
      /\ start' = Slot(k) /\ count' = count - k + 1
  BY DEF Add
<1>4. count \in Nat /\ k \in Nat /\ count' \in 1..Limit
  BY <1>1, <1>2, <1>3
<1>5. start' \in Slots /\ index \in Slots
  BY <1>1, <1>3, <1>4, SlotRange
<1>6. entries' \in [Slots -> Entry \cup {NoEntry}] /\ sizes' \in [Slots -> EntrySizes \cup {0}]
  <2>1. e.size \in EntrySizes
    BY DEF Entry
  <2> HIDE DEF gone, index
  <2> QED BY <1>1, <1>3, <2>1
<1>7. ASSUME NEW j \in Nat
      PROVE  After(j) = Slot(k + j)
  <2>1. start \in Nat /\ start + k \in Nat
    BY <1>1, <1>4 DEF Slots
  <2>2. (((start + k) % Limit) + j) % Limit = (start + k + j) % Limit
    BY <1>1, <2>1, ModShift
  <2>3. start + k + j = start + (k + j)
    BY <1>4, <2>1
  <2> QED BY <1>3, <2>2, <2>3 DEF Slot, After
<1>8. ASSUME NEW j \in 0..(count - k - 1)
      PROVE  /\ entries'[After(j)] = entries[Slot(k + j)]
             /\ sizes'[After(j)] = sizes[Slot(k + j)]
  <2>1. j \in Nat /\ k + j \in Nat /\ k + j < count /\ count - (k + j) < Limit
    BY <1>1, <1>2, <1>4
  <2>2. Slot(k + j) # index
    BY <1>1, <1>4, <2>1, SlotsApart
  <2>3. ASSUME NEW i \in 0..(k - 1)
        PROVE  Slot(i) # Slot(k + j)
    <3>1. i \in Nat /\ i < k + j /\ (k + j) - i < Limit
      BY <1>1, <1>4, <2>1
    <3> QED BY <1>1, <2>1, <3>1, SlotsApart
  <2>4. Slot(k + j) \notin gone
    BY <2>3
  <2>5. Slot(k + j) \in Slots /\ After(j) = Slot(k + j)
    BY <1>1, <1>7, <2>1, SlotRange
  <2> HIDE DEF gone, index
  <2> QED BY <1>3, <2>2, <2>4, <2>5
<1>9. entries'[After(count - k)] = e /\ sizes'[After(count - k)] = e.size
  <2>1. count - k \in Nat /\ k + (count - k) = count
    BY <1>2, <1>4
  <2>2. After(count - k) = index
    BY <1>7, <2>1
  <2> HIDE DEF gone, index
  <2> QED BY <1>3, <1>5, <2>2
<1> QED BY <1>2, <1>3, <1>4, <1>5, <1>6, <1>8, <1>9

LEMMA AddLog ==
  ASSUME LogInv, NEW e \in Entry, Add(e), NEW k, k = Evicted(e.size)
  PROVE  /\ Ringed' /\ Log' = Append(SubSeq(Log, k + 1, count), e)
         /\ SubSeq(Log, k + 1, count) \in Seq(Entry)
         /\ Len(SubSeq(Log, k + 1, count)) = count - k
<1> DEFINE s == SubSeq(Log, k + 1, count)
<1>1. /\ k \in 0..count /\ count' = count - k + 1 /\ count \in Nat
      /\ \A j \in 0..(count - k - 1) :
           entries'[After(j)] = entries[Slot(k + j)] /\ sizes'[After(j)] = sizes[Slot(k + j)]
      /\ entries'[After(count - k)] = e /\ sizes'[After(count - k)] = e.size
  BY AddSlots, LogIs DEF LogInv
<1>2. ASSUME NEW j \in 0..(count' - 1)
      PROVE  entries'[After(j)] \in Entry /\ sizes'[After(j)] = entries'[After(j)].size
  <2>1. CASE j = count - k
    BY <1>1, <2>1
  <2>2. CASE j # count - k
    <3>1. j \in 0..(count - k - 1) /\ k + j \in 0..(count - 1)
      BY <1>1, <2>2
    <3>2. entries[Slot(k + j)] \in Entry /\ sizes[Slot(k + j)] = entries[Slot(k + j)].size
      BY <3>1 DEF LogInv, Ringed
    <3> QED BY <1>1, <3>1, <3>2
  <2> QED BY <2>1, <2>2
<1>3. Ringed'
  BY <1>2 DEF Ringed, Slot, After
<1>4. /\ Log \in Seq(Entry) /\ Len(Log) = count
      /\ \A i \in 1..count : Log[i] = entries[Slot(i - 1)] /\ Log[i] \in Entry
  BY LogIs, LenProperties DEF LogInv
<1>5. /\ s \in Seq(Entry) /\ Len(s) = count - k
      /\ \A i \in 1..(count - k) : s[i] = Log[k + i]
  <2>1. /\ k + 1 \in Int /\ count \in Int /\ count - (k + 1) + 1 = count - k
        /\ (IF k + 1 <= count THEN count - (k + 1) + 1 ELSE 0) = count - k
    BY <1>1
  <2>2. \A i \in 1..(count - k) : (k + 1) + i - 1 = k + i
    BY <1>1
  <2>3. ASSUME NEW i \in (k + 1)..count
        PROVE  Log[i] \in Entry
    <3>1. i \in 1..count
      BY <1>1
    <3> QED BY <1>4, <3>1
  <2> HIDE DEF Log
  <2>4. /\ s \in Seq(Entry)
        /\ Len(s) = IF k + 1 <= count THEN count - (k + 1) + 1 ELSE 0
        /\ \A i \in 1..(count - (k + 1) + 1) : s[i] = Log[(k + 1) + i - 1]
    BY <2>1, <2>3, SubSeqProperties
  <2> HIDE DEF s
  <2> QED BY <2>1, <2>2, <2>4
<1> DEFINE t == Append(s, e)
<1>6. /\ t \in Seq(Entry) /\ Len(t) = count - k + 1 /\ t[count - k + 1] = e
      /\ \A i \in 1..(count - k) : t[i] = s[i]
  <2> HIDE DEF s
  <2> QED BY <1>5, AppendProperties
<1>7. Log' = [i \in 1..count' |-> entries'[After(i - 1)]]
  BY DEF Log, Slot, After
<1>8. ASSUME NEW i \in 1..count'
      PROVE  entries'[After(i - 1)] = t[i]
  <2>1. CASE i = count - k + 1
    <3>1. i - 1 = count - k
      BY <1>1, <2>1
    <3> QED BY <1>1, <1>6, <2>1, <3>1
  <2>2. CASE i # count - k + 1
    <3>1. i \in 1..(count - k) /\ i - 1 \in 0..(count - k - 1) /\ k + i \in 1..count
          /\ k + (i - 1) = (k + i) - 1
      BY <1>1, <2>2
    <3>2. t[i] = Log[k + i] /\ Log[k + i] = entries[Slot((k + i) - 1)]
      BY <1>4, <1>5, <1>6, <3>1
    <3>3. entries'[After(i - 1)] = entries[Slot(k + (i - 1))]
      BY <1>1, <3>1
    <3> QED BY <3>1, <3>2, <3>3
  <2> QED BY <2>1, <2>2
<1>9. Log' = t
  <2>1. DOMAIN t = 1..count' /\ t = [i \in 1..count' |-> t[i]]
    <3> HIDE DEF t
    <3> QED BY <1>1, <1>6, LenProperties
  <2> HIDE DEF t
  <2> QED BY <1>7, <1>8, <2>1
<1> QED BY <1>3, <1>5, <1>9

LEMMA SizesAppend ==
  ASSUME NEW s \in Seq(Entry), NEW e \in Entry
  PROVE  /\ SizesOf(s) \in Seq(Nat) /\ Len(SizesOf(s)) = Len(s)
         /\ SizesOf(Append(s, e)) = Append(SizesOf(s), e.size)
         /\ \A i \in 1..Len(s) : SizesOf(s)[i] = s[i].size
<1> DEFINE t == Append(s, e)
           n == Len(s)
<1>1. n \in Nat /\ DOMAIN s = 1..n /\ \A i \in 1..n : s[i] \in Entry
  BY LenProperties
<1>2. /\ t \in Seq(Entry) /\ Len(t) = n + 1 /\ t[n + 1] = e
      /\ \A i \in 1..n : t[i] = s[i]
  BY AppendProperties
<1>3. DOMAIN t = 1..(n + 1)
  <2> HIDE DEF t
  <2> QED BY <1>2, LenProperties
<1>4. \A x \in Entry : x.size \in Nat
  BY LimitAssumption DEF Entry
<1>5. SizesOf(s) = [i \in 1..n |-> s[i].size]
  BY <1>1 DEF SizesOf
<1>6. SizesOf(t) = [i \in 1..(n + 1) |-> t[i].size]
  <2> HIDE DEF t
  <2> QED BY <1>3 DEF SizesOf
<1>7. \A i \in 1..n : s[i].size \in Nat
  BY <1>1, <1>4
<1> HIDE DEF n
<1>8. /\ SizesOf(s) \in Seq(Nat) /\ Len(SizesOf(s)) = n
      /\ \A i \in 1..n : SizesOf(s)[i] = s[i].size
  BY <1>1, <1>5, <1>7
<1> DEFINE u == Append(SizesOf(s), e.size)
<1>9. /\ u \in Seq(Nat) /\ Len(u) = n + 1 /\ u[n + 1] = e.size
      /\ \A i \in 1..n : u[i] = s[i].size
  BY <1>4, <1>8, AppendProperties
<1>10. u = [i \in 1..(n + 1) |-> u[i]]
  <2> HIDE DEF u
  <2> QED BY <1>1, <1>9, LenProperties
<1> HIDE DEF u, t
<1>11. \A i \in 1..(n + 1) : u[i] = t[i].size
  BY <1>1, <1>2, <1>9
<1>12. SizesOf(t) = u
  BY <1>6, <1>10, <1>11
<1> QED BY <1>8, <1>12 DEF t, u, n

LEMMA SizesPart ==
  ASSUME LogInv, NEW k \in 0..count
  PROVE  SizesOf(SubSeq(Log, k + 1, count)) = SubSeq(SizesOf(Log), k + 1, count)
<1> DEFINE s == SubSeq(Log, k + 1, count)
           t == SubSeq(SizesOf(Log), k + 1, count)
<1>1. /\ Log \in Seq(Entry) /\ Len(Log) = count /\ count \in Nat
      /\ DOMAIN Log = 1..count
      /\ SizesOf(Log) \in Seq(Nat) /\ Len(SizesOf(Log)) = count
  BY LogIs DEF LogInv
<1> HIDE DEF Log
<1>2. \A i \in 1..count : Log[i] \in Entry /\ SizesOf(Log)[i] = Log[i].size
                          /\ SizesOf(Log)[i] \in Nat
  BY <1>1, LenProperties DEF SizesOf
<1>3. /\ k + 1 \in Int /\ count \in Int /\ count - (k + 1) + 1 = count - k
      /\ (IF k + 1 <= count THEN count - (k + 1) + 1 ELSE 0) = count - k
  BY <1>1
<1>4. \A i \in (k + 1)..count : i \in 1..count
  BY <1>1
<1>5. /\ s \in Seq(Entry)
      /\ Len(s) = (IF k + 1 <= count THEN count - (k + 1) + 1 ELSE 0)
      /\ \A i \in 1..(count - (k + 1) + 1) : s[i] = Log[(k + 1) + i - 1]
  BY <1>2, <1>3, <1>4, SubSeqProperties
<1>6. /\ t \in Seq(Nat)
      /\ Len(t) = (IF k + 1 <= count THEN count - (k + 1) + 1 ELSE 0)
      /\ \A i \in 1..(count - (k + 1) + 1) : t[i] = SizesOf(Log)[(k + 1) + i - 1]
  <2>1. \A i \in (k + 1)..count : SizesOf(Log)[i] \in Nat
    BY <1>2, <1>4
  <2> QED BY <1>3, <2>1, SubSeqProperties
<1> HIDE DEF s, t
<1>7. Len(s) = count - k /\ Len(t) = count - k /\ DOMAIN s = 1..(count - k)
  BY <1>3, <1>5, <1>6, LenProperties
<1>8. ASSUME NEW i \in 1..(count - k)
      PROVE  s[i].size = t[i]
  <2>1. (k + 1) + i - 1 \in 1..count
    BY <1>1
  <2> QED BY <1>2, <1>3, <1>5, <1>6, <2>1
<1>9. t = [i \in 1..(count - k) |-> t[i]]
  BY <1>1, <1>6, <1>7, LenProperties
<1>10. SizesOf(s) = t
  BY <1>7, <1>8, <1>9 DEF SizesOf
<1> QED BY <1>10 DEF s, t

LEMMA AddBytes ==
  ASSUME LogInv, NEW e \in Entry, Add(e)
  PROVE  BytesExact' /\ storedBytes' \in Nat
<1> DEFINE k == Evicted(e.size)
           s == SubSeq(Log, k + 1, count)
<1>1. k \in 0..count /\ (k = count \/ Room(k, e.size))
  BY EvictedIs
<1>2. Log' = Append(s, e) /\ s \in Seq(Entry)
  BY AddLog
<1>3. e.size \in Nat /\ e.size <= ByteLimit
      /\ storedBytes' = storedBytes - Freed(k) + e.size
  BY LimitAssumption DEF Entry, Add, StoredAfter
<1> HIDE DEF k
<1>4. storedBytes - Freed(k) = Total(SizesOf(s)) /\ SizesOf(s) \in Seq(Nat)
  BY <1>1, FreedIs, SizesPart
<1> HIDE DEF s
<1>5. Total(SizesOf(s)) \in Nat /\ Total(SizesOf(Append(s, e))) = Total(SizesOf(s)) + e.size
  BY <1>2, <1>3, <1>4, TotalNat, TotalAppend, SizesAppend
<1>6. storedBytes' = Total(SizesOf(Log')) /\ storedBytes' \in Nat
  BY <1>2, <1>3, <1>4, <1>5
<1>7. storedBytes' <= ByteLimit
  <2>1. CASE Room(k, e.size)
    BY <1>3, <2>1 DEF Room
  <2>2. CASE k = count
    <3>1. count \in Nat
      BY LogIs DEF LogInv
    <3>2. s = <<>>
      BY <2>2, <3>1, SubSeqEmpty DEF s
    <3>3. SizesOf(s) = <<>>
      BY <3>2 DEF SizesOf
    <3>4. Total(SizesOf(s)) = 0
      BY <3>3, TotalEmpty
    <3> QED BY <1>3, <1>4, <3>4
  <2> QED BY <1>1, <2>1, <2>2
<1>8. BoundedLog!Bytes(Log)' = Total(SizesOf(Log'))
  BY DEF BoundedLog!Bytes, BoundedLog!Total, Total, SizesOf
<1> QED BY <1>6, <1>7, <1>8 DEF BytesExact

(* A part of a line reaches its writer.                                    *)
LEMMA PartReceived ==
  ASSUME LogInv, NEW w \in Writers, NEW n \in Nat
  PROVE  /\ Kept(w, n) \in 0..MaxLine /\ Received(w, n) \in 0..(MaxLine + 1)
         /\ Kept(w, n) = Min({Received(w, n), MaxLine})
         /\ Overflows(w, n) <=> Received(w, n) > MaxLine
         /\ Kept(w, n) > 0 => Received(w, n) > 0
<1>1. /\ MaxLine \in Nat /\ pending[w] \in 0..MaxLine /\ received[w] \in 0..(MaxLine + 1)
      /\ dropping[w] \in BOOLEAN
  BY LimitAssumption DEF LogInv, TypeOK
<1>2. /\ pending[w] = IF received[w] <= MaxLine THEN received[w] ELSE MaxLine
      /\ dropping[w] <=> received[w] > MaxLine
  <2>1. pending[w] = Min({received[w], MaxLine}) /\ (dropping[w] <=> received[w] > MaxLine)
    BY DEF LogInv, LinesWhole, Dropped
  <2> QED BY <1>1, <2>1, LeastOfTwo
<1>3. Received(w, n) = IF received[w] + n <= MaxLine + 1 THEN received[w] + n
                       ELSE MaxLine + 1
  BY <1>1, LeastOfTwo DEF Received
<1>4. Kept(w, n) = IF dropping[w] THEN pending[w]
                   ELSE IF pending[w] + n <= MaxLine THEN pending[w] + n ELSE MaxLine
  BY <1>1, LeastOfTwo DEF Kept
<1>5. Received(w, n) \in 0..(MaxLine + 1) /\ Kept(w, n) \in 0..MaxLine
  BY <1>1, <1>3, <1>4
<1>6. Kept(w, n) = IF Received(w, n) <= MaxLine THEN Received(w, n) ELSE MaxLine
  BY <1>1, <1>2, <1>3, <1>4
<1>7. Overflows(w, n) <=> Received(w, n) > MaxLine
  BY <1>1, <1>2, <1>3 DEF Overflows
<1>8. Kept(w, n) = Min({Received(w, n), MaxLine})
  BY <1>1, <1>5, <1>6, LeastOfTwo
<1> QED BY <1>1, <1>5, <1>6, <1>7, <1>8

(* What the store keeps is as good as before.                              *)
StoreInv ==
  /\ entries \in [Slots -> Entry \cup {NoEntry}]
  /\ sizes \in [Slots -> EntrySizes \cup {0}]
  /\ start \in Slots /\ count \in 0..Limit /\ storedBytes \in Nat
  /\ Ringed /\ BytesExact
  /\ \A k \in 1..count : Log[k].kept = Min({Log[k].received, MaxLine})

LEMMA StoreSame ==
  ASSUME StoreInv, UNCHANGED store
  PROVE  StoreInv'
<1>1. Log' = Log /\ \A k : Slot(k)' = Slot(k)
  BY DEF store, Log, Slot
<1>2. BoundedLog!Bytes(Log)' = BoundedLog!Bytes(Log)
  BY <1>1 DEF BoundedLog!Bytes, BoundedLog!Total
<1>3. Ringed'
  BY DEF StoreInv, store, Ringed, Slot
<1>4. BytesExact'
  BY <1>2 DEF StoreInv, store, BytesExact
<1> HIDE DEF Log
<1> QED BY <1>1, <1>3, <1>4 DEF StoreInv, store, Slots

LEMMA StoreAdds ==
  ASSUME LogInv, NEW kept \in 0..MaxLine, NEW rec \in 0..(MaxLine + 1),
         kept = Min({rec, MaxLine}), kept > 0 => rec > 0, AddLine(kept, rec)
  PROVE  StoreInv'
<1>1. StoreInv
  BY DEF StoreInv, LogInv, TypeOK, LinesWhole
<1>2. CASE UNCHANGED store
  BY <1>1, <1>2, StoreSame
<1>3. ASSUME NEW e \in Entry, Add(e), e.kept = Min({e.received, MaxLine})
      PROVE  StoreInv'
  <2> DEFINE k == Evicted(e.size)
             s == SubSeq(Log, k + 1, count)
  <2>1. /\ k \in 0..count /\ count' = count - k + 1 /\ count' \in 1..Limit
        /\ start' \in Slots /\ entries' \in [Slots -> Entry \cup {NoEntry}]
        /\ sizes' \in [Slots -> EntrySizes \cup {0}]
    BY <1>3, AddSlots
  <2>2. BytesExact' /\ storedBytes' \in Nat
    BY <1>3, AddBytes
  <2>3. Ringed' /\ Log' = Append(s, e) /\ s \in Seq(Entry) /\ Len(s) = count - k
    BY <1>3, AddLog
  <2>4. ASSUME NEW i \in 1..(count - k)
        PROVE  s[i].kept = Min({s[i].received, MaxLine})
    <3>1. /\ Log \in Seq(Entry) /\ Len(Log) = count /\ count \in Nat
          /\ \A j \in 1..count : Log[j] \in Entry
      BY LogIs, LenProperties DEF LogInv
    <3> HIDE DEF k
    <3>2. k + 1 \in Int /\ count \in Int /\ k + i \in 1..count
          /\ (k + 1) + i - 1 = k + i /\ i \in 1..(count - (k + 1) + 1)
      BY <2>1, <3>1
    <3>3. \A j \in (k + 1)..count : Log[j] \in Entry
      <4>1. \A j \in (k + 1)..count : j \in 1..count
        BY <2>1, <3>1
      <4> QED BY <3>1, <4>1
    <3>4. s[i] = Log[(k + 1) + i - 1]
      <4> HIDE DEF Log
      <4> QED BY <3>2, <3>3, SubSeqProperties
    <3> HIDE DEF s, Log
    <3> QED BY <1>1, <3>2, <3>4 DEF StoreInv
  <2> HIDE DEF s, k
  <2>5. ASSUME NEW i \in 1..count'
        PROVE  Log'[i].kept = Min({Log'[i].received, MaxLine})
    <3>1. count \in Nat /\ k \in Nat /\ count - k \in Nat
      BY <2>1, LogIs DEF LogInv
    <3>2. CASE i = count - k + 1
      <4>1. Append(s, e)[count - k + 1] = e
        BY <2>3, AppendProperties
      <4> QED BY <1>3, <2>3, <3>2, <4>1
    <3>3. CASE i # count - k + 1
      <4>1. i \in 1..(count - k)
        BY <2>1, <3>1, <3>3
      <4>2. Append(s, e)[i] = s[i]
        BY <2>3, <4>1, AppendProperties
      <4> QED BY <2>3, <2>4, <4>1, <4>2
    <3> QED BY <3>2, <3>3
  <2>6. count' \in 0..Limit
    BY <2>1
  <2> QED BY <2>1, <2>2, <2>3, <2>5, <2>6 DEF StoreInv, Slots
<1>4. ASSUME NEW bytes \in EntrySizes, kept > 0,
             Add([kept |-> kept, received |-> rec, size |-> bytes])
      PROVE  StoreInv'
  <2>1. [kept |-> kept, received |-> rec, size |-> bytes] \in Entry
    BY <1>4, LimitAssumption DEF Entry
  <2> QED BY <1>3, <1>4, <2>1
<1>5. ASSUME NEW bytes \in EntrySizes,
             Refuse([kept |-> kept, received |-> rec, size |-> bytes])
      PROVE  StoreInv'
  BY <1>1, <1>5, StoreSame DEF Refuse
<1> QED BY <1>2, <1>4, <1>5 DEF AddLine

LEMMA LogNext ==
  ASSUME LogInv, Next
  PROVE  LogInv'
<1>1. StoreInv /\ MaxLine \in Nat
  BY LimitAssumption DEF StoreInv, LogInv, TypeOK, LinesWhole
<1>2. /\ pending \in [Writers -> 0..MaxLine] /\ dropping \in [Writers -> BOOLEAN]
      /\ received \in [Writers -> 0..(MaxLine + 1)]
      /\ \A v \in Writers : /\ pending[v] = Min({received[v], MaxLine})
                            /\ dropping[v] <=> received[v] > MaxLine
  BY DEF LogInv, TypeOK, LinesWhole, Dropped
<1>3. PICK w \in Writers, n \in PartLengths : WritePart(w, n) \/ WriteLine(w, n)
  BY DEF Next
<1>4. n \in Nat
  BY LimitAssumption
<1> DEFINE kept == Kept(w, n)
           rec == Received(w, n)
           over == Overflows(w, n)
<1>5. /\ kept \in 0..MaxLine /\ rec \in 0..(MaxLine + 1) /\ kept = Min({rec, MaxLine})
      /\ over <=> rec > MaxLine
      /\ kept > 0 => rec > 0
  BY <1>4, PartReceived
<1>6. over \in BOOLEAN
  BY <1>2 DEF Overflows
<1>7. CASE WritePart(w, n)
  <2>1. /\ pending' = [pending EXCEPT ![w] = kept]
        /\ dropping' = [dropping EXCEPT ![w] = over]
        /\ received' = [received EXCEPT ![w] = rec] /\ UNCHANGED store
    BY <1>7 DEF WritePart
  <2> HIDE DEF kept, rec, over
  <2>2. StoreInv'
    BY <1>1, <2>1, StoreSame
  <2>3. /\ pending' \in [Writers -> 0..MaxLine] /\ dropping' \in [Writers -> BOOLEAN]
        /\ received' \in [Writers -> 0..(MaxLine + 1)]
    BY <1>2, <1>5, <1>6, <2>1
  <2>4. \A v \in Writers : pending'[v] = Min({received'[v], MaxLine})
                           /\ (dropping'[v] <=> received'[v] > MaxLine)
    BY <1>2, <1>5, <2>1
  <2> QED BY <2>2, <2>3, <2>4 DEF LogInv, TypeOK, LinesWhole, Dropped, StoreInv
<1>8. CASE WriteLine(w, n)
  <2>1. /\ pending' = [pending EXCEPT ![w] = 0]
        /\ dropping' = [dropping EXCEPT ![w] = FALSE]
        /\ received' = [received EXCEPT ![w] = 0] /\ AddLine(kept, rec)
    BY <1>8 DEF WriteLine, ResetLine
  <2> HIDE DEF kept, rec, over
  <2>2. StoreInv'
    BY <1>5, <2>1, StoreAdds
  <2>3. /\ pending' \in [Writers -> 0..MaxLine] /\ dropping' \in [Writers -> BOOLEAN]
        /\ received' \in [Writers -> 0..(MaxLine + 1)]
    BY <1>1, <1>2, <2>1
  <2>4. Min({0, MaxLine}) = 0
    BY <1>1, LeastOfTwo
  <2>5. ASSUME NEW v \in Writers
        PROVE  pending'[v] = Min({received'[v], MaxLine})
               /\ (dropping'[v] <=> received'[v] > MaxLine)
    <3>1. CASE v = w
      <4>1. pending'[v] = 0 /\ dropping'[v] = FALSE /\ received'[v] = 0
        BY <1>2, <2>1, <3>1
      <4>2. ~(0 > MaxLine)
        BY <1>1
      <4>3. pending'[v] = Min({received'[v], MaxLine})
        BY <2>4, <4>1
      <4> QED BY <4>1, <4>2, <4>3
    <3>2. CASE v # w
      <4>1. /\ pending'[v] = pending[v] /\ dropping'[v] = dropping[v]
            /\ received'[v] = received[v]
        BY <1>2, <2>1, <3>2
      <4> QED BY <1>2, <4>1
    <3> QED BY <3>1, <3>2
  <2> QED BY <2>2, <2>3, <2>5 DEF LogInv, TypeOK, LinesWhole, Dropped, StoreInv
<1> QED BY <1>3, <1>7, <1>8

LEMMA NewestIs ==
  ASSUME NEW S, NEW s \in Seq(S), NEW n \in 0..Len(s)
  PROVE  LET t == BoundedLog!Newest(s, n)
         IN  /\ t \in Seq(S) /\ Len(t) = n
             /\ \A i \in 1..n : t[i] = s[Len(s) - n + i]
<1> DEFINE L == Len(s)
           a == L - n + 1
           t == SubSeq(s, a, L)
<1>1. L \in Nat /\ \A i \in 1..L : s[i] \in S
  BY LenProperties
<1>2. a \in Int /\ L \in Int /\ L - a + 1 = n /\ (IF a <= L THEN L - a + 1 ELSE 0) = n
  BY <1>1
<1>3. \A i \in a..L : s[i] \in S
  <2>1. \A i \in a..L : i \in 1..L
    BY <1>1
  <2> QED BY <1>1, <2>1
<1>4. /\ t \in Seq(S) /\ Len(t) = (IF a <= L THEN L - a + 1 ELSE 0)
      /\ \A i \in 1..(L - a + 1) : t[i] = s[a + i - 1]
  <2> HIDE DEF a, L
  <2> QED BY <1>2, <1>3, SubSeqProperties
<1>5. \A i \in 1..n : a + i - 1 = L - n + i
  BY <1>1
<1>6. BoundedLog!Newest(s, n) = t
  BY DEF BoundedLog!Newest
<1> HIDE DEF t, a
<1> QED BY <1>2, <1>4, <1>5, <1>6 DEF L

LEMMA ReadsTheNewest ==
  ASSUME LogInv PROVE ReadsNewest
<1> SUFFICES ASSUME NEW limit \in -1..(Limit + 1)
             PROVE  LET n == IF limit \in 1..Limit THEN limit ELSE Min({200, Limit})
                    IN  ReadLast(limit) = Reverse(BoundedLog!Newest(Log, Min({n, count})))
  BY DEF ReadsNewest
<1> DEFINE n == IF limit \in 1..Limit THEN limit ELSE Min({200, Limit})
           m == Min({n, count})
           t == BoundedLog!Newest(Log, m)
<1>1. /\ Limit \in Nat \ {0} /\ count \in Nat /\ start \in Nat
      /\ Log \in Seq(Entry) /\ Len(Log) = count
      /\ \A k \in 1..count : Log[k] = entries[Slot(k - 1)]
  BY LimitAssumption, LogIs DEF LogInv, TypeOK, Slots
<1>2. n \in Nat /\ n = IF limit <= 0 \/ limit > Limit THEN Min({200, Limit}) ELSE limit
  <2>1. Min({200, Limit}) \in Nat
    <3>1. Limit \in Int /\ 200 \in Int
      BY <1>1
    <3>2. Min({200, Limit}) = IF 200 <= Limit THEN 200 ELSE Limit
      BY <3>1, LeastOfTwo
    <3> QED BY <1>1, <3>2
  <2>2. limit \in 1..Limit <=> ~(limit <= 0 \/ limit > Limit)
    BY <1>1
  <2> QED BY <1>1, <2>1, <2>2
<1>3. ReadLast(limit) = [i \in 1..m |-> entries[ReadSlot(i - 1)]]
  <2> HIDE DEF n
  <2> QED BY <1>2 DEF ReadLast
<1>4. m \in 0..count
  <2> HIDE DEF n
  <2> QED BY <1>1, <1>2, LeastOfTwo
<1> HIDE DEF m, Log
<1>5. t \in Seq(Entry) /\ Len(t) = m /\ \A i \in 1..m : t[i] = Log[count - m + i]
  BY <1>1, <1>4, NewestIs
<1> HIDE DEF t
<1>6. Reverse(t) = [i \in 1..m |-> t[(m - i) + 1]]
  BY <1>5 DEF Reverse
<1>7. ASSUME NEW i \in 1..m
      PROVE  entries[ReadSlot(i - 1)] = t[(m - i) + 1]
  <2>0. /\ m \in Int /\ m <= count /\ i \in Int /\ 1 <= i /\ i <= m
        /\ count \in Int /\ start \in Int /\ 0 <= start /\ Limit \in Int
    <3> HIDE DEF n
    <3> QED BY <1>1, <1>4
  <2>1. /\ (m - i) + 1 \in 1..m /\ count - m + ((m - i) + 1) = count - i + 1
        /\ count - i + 1 \in 1..count /\ (count - i + 1) - 1 = count - i
        /\ count - i \in Nat /\ start + (count - i) \in Nat
        /\ start + count - 1 - (i - 1) + Limit = (start + (count - i)) + Limit
    <3> HIDE DEF n
    <3> QED BY <2>0
  <2>2. t[(m - i) + 1] = entries[Slot(count - i)]
    <3> HIDE DEF n
    <3>1. t[(m - i) + 1] = Log[count - i + 1]
      BY <1>5, <2>1
    <3>2. Log[count - i + 1] = entries[Slot((count - i + 1) - 1)]
      BY <1>1, <2>1
    <3> QED BY <2>1, <3>1, <3>2
  <2>3. ((start + (count - i)) + Limit) % Limit = (start + (count - i)) % Limit
    BY <1>1, <2>1, ModTurn
  <2>4. ReadSlot(i - 1) = Slot(count - i)
    BY <2>1, <2>3 DEF ReadSlot, Slot
  <2> QED BY <2>2, <2>4
<1>8. ReadLast(limit) = Reverse(t)
  BY <1>3, <1>6, <1>7
<1> QED BY <1>8 DEF t, m

LEMMA LogStarts == ASSUME Init PROVE LogInv /\ Log = <<>>
<1>1. /\ Limit \in Nat \ {0} /\ MaxLine \in Nat /\ ByteLimit \in Nat
  BY LimitAssumption
<1>2. Log = <<>>
  BY DEF Init, Log
<1>3. TypeOK
  BY <1>1 DEF Init, TypeOK, Slots
<1>4. BoundedLog!Bytes(Log) = 0
  <2>1. SizesOf(<<>>) = <<>>
    BY DEF SizesOf
  <2> QED BY <1>2, <2>1, BytesIs, TotalEmpty
<1>5. BytesExact
  BY <1>1, <1>4 DEF Init, BytesExact
<1>6. LinesWhole /\ Dropped /\ Ringed
  <2>1. Min({0, MaxLine}) = 0
    BY <1>1, LeastOfTwo
  <2> QED BY <1>1, <2>1 DEF Init, LinesWhole, Dropped, Ringed
<1> QED BY <1>2, <1>3, <1>5, <1>6 DEF LogInv

LEMMA AddRefines ==
  ASSUME LogInv, NEW e \in Entry, Add(e)
  PROVE  Log' = BoundedLog!Trimmed(Append(Log, e))
<1> DEFINE k == Evicted(e.size)
           t == Append(Log, e)
           m == count - k + 1
           fits == {n \in 0..Len(t) : BoundedLog!Fits(BoundedLog!Newest(t, n))}
<1>1. /\ Log \in Seq(Entry) /\ Len(Log) = count /\ count \in Nat /\ count <= Limit
      /\ Limit \in Nat \ {0} /\ ByteLimit \in Nat /\ storedBytes \in Nat
  BY LogIs, LimitAssumption DEF LogInv, TypeOK
<1>2. /\ k \in 0..count /\ (k = count \/ Room(k, e.size))
      /\ \A j \in 0..(k - 1) : ~Room(j, e.size)
  BY EvictedIs
<1>3. e.size \in Nat /\ e.size <= ByteLimit
  BY LimitAssumption DEF Entry, Add
<1> HIDE DEF Log, k
<1>4. /\ t \in Seq(Entry) /\ Len(t) = count + 1 /\ t[count + 1] = e
      /\ \A i \in 1..count : t[i] = Log[i]
  BY <1>1, AppendProperties
<1> HIDE DEF t
(* The end of the log and the new entry.                                   *)
<1>5. ASSUME NEW j \in 0..count
      PROVE  BoundedLog!Newest(t, count - j + 1) = Append(SubSeq(Log, j + 1, count), e)
  <2> DEFINE n == count - j + 1
             u == BoundedLog!Newest(t, n)
             v == SubSeq(Log, j + 1, count)
  <2>1. n \in 0..Len(t) /\ \A i \in 1..n : Len(t) - n + i = j + i
    <3>1. Len(t) = count + 1 /\ count \in Nat
      BY <1>1, <1>4
    <3>2. n \in 0..(count + 1) /\ \A i \in 1..n : (count + 1) - n + i = j + i
      BY <3>1
    <3> HIDE DEF n
    <3> QED BY <3>1, <3>2
  <2>2. u \in Seq(Entry) /\ Len(u) = n /\ \A i \in 1..n : u[i] = t[j + i]
    <3> HIDE DEF n
    <3>1. u \in Seq(Entry) /\ Len(u) = n /\ \A i \in 1..n : u[i] = t[Len(t) - n + i]
      BY <1>4, <2>1, NewestIs
    <3> QED BY <2>1, <3>1
  <2>3. v \in Seq(Entry) /\ Len(v) = count - j
        /\ \A i \in 1..(count - j) : v[i] = Log[j + i]
    <3>1. /\ count - j \in 0..Len(Log) /\ Len(Log) - (count - j) + 1 = j + 1
          /\ \A i \in 1..(count - j) : Len(Log) - (count - j) + i = j + i
      BY <1>1
    <3>2. BoundedLog!Newest(Log, count - j) = v
      BY <1>1, <3>1 DEF BoundedLog!Newest
    <3> HIDE DEF v
    <3>3. /\ v \in Seq(Entry) /\ Len(v) = count - j
          /\ \A i \in 1..(count - j) : v[i] = Log[Len(Log) - (count - j) + i]
      BY <1>1, <3>1, <3>2, NewestIs
    <3> QED BY <3>1, <3>3
  <2> HIDE DEF u, v
  <2> DEFINE x == Append(v, e)
  <2>4. x \in Seq(Entry) /\ Len(x) = n /\ x[n] = e /\ \A i \in 1..(count - j) : x[i] = v[i]
    BY <2>3, AppendProperties
  <2> HIDE DEF x
  <2>5. ASSUME NEW i \in 1..n
        PROVE  u[i] = x[i]
    <3>1. CASE i = n
      <4>1. j + i = count + 1
        BY <1>1, <3>1
      <4> QED BY <1>4, <2>2, <2>4, <3>1, <4>1
    <3>2. CASE i # n
      <4>1. i \in 1..(count - j) /\ j + i \in 1..count
        BY <1>1, <3>2
      <4>2. u[i] = t[j + i] /\ t[j + i] = Log[j + i]
        BY <1>4, <2>2, <4>1
      <4>3. x[i] = v[i] /\ v[i] = Log[j + i]
        BY <2>3, <2>4, <4>1
      <4> QED BY <4>2, <4>3
    <3> QED BY <3>1, <3>2
  <2>6. u = x
    <3> HIDE DEF n
    <3> QED BY <2>2, <2>4, <2>5, SeqEqual
  <2> QED BY <2>6 DEF u, x, v
(* It fits if there is room for it.                                        *)
<1>6. ASSUME NEW j \in 0..count
      PROVE  BoundedLog!Fits(BoundedLog!Newest(t, count - j + 1)) <=> Room(j, e.size)
  <2> DEFINE s == SubSeq(Log, j + 1, count)
  <2>1. /\ SizesOf(s) \in Seq(Nat) /\ storedBytes - Freed(j) = Total(SizesOf(s))
    BY FreedIs, SizesPart
  <2>2. s \in Seq(Entry) /\ Len(s) = count - j
    <3>1. count - j \in 0..Len(Log) /\ Len(Log) - (count - j) + 1 = j + 1
      BY <1>1
    <3>2. BoundedLog!Newest(Log, count - j) = s
      BY <1>1, <3>1 DEF BoundedLog!Newest
    <3> HIDE DEF s
    <3> QED BY <1>1, <3>1, <3>2, NewestIs
  <2> HIDE DEF s
  <2>3. Len(Append(s, e)) = count - j + 1
    BY <2>2, AppendProperties
  <2>4. BoundedLog!Bytes(Append(s, e)) = storedBytes - Freed(j) + e.size
    <3>1. SizesOf(Append(s, e)) = Append(SizesOf(s), e.size)
      BY <2>2, SizesAppend
    <3>2. Total(Append(SizesOf(s), e.size)) = Total(SizesOf(s)) + e.size
      BY <1>3, <2>1, TotalAppend
    <3> QED BY <2>1, <3>1, <3>2, BytesIs
  <2>5. BoundedLog!Fits(Append(s, e)) <=>
          count - j + 1 <= Limit /\ storedBytes - Freed(j) + e.size <= ByteLimit
    BY <2>3, <2>4 DEF BoundedLog!Fits
  <2>6. count - j + 1 <= Limit <=> count - j < Limit
    BY <1>1
  <2>7. BoundedLog!Newest(t, count - j + 1) = Append(s, e)
    BY <1>5 DEF s
  <2> QED BY <2>5, <2>6, <2>7 DEF Room
<1>7. m \in fits
  <2>1. m \in 0..Len(t)
    BY <1>1, <1>2, <1>4
  <2>2. Room(k, e.size)
    <3>1. CASE k = count
      <4>1. storedBytes - Freed(k) = Total(SubSeq(SizesOf(Log), k + 1, count))
        BY <1>2, FreedIs
      <4>2. SubSeq(SizesOf(Log), k + 1, count) = <<>>
        BY <1>1, <3>1, SubSeqEmpty
      <4>3. storedBytes - Freed(k) = 0
        BY <4>1, <4>2, TotalEmpty
      <4>4. count - k < Limit
        BY <1>1, <3>1
      <4> QED BY <1>3, <4>3, <4>4 DEF Room
    <3> QED BY <1>2, <3>1
  <2> QED BY <1>2, <1>6, <2>1, <2>2
<1>8. ASSUME NEW n \in fits
      PROVE  n <= m
  <2> SUFFICES ASSUME n > m PROVE FALSE
    BY <1>1, <1>2, <1>4
  <2>1. n \in 0..(count + 1) /\ BoundedLog!Fits(BoundedLog!Newest(t, n))
    BY <1>4, <1>8
  <2> DEFINE j == count + 1 - n
  <2>2. j \in 0..(k - 1) /\ j \in 0..count /\ count - j + 1 = n
    BY <1>1, <1>2, <2>1
  <2> HIDE DEF j
  <2> QED BY <1>2, <1>6, <2>1, <2>2
<1>9. BoundedLog!Max(fits) = m
  <2>1. \A n \in fits : n \in Int
    BY <1>1, <1>4
  <2>2. Max(fits) = m
    <3> HIDE DEF fits, m
    <3> QED BY <1>7, <1>8, <2>1, GreatestIs
  <2> QED BY <2>2 DEF BoundedLog!Max, Max
<1>10. BoundedLog!Trimmed(t) = BoundedLog!Newest(t, m)
  BY <1>9 DEF BoundedLog!Trimmed
<1>11. Log' = Append(SubSeq(Log, k + 1, count), e)
  BY AddLog DEF k
<1> QED BY <1>2, <1>5, <1>10, <1>11 DEF t

LEMMA LogStep ==
  ASSUME [ServicesNext]_all
  PROVE  Next \/ UNCHANGED vars
BY DEF ServicesNext, all

LEMMA LogInvariant == ServicesSpec => []LogInv
<1>1. ServicesInit => LogInv
  BY LogStarts DEF ServicesInit
<1>2. LogInv /\ [ServicesNext]_all => LogInv'
  <2> SUFFICES ASSUME LogInv, [ServicesNext]_all PROVE LogInv'
    OBVIOUS
  <2>1. CASE Next
    BY <2>1, LogNext
  <2>2. CASE UNCHANGED vars
    <3>1. StoreInv
      BY DEF StoreInv, LogInv, TypeOK, LinesWhole
    <3>2. StoreInv'
      BY <2>2, <3>1, StoreSame DEF vars
    <3>3. UNCHANGED <<pending, dropping, received>>
      BY <2>2 DEF vars, writers
    <3> QED BY <3>2, <3>3 DEF LogInv, TypeOK, LinesWhole, Dropped, StoreInv
  <2> QED BY <2>1, <2>2, LogStep
<1> QED BY <1>1, <1>2, Steps, PTL

\* The runtime log is what was written to it, for any two limits, line length,
\* number of writers and pieces in which lines arrive: the counter of Add that
\* decides about evictions is exact and within its limit, an entry is one line
\* cut where it is too long and nowhere else, and ReadLast returns the newest
\* entries wherever the ring has wrapped around.
THEOREM ExactLog == ServicesSpec => []LogExact
<1>1. LogInv => LogExact
  BY ReadsTheNewest DEF LogInv, LogExact
<1> QED BY <1>1, LogInvariant, PTL

\* Add evicts the oldest entries and no more than it has to: the ring with its
\* two limits, its loop and its indices modulo the limit implements the log
\* that is the longest end of what was written that fits.
THEOREM RingRefines == ServicesSpec => ImplementsBoundedLog
<1>1. ServicesInit => BoundedLog!Init
  BY LogStarts DEF ServicesInit, BoundedLog!Init
<1>2. LogInv /\ [ServicesNext]_all => [BoundedLog!Next]_Log
  <2> SUFFICES ASSUME LogInv, [ServicesNext]_all PROVE [BoundedLog!Next]_Log
    OBVIOUS
  <2>1. ASSUME UNCHANGED store PROVE Log' = Log
    BY <2>1 DEF store, Log, Slot
  <2>2. ASSUME NEW e \in Entry, Add(e)
        PROVE  BoundedLog!Next
    <3>1. Log' = BoundedLog!Trimmed(Append(Log, e)) /\ e.size <= ByteLimit
      BY <2>2, AddRefines DEF Add
    <3> HIDE DEF Log
    <3> QED BY <3>1 DEF BoundedLog!Next, BoundedLog!Add
  <2>3. ASSUME NEW w \in Writers, NEW n \in PartLengths, WriteLine(w, n)
        PROVE  UNCHANGED store \/ \E e \in Entry : Add(e)
    <3> DEFINE kept == Kept(w, n)
               rec == Received(w, n)
    <3>1. n \in Nat /\ MaxLine \in Nat
      BY LimitAssumption
    <3>2. kept \in 0..MaxLine /\ rec \in 0..(MaxLine + 1) /\ (kept > 0 => rec > 0)
      BY <3>1, PartReceived
    <3>3. AddLine(kept, rec)
      BY <2>3 DEF WriteLine
    <3> HIDE DEF kept, rec
    <3>4. ASSUME NEW bytes \in EntrySizes, kept > 0
          PROVE  [kept |-> kept, received |-> rec, size |-> bytes] \in Entry
      BY <3>1, <3>2, <3>4 DEF Entry
    <3> QED BY <3>3, <3>4 DEF AddLine, Refuse
  <2>4. CASE Next
    <3>1. PICK w \in Writers, n \in PartLengths : WritePart(w, n) \/ WriteLine(w, n)
      BY <2>4 DEF Next
    <3>2. UNCHANGED store \/ \E e \in Entry : Add(e)
      BY <2>3, <3>1 DEF WritePart
    <3> QED BY <2>1, <2>2, <3>2
  <2>5. CASE UNCHANGED vars
    BY <2>1, <2>5 DEF vars
  <2> QED BY <2>4, <2>5, LogStep
<1>3. ImplementsBoundedLog <=> BoundedLog!Init /\ [][BoundedLog!Next]_Log
  BY DEF ImplementsBoundedLog, BoundedLog!Spec
<1> QED BY <1>1, <1>2, <1>3, LogInvariant, Steps, PTL

----------------------------------------------------------------------------
(* The audit log: writing.                                                 *)

Cell == [event : Nat, part : Nat]

AuditTypes ==
  /\ size \in Seq(Nat \ {0}) /\ file \in Seq(Cell)
  /\ \A i \in DOMAIN file : file[i].event <= Len(size)
  /\ writer \in [Requests -> [pc : {"idle", "stamped", "writing"},
                              event : Nat, written : Nat]]
  /\ mu \in Requests \cup {"nobody"}
  /\ recorded \subseteq 1..Len(size) /\ tears \in Nat

(* The writer that holds the lock is the one that writes.                  *)
AuditLocked ==
  \A w \in Requests :
    /\ writer[w].pc = "writing" <=> mu = w
    /\ writer[w].pc # "writing" => writer[w].written = 0
    /\ writer[w].pc # "idle" => writer[w].event \in 1..Len(size)
    /\ writer[w].pc = "writing" => writer[w].written <= size[writer[w].event]

(* The cells of a write that is going on: the last of the file.            *)
Held == IF mu = "nobody" THEN 0 ELSE writer[mu].written

AuditTail ==
  /\ Held <= Len(file)
  /\ mu # "nobody" =>
       \A j \in 1..Held : file[Len(file) - Held + j] = Audit!Entry(writer[mu].event)[j]

(* A write that stopped has left a line without its end in front of them.  *)
Dirty == Held < Len(file) /\ file[Len(file) - Held] # Audit!Newline

(* The events that have a line of their own, with its newline.             *)
IntactAt(e, i) ==
  /\ i = 0 \/ file[i] = Audit!Newline
  /\ i + size[e] + 1 <= Len(file)
  /\ \A k \in 1..(size[e] + 1) : file[i + k] = Audit!Entry(e)[k]

Intact == {e \in 1..Len(size) : \E i \in 0..Len(file) : IntactAt(e, i)}

AuditDamage == Cardinality(recorded \ Intact) + (IF Dirty THEN 1 ELSE 0) <= tears

AuditInv == AuditTypes /\ AuditLocked /\ AuditTail /\ AuditDamage

LEMMA EntryIs ==
  ASSUME size \in Seq(Nat \ {0}), NEW e \in 1..Len(size)
  PROVE  /\ size[e] \in Nat \ {0} /\ Audit!Entry(e) \in Seq(Cell)
         /\ Len(Audit!Entry(e)) = size[e] + 1
         /\ Audit!Entry(e)[size[e] + 1] = Audit!Newline
         /\ \A k \in 1..size[e] : /\ Audit!Entry(e)[k] = [event |-> e, part |-> k]
                                  /\ Audit!Entry(e)[k] # Audit!Newline
         /\ \A k \in 1..(size[e] + 1) : Audit!Entry(e)[k].event <= e
         /\ Audit!Newline \in Cell /\ Audit!Newline.event = 0
<1>1. size[e] \in Nat \ {0} /\ e \in Nat \ {0}
  BY LenProperties
<1> DEFINE s == [k \in 1..size[e] |-> [event |-> e, part |-> k]]
<1>2. Audit!Newline \in Cell /\ Audit!Newline.event = 0
  BY DEF Audit!Newline, Cell
<1>3. s \in Seq(Cell) /\ Len(s) = size[e]
      /\ \A k \in 1..size[e] : s[k] = [event |-> e, part |-> k]
  <2>1. \A k \in 1..size[e] : [event |-> e, part |-> k] \in Cell
    BY <1>1 DEF Cell
  <2>2. s \in [1..size[e] -> Cell]
    <3> HIDE DEF Cell
    <3> QED BY <2>1
  <2> HIDE DEF Cell
  <2> QED BY <1>1, <2>2
<1>4. Audit!Entry(e) = Append(s, Audit!Newline)
  BY DEF Audit!Entry
<1> HIDE DEF s
<1>5. /\ Audit!Entry(e) \in Seq(Cell) /\ Len(Audit!Entry(e)) = size[e] + 1
      /\ Audit!Entry(e)[size[e] + 1] = Audit!Newline
      /\ \A k \in 1..size[e] : Audit!Entry(e)[k] = [event |-> e, part |-> k]
  BY <1>1, <1>2, <1>3, <1>4, AppendProperties
<1>6. \A k \in 1..size[e] : Audit!Entry(e)[k].event = e /\ Audit!Entry(e)[k] # Audit!Newline
  <2> SUFFICES ASSUME NEW k \in 1..size[e]
               PROVE  Audit!Entry(e)[k].event = e /\ Audit!Entry(e)[k] # Audit!Newline
    OBVIOUS
  <2>1. Audit!Entry(e)[k].event = e
    <3>1. Audit!Entry(e)[k] = [event |-> e, part |-> k]
      BY <1>5
    <3> QED BY <3>1
  <2> QED BY <1>1, <1>2, <2>1
<1>7. ASSUME NEW k \in 1..(size[e] + 1)
      PROVE  Audit!Entry(e)[k].event <= e
  <2>1. k \in 1..size[e] \/ k = size[e] + 1
    BY <1>1
  <2> QED BY <1>1, <1>2, <1>5, <1>6, <2>1
<1> QED BY <1>1, <1>2, <1>5, <1>6, <1>7

(* An event that has its line keeps it, as the file and the list of events *)
(* only grow.                                                              *)
LEMMA IntactKept ==
  ASSUME size \in Seq(Nat \ {0}), size' \in Seq(Nat \ {0}), file \in Seq(Cell),
         file' \in Seq(Cell), Len(size) <= Len(size'), Len(file) <= Len(file'),
         \A e \in 1..Len(size) : size'[e] = size[e],
         \A i \in 1..Len(file) : file'[i] = file[i]
  PROVE  Intact \subseteq Intact'
<1> SUFFICES ASSUME NEW e \in Intact PROVE e \in Intact'
  OBVIOUS
<1>1. PICK i \in 0..Len(file) : IntactAt(e, i)
  BY DEF Intact
<1>2. e \in 1..Len(size) /\ e \in 1..Len(size') /\ size'[e] = size[e]
  BY LenProperties DEF Intact
<1>3. size[e] \in Nat /\ Len(file) \in Nat /\ Len(file') \in Nat
  BY <1>2, EntryIs, LenProperties
<1>4. Audit!Entry(e)' = Audit!Entry(e)
  BY <1>2 DEF Audit!Entry, Audit!Newline
<1>8. /\ i = 0 \/ file[i] = Audit!Newline
      /\ i + size[e] + 1 <= Len(file)
      /\ \A k \in 1..(size[e] + 1) : file[i + k] = Audit!Entry(e)[k]
  BY <1>1 DEF IntactAt
<1>9. i \in Nat /\ i <= Len(file)
  BY <1>3
<1>5. i \in 0..Len(file') /\ (i = 0 \/ file'[i] = Audit!Newline)
      /\ i + size'[e] + 1 <= Len(file')
  <2>1. i \in 0..Len(file') /\ i + size'[e] + 1 <= Len(file')
    BY <1>2, <1>3, <1>8, <1>9
  <2>2. i = 0 \/ i \in 1..Len(file)
    BY <1>3, <1>9
  <2> QED BY <1>8, <2>1, <2>2
<1>6. ASSUME NEW k \in 1..(size'[e] + 1)
      PROVE  file'[i + k] = Audit!Entry(e)'[k]
  <2>1. k \in 1..(size[e] + 1) /\ i + k \in 1..Len(file)
    BY <1>2, <1>3, <1>8, <1>9
  <2> QED BY <1>4, <1>8, <2>1
<1>7. IntactAt(e, i)'
  BY <1>5, <1>6 DEF IntactAt, Audit!Newline
<1> QED BY <1>2, <1>5, <1>7 DEF Intact

LEMMA LostFinite ==
  ASSUME AuditTypes, NEW S
  PROVE  IsFiniteSet(recorded \ S) /\ Cardinality(recorded \ S) \in Nat
<1>1. Len(size) \in Nat
  BY LenProperties DEF AuditTypes
<1>2. IsFiniteSet(1..Len(size))
  BY <1>1, FS_Interval
<1>3. recorded \ S \subseteq 1..Len(size)
  BY DEF AuditTypes
<1> QED BY <1>2, <1>3, FS_Subset, FS_CardinalityType

(* Damage does not grow if no event is recorded and no line is lost.       *)
LEMMA DamageSame ==
  ASSUME AuditTypes, AuditDamage, Intact \subseteq Intact', recorded' = recorded,
         tears' \in Nat, tears <= tears', Dirty' => Dirty \/ tears' >= tears + 1
  PROVE  AuditDamage'
<1>1. IsFiniteSet(recorded \ Intact) /\ Cardinality(recorded \ Intact) \in Nat
  BY LostFinite
<1>2. recorded' \ Intact' \subseteq recorded \ Intact
  OBVIOUS
<1>3. /\ Cardinality(recorded' \ Intact') <= Cardinality(recorded \ Intact)
      /\ Cardinality(recorded' \ Intact') \in Nat
  BY <1>1, <1>2, FS_Subset, FS_CardinalityType
<1>4. tears \in Nat
  BY DEF AuditTypes
<1> HIDE DEF Dirty, Intact
<1> QED BY <1>1, <1>3, <1>4 DEF AuditDamage

LEMMA AuditFields ==
  ASSUME AuditTypes
  PROVE  /\ Len(size) \in Nat /\ Len(file) \in Nat
         /\ \A w \in Requests : /\ writer[w].event \in Nat /\ writer[w].written \in Nat
                                /\ writer[w].pc \in {"idle", "stamped", "writing"}
         /\ \A i \in 1..Len(file) : file[i] \in Cell /\ file[i].event <= Len(size)
         /\ \A e \in 1..Len(size) : size[e] \in Nat \ {0}
         /\ "nobody" \notin Requests /\ Held \in Nat
<1>1. Len(size) \in Nat /\ Len(file) \in Nat /\ DOMAIN file = 1..Len(file)
  BY LenProperties DEF AuditTypes
<1>2. \A w \in Requests : /\ writer[w].event \in Nat /\ writer[w].written \in Nat
                          /\ writer[w].pc \in {"idle", "stamped", "writing"}
  BY DEF AuditTypes
<1>3. Held \in Nat
  BY <1>2 DEF Held, AuditTypes
<1>4. \A i \in 1..Len(file) : file[i] \in Cell
  BY LenProperties DEF AuditTypes
<1>5. \A e \in 1..Len(size) : size[e] \in Nat \ {0}
  BY LenProperties DEF AuditTypes
<1> QED BY <1>1, <1>2, <1>3, <1>4, <1>5, AuditAssumption DEF AuditTypes

LEMMA FileSameIntact ==
  ASSUME AuditTypes, file' = file, size' = size
  PROVE  Intact' = Intact
BY DEF Intact, IntactAt, Audit!Entry, Audit!Newline

LEMMA AuditRecord ==
  ASSUME AuditInv, NEW w \in Requests, NEW length \in Lengths, Audit!Record(w, length)
  PROVE  AuditInv'
<1> USE DEF AuditInv
<1>1. /\ writer[w].pc = "idle" /\ size' = Append(size, length)
      /\ writer' = [writer EXCEPT ![w] = [pc |-> "stamped", event |-> Len(size) + 1,
                                          written |-> 0]]
      /\ UNCHANGED <<file, mu, recorded, tears>>
  BY DEF Audit!Record
<1>2. length \in Nat \ {0} /\ size \in Seq(Nat \ {0}) /\ Len(size) \in Nat
  BY AuditAssumption, LenProperties DEF AuditTypes
<1>3. /\ size' \in Seq(Nat \ {0}) /\ Len(size') = Len(size) + 1
      /\ \A e \in 1..Len(size) : size'[e] = size[e]
  BY <1>1, <1>2, AppendProperties
<1>4. AuditTypes'
  <2>1. writer' \in [Requests -> [pc : {"idle", "stamped", "writing"},
                                  event : Nat, written : Nat]]
    BY <1>1, <1>2 DEF AuditTypes
  <2>2. \A i \in DOMAIN file' : file'[i].event <= Len(size')
    <3> SUFFICES ASSUME NEW i \in DOMAIN file PROVE file[i].event <= Len(size) + 1
      BY <1>1, <1>3
    <3>1. file[i].event \in Nat /\ file[i].event <= Len(size)
      <4>1. i \in 1..Len(file)
        BY LenProperties DEF AuditTypes
      <4>2. file[i] \in Cell /\ file[i].event <= Len(size)
        BY <4>1, AuditFields
      <4> QED BY <4>2 DEF Cell
    <3> QED BY <1>2, <3>1
  <2>3. recorded' \subseteq 1..Len(size')
    BY <1>1, <1>2, <1>3 DEF AuditTypes
  <2> QED BY <1>1, <1>3, <2>1, <2>2, <2>3 DEF AuditTypes
<1>5. /\ writer'[w] = [pc |-> "stamped", event |-> Len(size) + 1, written |-> 0]
      /\ \A v \in Requests : v # w => writer'[v] = writer[v]
  BY <1>1 DEF AuditTypes
<1>6. AuditLocked'
  <2> SUFFICES ASSUME NEW v \in Requests
               PROVE  /\ writer'[v].pc = "writing" <=> mu' = v
                      /\ writer'[v].pc # "writing" => writer'[v].written = 0
                      /\ writer'[v].pc # "idle" => writer'[v].event \in 1..Len(size')
                      /\ writer'[v].pc = "writing" =>
                           writer'[v].written <= size'[writer'[v].event]
    BY DEF AuditLocked
  <2>1. CASE v = w
    <3>1. writer'[v].pc = "stamped" /\ writer'[v].event = Len(size) + 1
          /\ writer'[v].written = 0
      BY <1>5, <2>1
    <3>2. mu' # v
      BY <1>1, <2>1 DEF AuditLocked
    <3> QED BY <1>2, <1>3, <3>1, <3>2
  <2>2. CASE v # w
    <3>1. writer'[v] = writer[v] /\ mu' = mu
      BY <1>1, <1>5, <2>2
    <3>2. /\ writer[v].pc = "writing" <=> mu = v
          /\ writer[v].pc # "writing" => writer[v].written = 0
          /\ writer[v].pc # "idle" => writer[v].event \in 1..Len(size)
          /\ writer[v].pc = "writing" => writer[v].written <= size[writer[v].event]
      BY DEF AuditLocked
    <3>3. writer[v].event \in 1..Len(size) =>
            /\ writer[v].event \in 1..Len(size')
            /\ size'[writer[v].event] = size[writer[v].event]
      BY <1>2, <1>3
    <3> QED BY <3>1, <3>2, <3>3
  <2> QED BY <2>1, <2>2
<1>7. mu # w /\ Held' = Held /\ (mu # "nobody" => writer'[mu] = writer[mu])
  <2>1. mu # w
    BY <1>1 DEF AuditLocked
  <2>2. mu # "nobody" => writer'[mu] = writer[mu]
    BY <1>5, <2>1 DEF AuditTypes
  <2> QED BY <1>1, <2>1, <2>2 DEF Held
<1>8. AuditTail'
  <2>1. Held' <= Len(file')
    BY <1>1, <1>7 DEF AuditTail
  <2>2. ASSUME mu # "nobody", NEW j \in 1..Held
        PROVE  file'[Len(file') - Held' + j] = Audit!Entry(writer[mu].event)'[j]
    <3>1. writer[mu].event \in 1..Len(size)
      BY <2>2 DEF AuditLocked, AuditTypes
    <3>2. size'[writer[mu].event] = size[writer[mu].event]
      BY <1>3, <3>1
    <3>3. Audit!Entry(writer[mu].event)' = Audit!Entry(writer[mu].event)
      BY <1>7, <2>2, <1>1, <3>2 DEF Audit!Entry, Audit!Newline
    <3> QED BY <1>1, <1>7, <2>2, <3>3 DEF AuditTail
  <2> QED BY <1>1, <1>7, <2>1, <2>2 DEF AuditTail
<1>9. AuditDamage'
  <2>1. Intact \subseteq Intact'
    BY <1>1, <1>2, <1>3, IntactKept, AuditFields DEF AuditTypes
  <2>2. Dirty' = Dirty
    BY <1>1, <1>7 DEF Dirty, Audit!Newline
  <2>3. tears' = tears /\ tears \in Nat
    BY <1>1 DEF AuditTypes
  <2> QED BY <1>1, <2>1, <2>2, <2>3, DamageSame
<1> QED BY <1>4, <1>6, <1>8, <1>9

LEMMA AuditLock ==
  ASSUME AuditInv, NEW w \in Requests, Audit!Lock(w)
  PROVE  AuditInv'
<1> USE DEF AuditInv
<1>1. /\ writer[w].pc = "stamped" /\ mu = "nobody" /\ mu' = w
      /\ writer' = [writer EXCEPT ![w].pc = "writing"]
      /\ UNCHANGED <<file, size, recorded, tears>>
  BY DEF Audit!Lock, Audit!MutexFree, Audit!Nobody
<1>2. /\ writer'[w].pc = "writing" /\ writer'[w].event = writer[w].event
      /\ writer'[w].written = writer[w].written
      /\ \A v \in Requests : v # w => writer'[v] = writer[v]
  BY <1>1 DEF AuditTypes
<1>3. AuditTypes'
  BY <1>1 DEF AuditTypes
<1>4. /\ writer[w].written = 0 /\ writer[w].event \in 1..Len(size)
      /\ size[writer[w].event] \in Nat
  BY <1>1, AuditFields DEF AuditLocked
<1>5. AuditLocked'
  <2> SUFFICES ASSUME NEW v \in Requests
               PROVE  /\ writer'[v].pc = "writing" <=> mu' = v
                      /\ writer'[v].pc # "writing" => writer'[v].written = 0
                      /\ writer'[v].pc # "idle" => writer'[v].event \in 1..Len(size')
                      /\ writer'[v].pc = "writing" =>
                           writer'[v].written <= size'[writer'[v].event]
    BY DEF AuditLocked
  <2>1. CASE v = w
    BY <1>1, <1>2, <1>4, <2>1
  <2>2. CASE v # w
    BY <1>1, <1>2, <2>2, AuditAssumption DEF AuditLocked
  <2> QED BY <2>1, <2>2
<1>6. Held = 0 /\ Held' = 0
  BY <1>1, <1>2, <1>4, AuditAssumption DEF Held
<1>7. AuditTail'
  BY <1>1, <1>6, AuditFields DEF AuditTail
<1>8. AuditDamage'
  <2>1. Intact' = Intact
    BY <1>1, FileSameIntact
  <2>2. Dirty' = Dirty
    BY <1>1, <1>6 DEF Dirty, Audit!Newline
  <2> QED BY <1>1, <2>1, <2>2 DEF AuditDamage
<1> QED BY <1>3, <1>5, <1>7, <1>8

(* A writer that stops leaves what it wrote without its end.               *)
LEMMA AuditStops ==
  ASSUME AuditInv, UNCHANGED <<file, size, recorded>>,
         tears' \in Nat, tears <= tears', mu' = "nobody", AuditTypes',
         \A w \in Requests : /\ writer'[w].written = 0
                             /\ writer'[w].pc # "writing"
                             /\ writer'[w].pc # "idle" => writer'[w] = writer[w],
         Held > 0 => tears' >= tears + 1
  PROVE  AuditInv'
<1> USE DEF AuditInv
<1>1. Held' = 0
  BY DEF Held
<1>2. AuditTail'
  BY <1>1, AuditFields DEF AuditTail
<1>3. AuditLocked'
  BY AuditAssumption DEF AuditLocked
<1>4. AuditDamage'
  <2>1. Intact \subseteq Intact'
    BY FileSameIntact
  <2>2. Held \in Nat
    BY AuditFields
  <2>3. Dirty' => Dirty \/ tears' >= tears + 1
    <3>1. CASE Held = 0
      <4>1. Dirty' = Dirty
        BY <1>1, <3>1 DEF Dirty, Audit!Newline
      <4> QED BY <4>1
    <3>2. CASE Held > 0
      BY <3>2
    <3> QED BY <2>2, <3>1, <3>2
  <2> QED BY <2>1, <2>3, DamageSame
<1> QED BY <1>2, <1>3, <1>4

LEMMA AuditRecordFails ==
  ASSUME AuditInv, NEW w \in Requests, Audit!RecordFails(w)
  PROVE  AuditInv'
<1>1. /\ writer[w].pc = "writing" /\ mu' = "nobody"
      /\ writer' = [writer EXCEPT ![w] = [pc |-> "idle", event |-> 0, written |-> 0]]
      /\ tears' = IF writer[w].written > 0 THEN tears + 1 ELSE tears
      /\ UNCHANGED <<file, size, recorded>>
  BY DEF Audit!RecordFails, Audit!Nobody, Audit!Idle
<1>2. mu = w /\ Held = writer[w].written
  BY <1>1, AuditAssumption DEF AuditInv, AuditLocked, Held
<1>3. tears \in Nat /\ writer[w].written \in Nat
  BY AuditFields DEF AuditInv, AuditTypes
<1>4. tears' \in Nat /\ tears <= tears' /\ (Held > 0 => tears' >= tears + 1)
  BY <1>1, <1>2, <1>3
<1>5. AuditTypes'
  BY <1>1, <1>4 DEF AuditInv, AuditTypes
<1>6. \A v \in Requests : /\ writer'[v].written = 0 /\ writer'[v].pc # "writing"
                          /\ writer'[v].pc # "idle" => writer'[v] = writer[v]
  <2> SUFFICES ASSUME NEW v \in Requests
               PROVE  /\ writer'[v].written = 0 /\ writer'[v].pc # "writing"
                      /\ writer'[v].pc # "idle" => writer'[v] = writer[v]
    OBVIOUS
  <2>1. CASE v = w
    BY <1>1, <2>1 DEF AuditInv, AuditTypes
  <2>2. CASE v # w
    <3>1. writer'[v] = writer[v]
      BY <1>1, <2>2 DEF AuditInv, AuditTypes
    <3>2. writer[v].pc # "writing" /\ writer[v].written = 0
      BY <1>2, <2>2 DEF AuditInv, AuditLocked
    <3> QED BY <3>1, <3>2
  <2> QED BY <2>1, <2>2
<1> QED BY <1>1, <1>4, <1>5, <1>6, AuditStops

LEMMA AuditRestart ==
  ASSUME AuditInv, Audit!Restart
  PROVE  AuditInv'
<1>1. /\ mu' = "nobody"
      /\ writer' = [w \in Requests |-> [pc |-> "idle", event |-> 0, written |-> 0]]
      /\ tears' = IF \E w \in Requests : writer[w].written > 0 THEN tears + 1 ELSE tears
      /\ UNCHANGED <<file, size, recorded>>
  BY DEF Audit!Restart, Audit!Nobody, Audit!Idle
<1>2. tears \in Nat
  BY DEF AuditInv, AuditTypes
<1>3. Held > 0 => \E w \in Requests : writer[w].written > 0
  BY DEF Held, AuditInv, AuditTypes
<1>4. tears' \in Nat /\ tears <= tears' /\ (Held > 0 => tears' >= tears + 1)
  BY <1>1, <1>2, <1>3
<1>5. AuditTypes'
  BY <1>1, <1>4 DEF AuditInv, AuditTypes
<1>6. \A v \in Requests : /\ writer'[v].written = 0 /\ writer'[v].pc # "writing"
                          /\ writer'[v].pc # "idle" => writer'[v] = writer[v]
  BY <1>1
<1> QED BY <1>1, <1>4, <1>5, <1>6, AuditStops

(* The file behind a write of n cells.                                     *)
LEMMA AuditGrows ==
  ASSUME AuditTypes, size' = size,
         NEW e \in 1..Len(size), NEW k \in Nat, NEW n \in Nat, n > 0,
         k + n <= size[e] + 1, k <= Len(file),
         \A j \in 1..k : file[Len(file) - k + j] = Audit!Entry(e)[j],
         file' = file \o SubSeq(Audit!Entry(e), k + 1, k + n)
  PROVE  /\ file' \in Seq(Cell) /\ Len(file') = Len(file) + n
         /\ \A i \in 1..Len(file) : file'[i] = file[i]
         /\ \A j \in 1..(k + n) : file'[Len(file) - k + j] = Audit!Entry(e)[j]
         /\ \A i \in DOMAIN file' : file'[i].event <= Len(size)
         /\ Intact \subseteq Intact'
<1> DEFINE t == SubSeq(Audit!Entry(e), k + 1, k + n)
           L == Len(file)
           E == Audit!Entry(e)
           z == size[e]
<1>2. z \in Nat \ {0} /\ L \in Nat /\ Len(size) \in Nat
  BY AuditFields
<1>4. size \in Seq(Nat \ {0}) /\ file \in Seq(Cell)
  BY DEF AuditTypes
<1>5. E \in Seq(Cell) /\ Len(E) = z + 1 /\ \A j \in 1..(z + 1) : E[j].event <= e
  BY <1>4, EntryIs
<1>6. k + n <= z + 1 /\ k <= L /\ \A j \in 1..k : file[L - k + j] = E[j]
  OBVIOUS
<1>7. /\ t \in Seq(Cell) /\ Len(t) = n
      /\ \A j \in 1..n : t[j] = E[k + j]
  <2> HIDE DEF E, z, L
  <2>1. k + 1 \in Int /\ k + n \in Int /\ (k + n) - (k + 1) + 1 = n /\ k + 1 <= k + n
    OBVIOUS
  <2>2. \A j \in (k + 1)..(k + n) : E[j] \in Cell
    <3>1. \A j \in (k + 1)..(k + n) : j \in 1..Len(E)
      BY <1>2, <1>5, <1>6
    <3> QED BY <1>5, <3>1, LenProperties
  <2>3. /\ t \in Seq(Cell)
        /\ Len(t) = IF k + 1 <= k + n THEN (k + n) - (k + 1) + 1 ELSE 0
        /\ \A j \in 1..((k + n) - (k + 1) + 1) : t[j] = E[(k + 1) + j - 1]
    BY <2>1, <2>2, SubSeqProperties DEF E
  <2>4. \A j \in 1..n : (k + 1) + j - 1 = k + j
    OBVIOUS
  <2> HIDE DEF t
  <2> QED BY <2>1, <2>3, <2>4
<1>9. file' = file \o t
  OBVIOUS
<1> HIDE DEF t, E, z
<1>10. /\ file' \in Seq(Cell) /\ Len(file') = L + n
       /\ \A i \in 1..(L + n) : file'[i] = IF i <= L THEN file[i] ELSE t[i - L]
  <2>1. /\ file \o t \in Seq(Cell) /\ Len(file \o t) = Len(file) + Len(t)
        /\ \A i \in 1..(Len(file) + Len(t)) :
             (file \o t)[i] = IF i <= Len(file) THEN file[i] ELSE t[i - Len(file)]
    BY <1>4, <1>7, ConcatProperties
  <2> QED BY <1>7, <1>9, <2>1
<1> HIDE DEF L
<1>11. \A i \in 1..L : file'[i] = file[i]
  BY <1>2, <1>10
<1>12. \A j \in 1..n : file'[L + j] = E[k + j]
  <2> SUFFICES ASSUME NEW j \in 1..n PROVE file'[L + j] = E[k + j]
    OBVIOUS
  <2>1. L + j \in 1..(L + n) /\ ~(L + j <= L) /\ (L + j) - L = j
    BY <1>2
  <2> QED BY <1>7, <1>10, <2>1
<1>13. ASSUME NEW j \in 1..(k + n)
       PROVE  file'[L - k + j] = E[j]
  <2>1. CASE j <= k
    <3>1. j \in 1..k /\ L - k + j \in 1..L
      BY <1>2, <1>6, <2>1
    <3> QED BY <1>6, <1>11, <3>1
  <2>2. CASE j > k
    <3>1. j - k \in 1..n /\ L + (j - k) = L - k + j /\ k + (j - k) = j
      <4>1. j \in Int /\ 1 <= j /\ j <= k + n /\ k < j
        BY <2>2
      <4> QED BY <1>2, <4>1
    <3>2. file'[L + (j - k)] = E[k + (j - k)]
      BY <1>12, <3>1
    <3> QED BY <3>1, <3>2
  <2>3. j <= k \/ j > k
    OBVIOUS
  <2> QED BY <2>1, <2>2, <2>3, Zenon
<1>14. ASSUME NEW i \in DOMAIN file'
       PROVE  file'[i].event <= Len(size)
  <2>1. i \in 1..(L + n)
    BY <1>10, LenProperties
  <2>2. CASE i <= L
    <3>1. i \in 1..L
      BY <1>2, <2>1, <2>2
    <3> QED BY <1>11, <3>1, AuditFields DEF L
  <2>3. CASE i > L
    <3>1. i - L \in 1..n /\ L + (i - L) = i
      BY <1>2, <2>1, <2>3
    <3>2. file'[L + (i - L)] = E[k + (i - L)]
      BY <1>12, <3>1
    <3>3. k + (i - L) \in 1..(z + 1)
      BY <1>2, <1>6, <3>1
    <3>4. file'[i].event <= e
      BY <1>5, <3>1, <3>2, <3>3
    <3>5. file'[i] \in Cell
      BY <1>10, <2>1, LenProperties
    <3>6. file'[i].event \in Nat
      BY <3>5 DEF Cell
    <3>7. e <= Len(size) /\ e \in Nat
      BY <1>2
    <3> HIDE DEF Cell
    <3> QED BY <1>2, <3>4, <3>6, <3>7
  <2>4. i \in Int /\ L \in Int
    BY <1>2, <2>1
  <2>5. i <= L \/ i > L
    BY <2>4
  <2> QED BY <2>2, <2>3, <2>5, Zenon
<1>15. Intact \subseteq Intact'
  <2>1. Len(size) <= Len(size') /\ Len(file) <= Len(file')
        /\ \A x \in 1..Len(size) : size'[x] = size[x]
    BY <1>2, <1>10 DEF L
  <2> QED BY <1>4, <1>10, <1>11, <2>1, IntactKept DEF L
<1> QED BY <1>10, <1>11, <1>13, <1>14, <1>15 DEF L, E

(* What a writer has written is the end of the file.                       *)
Writes(w, e, k) ==
  writer[w].pc = "writing" /\ writer[w].event = e /\ writer[w].written = k

LEMMA AuditWriting ==
  ASSUME AuditInv, NEW w \in Requests, NEW e, NEW k, Writes(w, e, k)
  PROVE  /\ mu = w /\ Held = k /\ w # "nobody"
         /\ e \in 1..Len(size) /\ k \in Nat /\ k <= size[e] /\ k <= Len(file)
         /\ \A j \in 1..k : file[Len(file) - k + j] = Audit!Entry(e)[j]
<1> USE DEF Writes
<1>1. mu = w /\ w # "nobody"
  BY AuditAssumption DEF AuditInv, AuditLocked
<1>2. Held = writer[w].written
  BY <1>1 DEF Held
<1>3. /\ writer[w].event \in 1..Len(size)
      /\ writer[w].written <= size[writer[w].event]
  BY DEF AuditInv, AuditLocked
<1>4. writer[w].written \in Nat
  BY AuditFields DEF AuditInv
<1>5. /\ Held <= Len(file)
      /\ \A j \in 1..Held : file[Len(file) - Held + j] = Audit!Entry(writer[mu].event)[j]
  BY <1>1 DEF AuditInv, AuditTail
<1> QED BY <1>1, <1>2, <1>3, <1>4, <1>5

Wrote(w, m) == writer' = [writer EXCEPT ![w].written = m]

LEMMA AuditPart ==
  ASSUME AuditInv, NEW w \in Requests, NEW e, NEW k, Writes(w, e, k),
         NEW n \in Nat, n > 0, k + n <= size[e],
         file' = file \o SubSeq(Audit!Entry(e), k + 1, k + n),
         Wrote(w, k + n),
         UNCHANGED <<size, mu, recorded, tears>>
  PROVE  AuditInv'
<1>0. /\ mu = w /\ Held = k /\ w # "nobody"
      /\ e \in 1..Len(size) /\ k \in Nat /\ k <= size[e] /\ k <= Len(file)
      /\ \A j \in 1..k : file[Len(file) - k + j] = Audit!Entry(e)[j]
  BY AuditWriting, Zenon
<1> DEFINE L == Len(file)
<1>1. /\ mu = w /\ Held = k /\ e \in 1..Len(size) /\ k \in Nat /\ k <= L
      /\ \A j \in 1..k : file[L - k + j] = Audit!Entry(e)[j]
  BY <1>0, Zenon
<1>2. size[e] \in Nat \ {0} /\ L \in Nat /\ Len(size) \in Nat /\ AuditTypes
  BY <1>1, AuditFields DEF AuditInv
<1>3. n \in Nat /\ n > 0 /\ k + n <= size[e]
  OBVIOUS
<1>12. k \in Nat /\ k <= L /\ L \in Nat
  BY <1>1, <1>2, Zenon
<1>4. /\ file' \in Seq(Cell) /\ Len(file') = L + n
      /\ \A i \in 1..L : file'[i] = file[i]
      /\ \A j \in 1..(k + n) : file'[L - k + j] = Audit!Entry(e)[j]
      /\ \A i \in DOMAIN file' : file'[i].event <= Len(size)
      /\ Intact \subseteq Intact'
  <2>1. k + n <= size[e] + 1
    BY <1>1, <1>2, <1>3
  <2> QED BY <1>1, <1>2, <1>3, <2>1, AuditGrows
<1>5. /\ writer'[w].pc = "writing" /\ writer'[w].event = e /\ writer'[w].written = k + n
      /\ \A v \in Requests : v # w => writer'[v] = writer[v]
      /\ writer' \in [Requests -> [pc : {"idle", "stamped", "writing"},
                                   event : Nat, written : Nat]]
  <2> DEFINE m == k + n
  <2>1. m \in Nat /\ Wrote(w, m)
    BY <1>1
  <2> HIDE DEF m
  <2>2. writer' = [writer EXCEPT ![w].written = m] /\ m \in Nat
    BY <2>1 DEF Wrote
  <2>3. /\ writer'[w].pc = "writing" /\ writer'[w].event = e /\ writer'[w].written = m
        /\ \A v \in Requests : v # w => writer'[v] = writer[v]
        /\ writer' \in [Requests -> [pc : {"idle", "stamped", "writing"},
                                     event : Nat, written : Nat]]
    BY <1>2, <2>2 DEF AuditTypes, Writes
  <2> QED BY <2>3 DEF m
<1> HIDE DEF L
<1>6. AuditTypes'
  BY <1>2, <1>4, <1>5 DEF AuditTypes
<1>7. AuditLocked'
  <2> SUFFICES ASSUME NEW v \in Requests
               PROVE  /\ writer'[v].pc = "writing" <=> mu' = v
                      /\ writer'[v].pc # "writing" => writer'[v].written = 0
                      /\ writer'[v].pc # "idle" => writer'[v].event \in 1..Len(size')
                      /\ writer'[v].pc = "writing" =>
                           writer'[v].written <= size'[writer'[v].event]
    BY DEF AuditLocked
  <2>1. CASE v = w
    BY <1>1, <1>2, <1>3, <1>5, <2>1
  <2>2. CASE v # w
    BY <1>1, <1>5, <2>2 DEF AuditInv, AuditLocked
  <2> QED BY <2>1, <2>2
<1>8. Held' = k + n /\ Len(file') - Held' = L - k /\ w # "nobody"
  <2>1. w # "nobody" /\ mu' = w
    BY <1>1, AuditAssumption
  <2>2. Held' = k + n
    BY <1>5, <2>1 DEF Held
  <2> QED BY <1>1, <1>2, <1>3, <1>4, <2>1, <2>2
<1>9. AuditTail'
  <2>1. Held' <= Len(file')
    BY <1>1, <1>2, <1>3, <1>4, <1>8
  <2>2. Audit!Entry(e)' = Audit!Entry(e)
    BY <1>1 DEF Audit!Entry, Audit!Newline
  <2>3. \A j \in 1..Held' : file'[Len(file') - Held' + j] = Audit!Entry(e)'[j]
    BY <1>4, <1>8, <2>2
  <2>4. mu' = w /\ writer'[w].event = e
    BY <1>1, <1>5
  <2> QED BY <2>1, <2>3, <2>4 DEF AuditTail
<1>10. Dirty' = Dirty
  <2>0. k + n < L + n <=> k < L
    BY <1>12
  <2>1. Held' < Len(file') <=> k < L
    BY <1>4, <1>8, <2>0
  <2>2. k < L => L - k \in 1..L
    BY <1>12
  <2>3. k < L => file'[Len(file') - Held'] = file[L - k]
    BY <1>4, <1>8, <2>2
  <2>4. Dirty = (k < L /\ file[L - k] # Audit!Newline)
    BY <1>1 DEF Dirty, L
  <2>5. Dirty' = (Held' < Len(file') /\ file'[Len(file') - Held'] # Audit!Newline)
    BY DEF Dirty, Audit!Newline
  <2> QED BY <2>1, <2>3, <2>4, <2>5
<1>11. AuditDamage'
  <2>1. tears' \in Nat /\ tears <= tears'
    BY <1>2 DEF AuditTypes
  <2> QED BY <1>2, <1>4, <1>10, <2>1, DamageSame DEF AuditInv
<1> QED BY <1>6, <1>7, <1>9, <1>11 DEF AuditInv

(* The end of a write gives the event a line of its own, unless the write  *)
(* began behind a line without its end.                                    *)
LEMMA AuditEnd ==
  ASSUME AuditInv, NEW w \in Requests, NEW e, NEW k, Writes(w, e, k),
         NEW n \in Nat, n > 0, k + n = size[e] + 1,
         file' = file \o SubSeq(Audit!Entry(e), k + 1, k + n),
         writer' = [writer EXCEPT ![w] = Audit!Idle], mu' = "nobody",
         recorded' = recorded \cup {e}, UNCHANGED <<size, tears>>
  PROVE  AuditInv'
<1>0. /\ mu = w /\ Held = k /\ w # "nobody"
      /\ e \in 1..Len(size) /\ k \in Nat /\ k <= size[e] /\ k <= Len(file)
      /\ \A j \in 1..k : file[Len(file) - k + j] = Audit!Entry(e)[j]
  BY AuditWriting, Zenon
<1> DEFINE L == Len(file)
<1>1. /\ mu = w /\ Held = k /\ e \in 1..Len(size) /\ k \in Nat /\ k <= L
      /\ \A j \in 1..k : file[L - k + j] = Audit!Entry(e)[j]
  BY <1>0, Zenon
<1>2. size[e] \in Nat \ {0} /\ L \in Nat /\ Len(size) \in Nat /\ AuditTypes
  BY <1>1, AuditFields DEF AuditInv
<1>3. n \in Nat /\ n > 0 /\ k + n <= size[e] + 1
  BY <1>1, <1>2
<1>13. k \in Nat /\ k <= L /\ L \in Nat
  BY <1>1, <1>2, Zenon
<1>4. /\ file' \in Seq(Cell) /\ Len(file') = L + n
      /\ \A i \in 1..L : file'[i] = file[i]
      /\ \A j \in 1..(k + n) : file'[L - k + j] = Audit!Entry(e)[j]
      /\ \A i \in DOMAIN file' : file'[i].event <= Len(size)
      /\ Intact \subseteq Intact'
  BY <1>1, <1>2, <1>3, AuditGrows
<1>5. /\ writer'[w].pc = "idle" /\ writer'[w].event = 0 /\ writer'[w].written = 0
      /\ \A v \in Requests : v # w => writer'[v] = writer[v]
      /\ writer' \in [Requests -> [pc : {"idle", "stamped", "writing"},
                                   event : Nat, written : Nat]]
  BY <1>1, <1>2 DEF AuditTypes, Audit!Idle
<1> HIDE DEF L
<1>6. AuditTypes'
  BY <1>1, <1>2, <1>4, <1>5 DEF AuditTypes
<1>7. AuditLocked'
  <2> SUFFICES ASSUME NEW v \in Requests
               PROVE  /\ writer'[v].pc = "writing" <=> mu' = v
                      /\ writer'[v].pc # "writing" => writer'[v].written = 0
                      /\ writer'[v].pc # "idle" => writer'[v].event \in 1..Len(size')
                      /\ writer'[v].pc = "writing" =>
                           writer'[v].written <= size'[writer'[v].event]
    BY DEF AuditLocked
  <2>1. CASE v = w
    BY <1>1, <1>2, <1>5, <2>1, AuditAssumption
  <2>2. CASE v # w
    BY <1>1, <1>5, <2>2, AuditAssumption DEF AuditInv, AuditLocked
  <2> QED BY <2>1, <2>2
<1>8. Held' = 0
  BY DEF Held
<1>9. AuditTail'
  BY <1>2, <1>3, <1>4, <1>8 DEF AuditTail
<1>10. ~Dirty'
  <2>0. L + n = L - k + (k + n) /\ k + n \in 1..(k + n) /\ (L + n) - 0 = L + n
    BY <1>3, <1>13
  <2>1. Len(file') = L - k + (k + n) /\ k + n \in 1..(k + n) /\ Len(file') - 0 = Len(file')
    BY <1>4, <2>0
  <2>2. file'[Len(file')] = Audit!Entry(e)[size[e] + 1]
    BY <1>4, <2>1
  <2>3. Audit!Entry(e)[size[e] + 1] = Audit!Newline
    BY <1>1, <1>2, EntryIs DEF AuditTypes
  <2> QED BY <1>8, <2>1, <2>2, <2>3 DEF Dirty, Audit!Newline
<1>11. ~Dirty => e \in Intact'
  <2> SUFFICES ASSUME ~Dirty PROVE e \in Intact'
    OBVIOUS
  <2>1. ~(k < L /\ file[L - k] # Audit!Newline)
    BY <1>1 DEF Dirty, L
  <2>2. PICK i \in Nat : i = L - k
    BY <1>1, <1>2
  <2>3. i \in 0..(L + n) /\ i + (k + n) <= L + n /\ (i = 0 \/ (i \in 1..L /\ k < L))
    BY <1>1, <1>2, <1>3, <2>2
  <2>4. i = 0 \/ file'[i] = Audit!Newline
    BY <1>4, <2>1, <2>2, <2>3
  <2>5. Audit!Entry(e)' = Audit!Entry(e) /\ size'[e] = size[e] /\ e \in 1..Len(size')
    BY <1>1 DEF Audit!Entry, Audit!Newline
  <2>6. \A j \in 1..(size'[e] + 1) : file'[i + j] = Audit!Entry(e)'[j]
    BY <1>4, <2>2, <2>5
  <2>7. i + size'[e] + 1 = i + (k + n)
    BY <1>2, <2>5
  <2>8. IntactAt(e, i)'
    BY <1>4, <2>3, <2>4, <2>6, <2>7 DEF IntactAt, Audit!Newline
  <2>9. i \in 0..Len(file')
    BY <1>4, <2>3
  <2> QED BY <2>5, <2>8, <2>9 DEF Intact
<1>12. AuditDamage'
  <2> DEFINE lost == recorded \ Intact
  <2>1. IsFiniteSet(lost) /\ Cardinality(lost) \in Nat /\ tears \in Nat
    BY <1>2, LostFinite DEF AuditTypes
  <2>2. CASE Dirty
    <3>1. IsFiniteSet(lost \cup {e}) /\ Cardinality(lost \cup {e}) <= Cardinality(lost) + 1
      <4> HIDE DEF lost
      <4>1. /\ IsFiniteSet(lost \cup {e})
            /\ Cardinality(lost \cup {e}) = Cardinality(lost)
               \/ Cardinality(lost \cup {e}) = Cardinality(lost) + 1
        BY <2>1, FS_AddElement
      <4> QED BY <2>1, <4>1
    <3>2. recorded' \ Intact' \subseteq lost \cup {e}
      BY <1>4
    <3>3. Cardinality(recorded' \ Intact') <= Cardinality(lost \cup {e})
          /\ Cardinality(recorded' \ Intact') \in Nat /\ Cardinality(lost \cup {e}) \in Nat
      BY <3>1, <3>2, FS_Subset, FS_CardinalityType
    <3>4. Cardinality(lost) + 1 <= tears
      BY <2>2 DEF AuditInv, AuditDamage
    <3>5. Cardinality(recorded' \ Intact') <= tears'
      BY <2>1, <3>1, <3>3, <3>4
    <3> QED BY <1>10, <2>1, <3>3, <3>5 DEF AuditDamage
  <2>3. CASE ~Dirty
    <3>1. recorded' \ Intact' \subseteq lost
      BY <1>4, <1>11, <2>3
    <3>2. Cardinality(recorded' \ Intact') <= Cardinality(lost)
          /\ Cardinality(recorded' \ Intact') \in Nat
      BY <2>1, <3>1, FS_Subset, FS_CardinalityType
    <3>3. Cardinality(lost) + 0 <= tears
      BY <2>3 DEF AuditInv, AuditDamage
    <3>4. Cardinality(recorded' \ Intact') <= tears'
      BY <2>1, <3>2, <3>3
    <3> QED BY <1>10, <2>1, <3>2, <3>4 DEF AuditDamage
  <2> QED BY <2>2, <2>3
<1> QED BY <1>6, <1>7, <1>9, <1>12 DEF AuditInv

LEMMA AuditWrite ==
  ASSUME AuditInv, NEW w \in Requests, Audit!Write(w)
  PROVE  AuditInv'
<1> DEFINE e == writer[w].event
           k == writer[w].written
<1>1. writer[w].pc = "writing" /\ UNCHANGED <<size, tears>>
  BY DEF Audit!Write
<1>2. PICK n \in 1..(size[e] + 1 - k) :
        /\ file' = file \o SubSeq(Audit!Entry(e), k + 1, k + n)
        /\ IF k + n = size[e] + 1
           THEN /\ writer' = [writer EXCEPT ![w] = Audit!Idle] /\ mu' = "nobody"
                /\ recorded' = recorded \cup {e}
           ELSE /\ writer' = [writer EXCEPT ![w].written = k + n]
                /\ UNCHANGED <<mu, recorded>>
  BY DEF Audit!Write, Audit!Nobody
<1>5. Writes(w, e, k)
  BY <1>1 DEF Writes
<1> HIDE DEF e, k
<1>6. e \in 1..Len(size) /\ k \in Nat /\ size[e] \in Nat
  BY <1>5, AuditWriting, AuditFields DEF AuditInv
<1>7. n \in Nat /\ n > 0 /\ (k + n = size[e] + 1 \/ k + n <= size[e])
  BY <1>6
<1>3. CASE k + n = size[e] + 1
  BY <1>1, <1>2, <1>3, <1>5, <1>7, AuditEnd
<1>4. CASE k + n <= size[e]
  <2>1. k + n # size[e] + 1
    BY <1>4, <1>6, <1>7
  <2> QED BY <1>1, <1>2, <1>4, <1>5, <1>7, <2>1, AuditPart DEF Wrote
<1> QED BY <1>3, <1>4, <1>7

LEMMA AuditStarts == ServicesInit => AuditInv
<1> SUFFICES ASSUME ServicesInit PROVE AuditInv
  OBVIOUS
<1>1. /\ file = <<>> /\ size = <<>> /\ mu = "nobody" /\ recorded = {} /\ tears = 0
      /\ writer = [w \in Requests |-> [pc |-> "idle", event |-> 0, written |-> 0]]
  BY DEF ServicesInit, Audit!Init, Audit!Nobody, Audit!Idle
<1>2. Len(file) = 0 /\ Len(size) = 0 /\ file \in Seq(Cell) /\ size \in Seq(Nat \ {0})
      /\ DOMAIN file = {}
  BY <1>1
<1>3. Held = 0
  BY <1>1 DEF Held
<1>4. AuditTypes
  BY <1>1, <1>2 DEF AuditTypes
<1>5. AuditLocked
  BY <1>1, AuditAssumption DEF AuditLocked
<1>6. AuditTail
  BY <1>1, <1>2, <1>3 DEF AuditTail
<1>7. AuditDamage
  <2>1. ~Dirty
    BY <1>2, <1>3 DEF Dirty
  <2>2. recorded \ Intact = {}
    BY <1>1
  <2>3. Cardinality(recorded \ Intact) = 0
    BY <2>2, FS_EmptySet
  <2> QED BY <1>1, <2>1, <2>3 DEF AuditDamage
<1> QED BY <1>4, <1>5, <1>6, <1>7 DEF AuditInv

(* ReadLast writes nothing.                                                *)
LEMMA AuditSame ==
  ASSUME AuditInv, UNCHANGED <<file, size, writer, mu, recorded, tears>>
  PROVE  AuditInv'
<1>1. AuditTypes' = AuditTypes
  BY DEF AuditTypes
<1>2. AuditLocked' = AuditLocked
  BY DEF AuditLocked
<1>3. Held' = Held
  BY DEF Held
<1>4. AuditTail'
  BY <1>3 DEF AuditInv, AuditTail, Audit!Entry, Audit!Newline
<1>5. Dirty' = Dirty /\ Intact' = Intact
  BY <1>3, FileSameIntact DEF Dirty, AuditInv, Audit!Newline
<1>6. AuditDamage'
  BY <1>5 DEF AuditInv, AuditDamage
<1> QED BY <1>1, <1>2, <1>4, <1>6 DEF AuditInv

LEMMA AuditStep ==
  ASSUME [ServicesNext]_all
  PROVE  Audit!Next \/ UNCHANGED auditVars
BY DEF ServicesNext, all

LEMMA AuditNext ==
  ASSUME AuditInv, [ServicesNext]_all
  PROVE  AuditInv'
<1>1. CASE UNCHANGED auditVars
  BY <1>1, AuditSame DEF auditVars
<1>2. CASE Audit!Next
  <2>1. ASSUME NEW w \in Requests,
               \/ \E length \in Lengths : Audit!Record(w, length)
               \/ Audit!Lock(w) \/ Audit!Write(w) \/ Audit!RecordFails(w)
        PROVE  AuditInv'
    BY <2>1, AuditRecord, AuditLock, AuditWrite, AuditRecordFails
  <2>2. CASE Audit!Restart
    BY <2>2, AuditRestart
  <2>3. CASE \E limit \in Limits : Audit!ReadLast(limit)
    BY <2>3, AuditSame DEF Audit!ReadLast
  <2>4. CASE Audit!ReadBlock
    BY <2>4, AuditSame DEF Audit!ReadBlock
  <2>5. CASE Audit!ScanLine
    BY <2>5, AuditSame DEF Audit!ScanLine
  <2>6. CASE Audit!EndBlock
    BY <2>6, AuditSame DEF Audit!EndBlock
  <2>7. CASE Audit!Answered
    BY <2>7, AuditSame DEF Audit!Answered
  <2> QED BY <1>2, <2>1, <2>2, <2>3, <2>4, <2>5, <2>6, <2>7 DEF Audit!Next
<1> QED BY <1>1, <1>2, AuditStep

LEMMA AuditInvariant == ServicesSpec => []AuditInv
<1>1. AuditInv /\ [ServicesNext]_all => AuditInv'
  BY AuditNext
<1> QED BY <1>1, AuditStarts, Steps, PTL

(* The cells from a to the one in front of b.                              *)
LEMMA TextIs ==
  ASSUME NEW f \in Seq(Cell), NEW a \in Nat, NEW b \in Nat,
         1 <= a, a <= b, b <= Len(f) + 1
  PROVE  /\ SubSeq(f, a, b - 1) \in Seq(Cell)
         /\ Len(SubSeq(f, a, b - 1)) = b - a
         /\ \A j \in 1..(b - a) : SubSeq(f, a, b - 1)[j] = f[a + j - 1]
<1>1. Len(f) \in Nat
  BY LenProperties
<1>2. \A i \in a..(b - 1) : f[i] \in Cell
  <2>1. \A i \in a..(b - 1) : i \in 1..Len(f)
    BY <1>1
  <2> QED BY <2>1, LenProperties
<1>3. /\ SubSeq(f, a, b - 1) \in Seq(Cell)
      /\ Len(SubSeq(f, a, b - 1)) = IF a <= b - 1 THEN (b - 1) - a + 1 ELSE 0
      /\ \A j \in 1..((b - 1) - a + 1) : SubSeq(f, a, b - 1)[j] = f[a + j - 1]
  <2>1. a \in Int /\ b - 1 \in Int
    OBVIOUS
  <2> QED BY <1>2, <2>1, SubSeqProperties
<1>4. (b - 1) - a + 1 = b - a /\ (~(a <= b - 1) => b - a = 0)
  OBVIOUS
<1> DEFINE t == SubSeq(f, a, b - 1)
<1> HIDE DEF t
<1> QED BY <1>3, <1>4 DEF t

(* An event that has a line of its own can be read.                        *)
LEMMA IntactReadable ==
  ASSUME AuditTypes
  PROVE  Intact \subseteq Audit!Readable
<1> SUFFICES ASSUME NEW e \in Intact PROVE e \in Audit!Readable
  OBVIOUS
<1>1. PICK i \in 0..Len(file) : IntactAt(e, i)
  BY DEF Intact
<1> DEFINE N == Len(file)
           E == Audit!Entry(e)
           z == size[e]
           line == <<i + 1, i + z + 1>>
           t == SubSeq(file, i + 1, (i + z + 1) - 1)
<1>2. e \in 1..Len(size) /\ N \in Nat /\ i \in Nat /\ file \in Seq(Cell)
      /\ size \in Seq(Nat \ {0})
  BY AuditFields DEF Intact, AuditTypes
<1>3. /\ z \in Nat \ {0} /\ E \in Seq(Cell) /\ Len(E) = z + 1
      /\ E[z + 1] = Audit!Newline /\ Audit!Newline \in Cell
      /\ \A k \in 1..z : E[k] = [event |-> e, part |-> k] /\ E[k] # Audit!Newline
  BY <1>2, EntryIs
<1>4. /\ i = 0 \/ file[i] = Audit!Newline
      /\ i + z + 1 <= N
      /\ \A k \in 1..(z + 1) : file[i + k] = E[k]
  BY <1>1 DEF IntactAt
<1> HIDE DEF E, z, N
<1>5. /\ t \in Seq(Cell) /\ Len(t) = z
      /\ \A j \in 1..z : t[j] = E[j]
  <2>1. /\ i + 1 \in Nat /\ i + z + 1 \in Nat /\ 1 <= i + 1 /\ i + 1 <= i + z + 1
        /\ i + z + 1 <= N + 1 /\ (i + z + 1) - (i + 1) = z
    BY <1>2, <1>3, <1>4
  <2>2. /\ t \in Seq(Cell) /\ Len(t) = (i + z + 1) - (i + 1)
        /\ \A j \in 1..((i + z + 1) - (i + 1)) : t[j] = file[(i + 1) + j - 1]
    BY <1>2, <2>1, TextIs DEF N
  <2>3. \A j \in 1..z : (i + 1) + j - 1 = i + j /\ j \in 1..(z + 1)
    BY <1>2, <1>3
  <2> HIDE DEF t
  <2> QED BY <1>4, <2>1, <2>2, <2>3
<1>6. Append(t, Audit!Newline) = E
  <2> HIDE DEF t
  <2>1. /\ Append(t, Audit!Newline) \in Seq(Cell)
        /\ Len(Append(t, Audit!Newline)) = z + 1
        /\ \A j \in 1..z : Append(t, Audit!Newline)[j] = t[j]
        /\ Append(t, Audit!Newline)[z + 1] = Audit!Newline
    BY <1>3, <1>5, AppendProperties
  <2>2. ASSUME NEW j \in 1..(z + 1)
        PROVE  Append(t, Audit!Newline)[j] = E[j]
    <3>1. j \in 1..z \/ j = z + 1
      BY <1>3
    <3> QED BY <1>3, <1>5, <2>1, <3>1
  <2> QED BY <1>3, <2>1, <2>2, SeqEqual
<1>7. Audit!TextOf(line) = t
  BY DEF Audit!TextOf
<1>8. Audit!Valid(t)
  <2>1. e \in DOMAIN size
    BY <1>2, LenProperties
  <2> HIDE DEF t
  <2> QED BY <1>6, <2>1 DEF Audit!Valid, Audit!Times, E
<1>9. line \in Audit!Lines(N)
  <2>1. /\ i + 1 \in 1..(N + 1) /\ i + z + 1 \in 1..(N + 1) /\ i + 1 <= i + z + 1
        /\ (i + 1) - 1 = i /\ (i = 0 => i + 1 = 1)
        /\ i + z + 1 = i + (z + 1) /\ z + 1 \in 1..(z + 1)
    BY <1>2, <1>3, <1>4
  <2>2. file[i + z + 1] = Audit!Newline
    BY <1>3, <1>4, <2>1
  <2>3. ASSUME NEW k \in (i + 1)..((i + z + 1) - 1)
        PROVE  file[k] # Audit!Newline
    <3>1. k - i \in 1..z /\ k - i \in 1..(z + 1) /\ i + (k - i) = k
      BY <1>2, <1>3
    <3>2. file[i + (k - i)] = E[k - i]
      BY <1>4, <3>1
    <3> QED BY <1>3, <3>1, <3>2
  <2> QED BY <1>4, <2>1, <2>2, <2>3 DEF Audit!Lines
<1>10. Audit!EventOf(line) = e
  <2>1. 1 \in 1..z
    BY <1>3
  <2>2. t[1] = [event |-> e, part |-> 1]
    BY <1>3, <1>5, <2>1
  <2> HIDE DEF t, line
  <2> QED BY <1>7, <2>2 DEF Audit!EventOf
<1>11. line \in Audit!ValidLines(Len(file))
  <2> HIDE DEF t, line
  <2> QED BY <1>7, <1>8, <1>9 DEF Audit!ValidLines, N
<1> HIDE DEF line
<1> QED BY <1>10, <1>11 DEF Audit!Readable

(* A torn write of Record spoils at most one recorded event: whatever the  *)
(* writers, the sizes of events and the moments at which writes fail or    *)
(* the process restarts.                                                   *)
THEOREM DamageLimited == ServicesSpec => []DamageContained
<1>1. AuditInv => DamageContained
  <2> SUFFICES ASSUME AuditInv PROVE DamageContained
    OBVIOUS
  <2>1. AuditTypes /\ AuditDamage
    BY DEF AuditInv
  <2>2. IsFiniteSet(recorded \ Intact) /\ Cardinality(recorded \ Intact) \in Nat
    BY <2>1, LostFinite
  <2>3. recorded \ Audit!Readable \subseteq recorded \ Intact
    BY <2>1, IntactReadable
  <2>4. /\ Cardinality(recorded \ Audit!Readable) <= Cardinality(recorded \ Intact)
        /\ Cardinality(recorded \ Audit!Readable) \in Nat
    BY <2>2, <2>3, FS_Subset, FS_CardinalityType
  <2>5. Cardinality(recorded \ Intact) <= tears /\ tears \in Nat
    BY <2>1, <2>2 DEF AuditDamage, AuditTypes
  <2>6. Cardinality(recorded \ Audit!Readable) <= tears
    BY <2>2, <2>4, <2>5
  <2>7. Cardinality(recorded \ Audit!Readable) = Audit!Cardinality(recorded \ Audit!Readable)
    BY Zenon DEF Cardinality, Audit!Cardinality
  <2> QED BY <2>6, <2>7, Zenon DEF DamageContained, Audit!DamageContained
<1> QED BY <1>1, AuditInvariant, PTL

----------------------------------------------------------------------------
(* The audit log: reading.                                                 *)

LEMMA AuditCardinality ==
  ASSUME NEW S
  PROVE  Audit!Cardinality(S) = Cardinality(S)
BY Zenon DEF Cardinality, Audit!Cardinality

LEMMA LineIs ==
  ASSUME NEW n \in Nat, NEW line \in Audit!Lines(n)
  PROVE  /\ line = <<line[1], line[2]>> /\ line[1] \in Nat /\ line[2] \in Nat
         /\ 1 <= line[1] /\ line[1] <= line[2] /\ line[2] <= n + 1
         /\ line[1] = 1 \/ file[line[1] - 1] = Audit!Newline
         /\ line[2] = n + 1 \/ file[line[2]] = Audit!Newline
         /\ \A k \in line[1]..(line[2] - 1) : file[k] # Audit!Newline
BY DEF Audit!Lines

LEMMA LineOf ==
  ASSUME NEW n \in Nat, NEW a \in Nat, NEW b \in Nat,
         1 <= a, a <= b, b <= n + 1, a = 1 \/ file[a - 1] = Audit!Newline,
         b = n + 1 \/ file[b] = Audit!Newline,
         \A k \in a..(b - 1) : file[k] # Audit!Newline
  PROVE  <<a, b>> \in Audit!Lines(n)
BY DEF Audit!Lines

LEMMA LinesFinite ==
  ASSUME NEW n \in Nat, NEW S \in SUBSET Audit!Lines(n)
  PROVE  IsFiniteSet(S) /\ Cardinality(S) \in Nat
<1>1. IsFiniteSet(1..(n + 1))
  BY FS_Interval
<1>2. IsFiniteSet((1..(n + 1)) \X (1..(n + 1)))
  BY <1>1, FS_Product
<1>3. S \subseteq (1..(n + 1)) \X (1..(n + 1))
  BY DEF Audit!Lines
<1> QED BY <1>2, <1>3, FS_Subset, FS_CardinalityType

LEMMA SubsetSmaller ==
  ASSUME NEW n \in Nat, NEW S \in SUBSET Audit!Lines(n), NEW T \in SUBSET S
  PROVE  /\ Cardinality(S) \in Nat /\ Cardinality(T) \in Nat
         /\ Cardinality(T) <= Cardinality(S)
         /\ T # S => Cardinality(T) < Cardinality(S)
<1>1. IsFiniteSet(S) /\ Cardinality(S) \in Nat
  BY LinesFinite
<1>2. IsFiniteSet(T) /\ Cardinality(T) \in Nat /\ Cardinality(T) <= Cardinality(S)
      /\ (Cardinality(S) = Cardinality(T) => S = T)
  BY <1>1, FS_Subset, FS_CardinalityType
<1> QED BY <1>1, <1>2

(* A line that ends in front of p + 1 and begins behind q, where there is  *)
(* no newline in between.                                                  *)
LEMMA LastLine ==
  ASSUME NEW n \in Nat, NEW p \in Nat, NEW q \in Nat, q <= p, p <= n,
         q = 0 \/ file[q] = Audit!Newline,
         p = n \/ file[p + 1] = Audit!Newline,
         \A k \in (q + 1)..p : file[k] # Audit!Newline
  PROVE  /\ <<q + 1, p + 1>> \in Audit!Lines(n)
         /\ \A line \in Audit!Lines(n) :
              line[1] > q => line[1] > p + 1 \/ line = <<q + 1, p + 1>>
<1>1. <<q + 1, p + 1>> \in Audit!Lines(n)
  <2>1. /\ q + 1 \in Nat /\ p + 1 \in Nat /\ 1 <= q + 1 /\ q + 1 <= p + 1
        /\ p + 1 <= n + 1 /\ (q + 1) - 1 = q /\ (p + 1) - 1 = p
        /\ (q = 0 => q + 1 = 1) /\ (p = n => p + 1 = n + 1)
    OBVIOUS
  <2> QED BY <2>1, LineOf
<1>2. ASSUME NEW line \in Audit!Lines(n), line[1] > q, ~(line[1] > p + 1)
      PROVE  line = <<q + 1, p + 1>>
  <2> DEFINE a == line[1]
             b == line[2]
  <2>1. /\ line = <<a, b>> /\ a \in Nat /\ b \in Nat
        /\ 1 <= a /\ a <= b /\ b <= n + 1
        /\ a = 1 \/ file[a - 1] = Audit!Newline
        /\ b = n + 1 \/ file[b] = Audit!Newline
        /\ \A k \in a..(b - 1) : file[k] # Audit!Newline
    BY LineIs
  <2>2. a > q /\ ~(a > p + 1)
    BY <1>2
  <2> HIDE DEF a, b
  <2>3. a = q + 1
    <3> SUFFICES ASSUME a # q + 1 PROVE FALSE
      OBVIOUS
    <3>1. a - 1 \in (q + 1)..p /\ a # 1
      BY <2>1, <2>2
    <3> QED BY <2>1, <3>1
  <2>4. b = p + 1
    <3>1. CASE b < p + 1
      <4>1. b \in (q + 1)..p /\ b # n + 1
        BY <2>1, <2>3, <3>1
      <4> QED BY <2>1, <4>1
    <3>2. CASE b > p + 1
      <4>1. p + 1 \in a..(b - 1) /\ p # n
        BY <2>1, <2>3, <3>2
      <4> QED BY <2>1, <4>1
    <3> QED BY <2>1, <3>1, <3>2
  <2> QED BY <2>1, <2>3, <2>4
<1> QED BY <1>1, <1>2

(* An empty line is no event, and what a line holds is told by its first   *)
(* cell.                                                                   *)
LEMMA ValidIs ==
  ASSUME size \in Seq(Nat \ {0}), NEW text \in Seq(Cell), Audit!Valid(text)
  PROVE  text # <<>> /\ text[1].event \in 1..Len(size)
         /\ Append(text, Audit!Newline) = Audit!Entry(text[1].event)
<1>1. PICK e \in DOMAIN size : Append(text, Audit!Newline) = Audit!Entry(e)
  BY DEF Audit!Valid, Audit!Times
<1>2. e \in 1..Len(size)
  BY LenProperties
<1>3. /\ size[e] \in Nat \ {0} /\ Len(Audit!Entry(e)) = size[e] + 1
      /\ \A k \in 1..size[e] : Audit!Entry(e)[k] = [event |-> e, part |-> k]
      /\ Audit!Newline \in Cell
  BY <1>2, EntryIs
<1>4. /\ Len(Append(text, Audit!Newline)) = Len(text) + 1 /\ Len(text) \in Nat
      /\ \A k \in 1..Len(text) : Append(text, Audit!Newline)[k] = text[k]
  BY <1>3, AppendProperties, LenProperties
<1>5. Len(text) = size[e] /\ 1 \in 1..Len(text) /\ 1 \in 1..size[e]
  BY <1>1, <1>3, <1>4
<1>6. text[1] = [event |-> e, part |-> 1]
  BY <1>1, <1>3, <1>4, <1>5
<1>7. text # <<>>
  BY <1>5
<1>8. text[1].event = e
  BY <1>6
<1> QED BY <1>1, <1>2, <1>7, <1>8

(* What a line holds does not change as the file and the list of events    *)
(* grow.                                                                   *)
LEMMA FirstCell ==
  ASSUME NEW e \in Nat, NEW z \in Nat \ {0}, NEW text \in Seq(Cell),
         Append(text, Audit!Newline)
           = Append([k \in 1..z |-> [event |-> e, part |-> k]], Audit!Newline)
  PROVE  1 \in 1..Len(text) /\ text[1].event = e
<1> DEFINE s == [k \in 1..z |-> [event |-> e, part |-> k]]
<1>1. \A k \in 1..z : [event |-> e, part |-> k] \in Cell
  BY DEF Cell
<1>2. Audit!Newline \in Cell
  BY DEF Audit!Newline, Cell
<1>3. s \in Seq(Cell) /\ Len(s) = z /\ s[1] = [event |-> e, part |-> 1] /\ 1 \in 1..z
  <2> HIDE DEF Cell
  <2>1. s \in [1..z -> Cell]
    BY <1>1
  <2> QED BY <2>1
<1>4. Append(text, Audit!Newline) = Append(s, Audit!Newline)
  OBVIOUS
<1> HIDE DEF s, Cell
<1>5. /\ Len(Append(text, Audit!Newline)) = Len(text) + 1 /\ Len(text) \in Nat
      /\ \A k \in 1..Len(text) : Append(text, Audit!Newline)[k] = text[k]
  BY <1>2, AppendProperties, LenProperties
<1>6. /\ Len(Append(s, Audit!Newline)) = z + 1
      /\ \A k \in 1..z : Append(s, Audit!Newline)[k] = s[k]
  BY <1>2, <1>3, AppendProperties
<1>7. Len(text) = z
  BY <1>4, <1>5, <1>6
<1>8. text[1] = s[1]
  BY <1>3, <1>4, <1>5, <1>6, <1>7
<1>9. text[1].event = e
  BY <1>3, <1>8
<1> QED BY <1>3, <1>7, <1>9

Grown ==
  /\ AuditTypes /\ AuditTypes'
  /\ Len(size) <= Len(size') /\ Len(file) <= Len(file')
  /\ \A e \in 1..Len(size) : size'[e] = size[e]
  /\ \A i \in 1..Len(file) : file'[i] = file[i]

LEMMA ValidSame ==
  ASSUME Grown, NEW text \in Seq(Cell),
         \A j \in 1..Len(text) : text[j].event <= Len(size)
  PROVE  Audit!Valid(text)' <=> Audit!Valid(text)
<1>1. /\ size \in Seq(Nat \ {0}) /\ size' \in Seq(Nat \ {0}) /\ Len(size) \in Nat
      /\ Len(size') \in Nat /\ DOMAIN size = 1..Len(size) /\ DOMAIN size' = 1..Len(size')
  BY LenProperties DEF Grown, AuditTypes
<1>2. ASSUME NEW e \in 1..Len(size)
      PROVE  e \in 1..Len(size') /\ Audit!Entry(e)' = Audit!Entry(e)
  <2>1. size'[e] = size[e] /\ Len(size) <= Len(size')
    BY DEF Grown
  <2>2. Audit!Entry(e)' = Audit!Entry(e)
    BY <2>1 DEF Audit!Entry, Audit!Newline
  <2> QED BY <1>1, <2>1, <2>2
<1>3. Audit!Valid(text) => Audit!Valid(text)'
  BY <1>1, <1>2 DEF Audit!Valid, Audit!Times, Audit!Newline
<1>4. ASSUME Audit!Valid(text)'
      PROVE  Audit!Valid(text)
  <2>1. PICK e \in 1..Len(size') : Append(text, Audit!Newline) = Audit!Entry(e)'
    BY <1>1, <1>4 DEF Audit!Valid, Audit!Times, Audit!Newline
  <2>2. PICK z \in Nat \ {0} : z = size'[e]
    BY <1>1, LenProperties
  <2>3. Append(text, Audit!Newline)
          = Append([k \in 1..z |-> [event |-> e, part |-> k]], Audit!Newline)
    BY <2>1, <2>2 DEF Audit!Entry, Audit!Newline
  <2>4. 1 \in 1..Len(text) /\ text[1].event = e
    BY <1>1, <2>3, FirstCell
  <2>5. e \in 1..Len(size)
    BY <1>1, <2>4
  <2> QED BY <1>1, <1>2, <2>1, <2>5 DEF Audit!Valid, Audit!Times
<1> QED BY <1>3, <1>4

LEMMA LinesSame ==
  ASSUME Grown, NEW n \in Nat, n <= Len(file)
  PROVE  /\ Audit!Lines(n)' = Audit!Lines(n)
         /\ Audit!ValidLines(n)' = Audit!ValidLines(n)
         /\ \A line \in Audit!Lines(n) : Audit!EventOf(line)' = Audit!EventOf(line)
<1>1. /\ file \in Seq(Cell) /\ file' \in Seq(Cell) /\ Len(file) \in Nat
      /\ Len(file') \in Nat /\ Len(file) <= Len(file')
      /\ \A i \in 1..Len(file) : file'[i] = file[i]
  BY LenProperties DEF Grown, AuditTypes
<1>2. \A i \in 1..n : file'[i] = file[i]
  <2>1. \A i \in 1..n : i \in 1..Len(file)
    BY <1>1
  <2> QED BY <1>1, <2>1
<1>3. Audit!Lines(n)' = Audit!Lines(n)
  <2> DEFINE P(f, line) ==
        /\ line[1] <= line[2]
        /\ line[1] = 1 \/ f[line[1] - 1] = Audit!Newline
        /\ line[2] = n + 1 \/ f[line[2]] = Audit!Newline
        /\ \A k \in line[1]..(line[2] - 1) : f[k] # Audit!Newline
  <2>1. ASSUME NEW line \in (1..(n + 1)) \X (1..(n + 1))
        PROVE  P(file, line) <=> P(file', line)
    <3>1. PICK a \in 1..(n + 1), b \in 1..(n + 1) : line[1] = a /\ line[2] = b
      OBVIOUS
    <3>2. /\ a # 1 => a - 1 \in 1..n
          /\ b # n + 1 => b \in 1..n
          /\ \A k \in a..(b - 1) : k \in 1..n
      OBVIOUS
    <3> QED BY <1>2, <3>1, <3>2
  <2>2. Audit!Lines(n) = {line \in (1..(n + 1)) \X (1..(n + 1)) : P(file, line)}
    BY DEF Audit!Lines
  <2>3. Audit!Lines(n)' = {line \in (1..(n + 1)) \X (1..(n + 1)) : P(file', line)}
    BY DEF Audit!Lines, Audit!Newline
  <2> HIDE DEF P
  <2> QED BY <2>1, <2>2, <2>3
<1>4. ASSUME NEW line \in Audit!Lines(n)
      PROVE  /\ Audit!TextOf(line)' = Audit!TextOf(line)
             /\ Audit!Valid(Audit!TextOf(line))' <=> Audit!Valid(Audit!TextOf(line))
  <2>1. PICK a \in Nat, b \in Nat :
          line[1] = a /\ line[2] = b /\ 1 <= a /\ a <= b /\ b <= n + 1
    BY LineIs
  <2>2. b <= Len(file) + 1 /\ b <= Len(file') + 1
    BY <1>1, <2>1
  <2>3. /\ SubSeq(file, a, b - 1) \in Seq(Cell)
        /\ Len(SubSeq(file, a, b - 1)) = b - a
        /\ \A j \in 1..(b - a) : SubSeq(file, a, b - 1)[j] = file[a + j - 1]
    BY <1>1, <2>1, <2>2, TextIs
  <2>4. /\ SubSeq(file', a, b - 1) \in Seq(Cell)
        /\ Len(SubSeq(file', a, b - 1)) = b - a
        /\ \A j \in 1..(b - a) : SubSeq(file', a, b - 1)[j] = file'[a + j - 1]
    BY <1>1, <2>1, <2>2, TextIs
  <2>5. \A j \in 1..(b - a) : a + j - 1 \in 1..n /\ a + j - 1 \in 1..Len(file)
    BY <1>1, <2>1
  <2>6. SubSeq(file', a, b - 1) = SubSeq(file, a, b - 1)
    <3> DEFINE s == SubSeq(file, a, b - 1)
               t == SubSeq(file', a, b - 1)
    <3> HIDE DEF s, t
    <3>1. s \in Seq(Cell) /\ t \in Seq(Cell) /\ Len(s) = Len(t)
          /\ \A j \in 1..Len(s) : s[j] = t[j]
      BY <1>2, <2>3, <2>4, <2>5 DEF s, t
    <3>2. s = t
      BY <3>1, SeqEqual
    <3> QED BY <3>2 DEF s, t
  <2>7. Audit!TextOf(line)' = Audit!TextOf(line)
    BY <2>1, <2>6 DEF Audit!TextOf
  <2>8. PICK text \in Seq(Cell) : text = SubSeq(file, a, b - 1)
    BY <2>3
  <2>9. \A j \in 1..Len(text) : text[j].event <= Len(size)
    BY <2>3, <2>5, <2>8, AuditFields DEF Grown
  <2>10. Audit!Valid(text)' <=> Audit!Valid(text)
    BY <2>9, ValidSame
  <2>11. Audit!TextOf(line) = text /\ Audit!TextOf(line)' = text
    BY <2>1, <2>7, <2>8 DEF Audit!TextOf
  <2>12. Audit!Valid(Audit!TextOf(line)) = Audit!Valid(text)
    BY <2>11
  <2>13. Audit!Valid(Audit!TextOf(line))' = Audit!Valid(text)'
    BY <2>11 DEF Audit!Valid
  <2> QED BY <2>7, <2>10, <2>12, <2>13
<1>5. Audit!ValidLines(n)' = Audit!ValidLines(n)
  BY <1>3, <1>4 DEF Audit!ValidLines
<1>6. \A line \in Audit!Lines(n) : Audit!EventOf(line)' = Audit!EventOf(line)
  BY <1>4 DEF Audit!EventOf
<1> QED BY <1>3, <1>5, <1>6

(* What a reader that has come to cell p knows of the lines behind it.     *)
Past(n, p) == {line \in Audit!ValidLines(n) : line[1] > p}

Seen(n, p, events) ==
  /\ Len(events) = Cardinality(Past(n, p))
  /\ \A line \in Past(n, p) :
       events[Cardinality(Past(n, line[1])) + 1] = Audit!EventOf(line)
  /\ \A line \in Audit!Lines(n) : line[1] > p => line[2] - line[1] <= MaxLineSize

Wants(n, limit) ==
  {line \in Audit!ValidLines(n) : Cardinality(Past(n, line[1])) < limit}

Blocking(n, limit) ==
  {line \in Audit!Lines(n) :
     /\ line[2] - line[1] > MaxLineSize
     /\ \/ Cardinality(Wants(n, limit)) < limit
        \/ \E other \in Wants(n, limit) : other[1] <= line[1]}

Exact(pc, n, limit, events) ==
  LET wanted == Wants(n, limit)
      inTheWay == Blocking(n, limit)
  IN  /\ pc = "failed" => inTheWay # {}
      /\ pc = "done" =>
           /\ inTheWay = {}
           /\ Len(events) = Cardinality(wanted)
           /\ \A line \in wanted :
                events[Cardinality(wanted) - Cardinality(Past(n, line[1]))]
                  = Audit!EventOf(line)

LEMMA WantedAre ==
  ASSUME NEW n, NEW limit
  PROVE  /\ Wants(n, limit)
              = {line \in Audit!ValidLines(n) : Cardinality(Past(n, line[1])) < limit}
         /\ Blocking(n, limit)
              = {line \in Audit!Lines(n) :
                   /\ line[2] - line[1] > MaxLineSize
                   /\ \/ Cardinality(Wants(n, limit)) < limit
                      \/ \E other \in Wants(n, limit) : other[1] <= line[1]}
BY DEF Wants, Blocking

(* They are what the property speaks of.                                   *)
LEMMA WantedMeans ==
  ASSUME NEW n, NEW limit
  PROVE  /\ Audit!Wanted(n, limit) = Wants(n, limit)
         /\ Audit!InTheWay(n, limit) = Blocking(n, limit)
         /\ \A line : Audit!Cardinality(Audit!Newer(line, n))
                       = Cardinality(Past(n, line[1]))
         /\ Audit!Cardinality(Audit!Wanted(n, limit)) = Cardinality(Wants(n, limit))
<1>1. \A line : Audit!Newer(line, n) = Past(n, line[1])
  BY DEF Audit!Newer, Past
<1>2. \A line : Audit!Cardinality(Audit!Newer(line, n)) = Cardinality(Past(n, line[1]))
  BY <1>1, AuditCardinality
<1>3. Audit!Wanted(n, limit) = Wants(n, limit)
  BY <1>2 DEF Audit!Wanted, Wants
<1>4. Audit!Cardinality(Audit!Wanted(n, limit)) = Cardinality(Wants(n, limit))
  BY <1>3, AuditCardinality
<1>5. Audit!InTheWay(n, limit) = Blocking(n, limit)
  BY <1>3, <1>4 DEF Audit!InTheWay, Blocking
<1> QED BY <1>2, <1>3, <1>4, <1>5

LEMMA PastIs ==
  ASSUME NEW n \in Nat, NEW p \in Nat
  PROVE  /\ Past(n, p) \subseteq Audit!Lines(n) /\ Cardinality(Past(n, p)) \in Nat
         /\ \A q \in Nat : p <= q => /\ Past(n, q) \subseteq Past(n, p)
                                     /\ Cardinality(Past(n, q)) <= Cardinality(Past(n, p))
         /\ \A line \in Past(n, p) :
              /\ line[1] \in Nat /\ Cardinality(Past(n, line[1])) \in Nat
              /\ Cardinality(Past(n, line[1])) < Cardinality(Past(n, p))
<1>1. \A q \in Nat : Past(n, q) \subseteq Audit!Lines(n) /\ Cardinality(Past(n, q)) \in Nat
  <2>1. \A q \in Nat : Past(n, q) \subseteq Audit!Lines(n)
    BY DEF Past, Audit!ValidLines
  <2> QED BY <2>1, LinesFinite
<1>2. \A line \in Audit!ValidLines(n) : line[1] \in Nat
  BY LineIs DEF Audit!ValidLines
<1>3. \A q \in Nat : p <= q => Past(n, q) \subseteq Past(n, p)
  BY <1>2 DEF Past
<1>4. \A q \in Nat : p <= q => Cardinality(Past(n, q)) <= Cardinality(Past(n, p))
  BY <1>1, <1>3, SubsetSmaller
<1>5. ASSUME NEW line \in Past(n, p)
      PROVE  /\ line[1] \in Nat /\ Cardinality(Past(n, line[1])) \in Nat
             /\ Cardinality(Past(n, line[1])) < Cardinality(Past(n, p))
  <2>1. PICK a \in Nat : a = line[1]
    BY <1>2 DEF Past
  <2>2. p <= a /\ p < a
    BY <2>1 DEF Past
  <2>3. Past(n, a) \subseteq Past(n, p) /\ Past(n, a) # Past(n, p)
    <3>1. line \notin Past(n, a)
      BY <2>1 DEF Past
    <3> QED BY <1>3, <2>2, <3>1
  <2>4. Cardinality(Past(n, a)) < Cardinality(Past(n, p))
    BY <1>1, <2>3, SubsetSmaller
  <2> QED BY <1>1, <2>1, <2>4
<1> QED BY <1>1, <1>3, <1>4, <1>5

(* A reader that has enough events, or has come to the beginning of the    *)
(* file, has what was wanted.                                              *)
LEMMA EnoughWanted ==
  ASSUME NEW n \in Nat, NEW p \in Nat, NEW limit \in Nat, NEW events \in Seq(Nat),
         Seen(n, p, events), Len(events) <= limit, Len(events) = limit \/ p = 0
  PROVE  Wants(n, limit) = Past(n, p) /\ Blocking(n, limit) = {}
<1>1. PICK c \in Nat : c = Cardinality(Past(n, p)) /\ c = Len(events)
  BY PastIs DEF Seen
<1>2. c <= limit /\ (c = limit \/ p = 0)
  BY <1>1
<1>3. ASSUME NEW line \in Past(n, p)
      PROVE  line \in Wants(n, limit)
  <2>1. line \in Audit!ValidLines(n)
    BY DEF Past
  <2>9. /\ Cardinality(Past(n, line[1])) \in Nat
        /\ Cardinality(Past(n, line[1])) < Cardinality(Past(n, p))
    BY PastIs, Zenon
  <2>2. PICK d \in Nat : d = Cardinality(Past(n, line[1])) /\ d < c
    BY <1>1, <2>9
  <2>3. d < limit
    BY <1>2, <2>2
  <2> QED BY <2>1, <2>2, <2>3, WantedAre
<1>4. ASSUME NEW line \in Wants(n, limit)
      PROVE  line \in Past(n, p)
  <2>1. line \in Audit!ValidLines(n) /\ Cardinality(Past(n, line[1])) < limit
    BY WantedAre
  <2>2. line \in Audit!Lines(n)
    BY <2>1 DEF Audit!ValidLines
  <2>3. PICK a \in Nat : a = line[1] /\ 1 <= a
    BY <2>2, LineIs
  <2> SUFFICES ASSUME a <= p PROVE FALSE
    BY <2>1, <2>3 DEF Past
  <2>7. Cardinality(Past(n, p)) <= Cardinality(Past(n, a)) /\ Cardinality(Past(n, a)) \in Nat
    BY PastIs, Zenon
  <2>4. c <= Cardinality(Past(n, a)) /\ Cardinality(Past(n, a)) \in Nat
    BY <1>1, <2>7
  <2>5. PICK d \in Nat : d = Cardinality(Past(n, a))
    BY <2>4
  <2>6. c <= d /\ d < limit /\ c = limit
    BY <1>2, <2>1, <2>3, <2>4, <2>5
  <2> QED BY <1>2, <2>6
<1>5. Wants(n, limit) = Past(n, p)
  BY <1>3, <1>4
<1>6. ASSUME NEW line \in Blocking(n, limit)
      PROVE  FALSE
  <2>1. /\ line \in Audit!Lines(n) /\ line[2] - line[1] > MaxLineSize
        /\ \/ Cardinality(Wants(n, limit)) < limit
           \/ \E other \in Wants(n, limit) : other[1] <= line[1]
    BY <1>6, WantedAre
  <2>2. PICK a \in Nat, b \in Nat : a = line[1] /\ b = line[2] /\ 1 <= a
    BY <2>1, LineIs
  <2>3. a > p
    <3>1. CASE p = 0
      BY <2>2, <3>1
    <3>2. CASE p # 0
      <4>0. c = limit /\ ~(c < limit)
        BY <1>2, <3>2
      <4>1. ~(Cardinality(Wants(n, limit)) < limit)
        BY <1>1, <1>5, <4>0, Zenon
      <4>2. PICK other \in Past(n, p) : other[1] <= line[1]
        BY <1>5, <2>1, <4>1
      <4>3. other[1] \in Nat /\ other[1] > p
        BY PastIs DEF Past
      <4> QED BY <2>2, <4>2, <4>3
    <3> QED BY <3>1, <3>2
  <2>4. line[2] - line[1] <= MaxLineSize
    BY <2>1, <2>2, <2>3 DEF Seen
  <2>5. b - a > MaxLineSize /\ b - a <= MaxLineSize
    BY <2>1, <2>2, <2>4, Zenon
  <2>6. MaxLineSize \in Nat
    BY AuditAssumption
  <2> HIDE DEF Seen
  <2>7. ASSUME NEW d \in Int, NEW m \in Nat, d > m, d <= m PROVE FALSE
    BY <2>7
  <2>8. b - a \in Int
    BY <2>2
  <2> QED BY <2>5, <2>6, <2>7, <2>8, Zenon
<1> QED BY <1>5, <1>6

LEMMA EnoughExact ==
  ASSUME NEW n \in Nat, NEW p \in Nat, NEW limit \in Nat, NEW events \in Seq(Nat),
         Seen(n, p, events), Len(events) <= limit, Len(events) = limit \/ p = 0
  PROVE  Exact("done", n, limit, Audit!Reverse(events))
<1>1. Wants(n, limit) = Past(n, p) /\ Blocking(n, limit) = {}
  BY EnoughWanted
<1>2. PICK c \in Nat : c = Cardinality(Past(n, p)) /\ c = Len(events)
  BY PastIs DEF Seen
<1>3. /\ Len(Audit!Reverse(events)) = c
      /\ \A i \in 1..c : Audit!Reverse(events)[i] = events[(c - i) + 1]
  <2>1. Audit!Reverse(events) = [i \in 1..c |-> events[(c - i) + 1]]
    BY <1>2 DEF Audit!Reverse
  <2> DEFINE f == [i \in 1..c |-> events[(c - i) + 1]]
  <2>2. \A i \in 1..c : f[i] = events[(c - i) + 1] /\ f[i] \in Nat
    <3>1. \A i \in 1..c : (c - i) + 1 \in 1..Len(events)
      BY <1>2
    <3> QED BY <3>1, LenProperties
  <2>3. f \in Seq(Nat) /\ Len(f) = c
    <3>1. f \in [1..c -> Nat]
      BY <2>2
    <3> HIDE DEF f
    <3> QED BY <3>1
  <2> HIDE DEF f
  <2> QED BY <2>1, <2>2, <2>3 DEF f
<1>4. ASSUME NEW line \in Past(n, p)
      PROVE  Audit!Reverse(events)[c - Cardinality(Past(n, line[1]))]
               = Audit!EventOf(line)
  <2>9. /\ Cardinality(Past(n, line[1])) \in Nat
        /\ Cardinality(Past(n, line[1])) < Cardinality(Past(n, p))
    BY PastIs, Zenon
  <2>1. PICK d \in Nat : d = Cardinality(Past(n, line[1])) /\ d < c
    BY <1>2, <2>9
  <2>2. events[d + 1] = Audit!EventOf(line)
    BY <2>1 DEF Seen
  <2>3. c - d \in 1..c /\ (c - (c - d)) + 1 = d + 1
    BY <2>1
  <2> QED BY <1>3, <2>1, <2>2, <2>3
<1>5. Exact("done", n, limit, Audit!Reverse(events))
        <=> /\ Blocking(n, limit) = {}
            /\ Len(Audit!Reverse(events)) = Cardinality(Wants(n, limit))
            /\ \A line \in Wants(n, limit) :
                 Audit!Reverse(events)[Cardinality(Wants(n, limit))
                                       - Cardinality(Past(n, line[1]))]
                   = Audit!EventOf(line)
  BY Zenon DEF Exact
<1> QED BY <1>1, <1>2, <1>3, <1>4, <1>5

(* The line between the newlines at q and p + 1 is the next one.           *)
NextLine(n, p, q) ==
  /\ <<q + 1, p + 1>> \in Audit!Lines(n)
  /\ \A line \in Audit!Lines(n) :
       line[1] > q => line[1] > p + 1 \/ line = <<q + 1, p + 1>>

LEMMA PastNext ==
  ASSUME NEW n \in Nat, NEW p \in Nat, NEW q \in Nat, q <= p, NextLine(n, p, q)
  PROVE  /\ Past(n, q + 1) = Past(n, p + 1)
         /\ Past(n, q) = IF Audit!Valid(Audit!TextOf(<<q + 1, p + 1>>))
                         THEN Past(n, p + 1) \cup {<<q + 1, p + 1>>} ELSE Past(n, p + 1)
         /\ <<q + 1, p + 1>> \notin Past(n, p + 1)
<1> DEFINE next1 == <<q + 1, p + 1>>
<1>1. next1 \in Audit!Lines(n) /\ next1[1] = q + 1
  BY DEF NextLine
<1>2. ASSUME NEW line \in Audit!Lines(n)
      PROVE  /\ line[1] > q + 1 <=> line[1] > p + 1
             /\ line[1] > q <=> line[1] > p + 1 \/ line = next1
  <2>1. PICK a \in Nat : a = line[1]
    BY LineIs
  <2>2. a > q => a > p + 1 \/ line = next1
    BY <2>1 DEF NextLine
  <2>3. line = next1 => a = q + 1
    BY <1>1, <2>1
  <2>4. a > p + 1 => a > q + 1 /\ a > q
    BY <2>1
  <2>5. a > q + 1 => a > q /\ a # q + 1
    BY <2>1
  <2>6. a = q + 1 => a > q
    BY <2>1
  <2> HIDE DEF next1
  <2> QED BY <2>1, <2>2, <2>3, <2>4, <2>5, <2>6
<1>3. \A line \in Audit!ValidLines(n) : line \in Audit!Lines(n)
  BY DEF Audit!ValidLines
<1>4. next1 \in Audit!ValidLines(n) <=> Audit!Valid(Audit!TextOf(next1))
  BY <1>1 DEF Audit!ValidLines
<1>5. ~(next1[1] > p + 1)
  BY <1>1
<1> HIDE DEF next1
<1>6. Past(n, q + 1) = Past(n, p + 1)
  BY <1>2, <1>3 DEF Past
<1>7. next1 \notin Past(n, p + 1)
  BY <1>5 DEF Past
<1>8. Past(n, q) = {line \in Audit!ValidLines(n) : line \in Past(n, p + 1) \/ line = next1}
  BY <1>2, <1>3 DEF Past
<1>9. Past(n, p + 1) \subseteq Audit!ValidLines(n)
  BY DEF Past
<1>10. Past(n, q) = IF Audit!Valid(Audit!TextOf(next1))
                    THEN Past(n, p + 1) \cup {next1} ELSE Past(n, p + 1)
  BY <1>4, <1>8, <1>9
<1> QED BY <1>6, <1>7, <1>10 DEF next1

(* A line that is too long is in the way if more events are wanted.        *)
LEMMA TooLongExact ==
  ASSUME NEW n \in Nat, NEW p \in Nat, NEW q \in Nat, q <= p, NextLine(n, p, q),
         NEW limit \in Nat, NEW events \in Seq(Nat), Seen(n, p + 1, events),
         Len(events) < limit, p - q > MaxLineSize, NEW answer
  PROVE  Exact("failed", n, limit, answer)
<1> DEFINE next1 == <<q + 1, p + 1>>
           W == Wants(n, limit)
<1>1. next1 \in Audit!Lines(n) /\ next1[1] = q + 1 /\ next1[2] = p + 1
  BY DEF NextLine
<1>2. next1[2] - next1[1] > MaxLineSize
  <2>1. next1[2] - next1[1] = p - q
    BY <1>1
  <2> HIDE DEF next1
  <2> QED BY <2>1
<1>3. Cardinality(W) < limit \/ \E other \in W : other[1] <= next1[1]
  <2> SUFFICES ASSUME ~ \E other \in W : other[1] <= next1[1]
               PROVE  Cardinality(W) < limit
    OBVIOUS
  <2>1. W \subseteq Past(n, q + 1)
    <3> SUFFICES ASSUME NEW other \in W PROVE other \in Past(n, q + 1)
      OBVIOUS
    <3>1. other \in Audit!ValidLines(n) /\ other \in Audit!Lines(n)
      BY WantedAre DEF Audit!ValidLines
    <3>2. other[1] \in Nat /\ ~(other[1] <= q + 1)
      BY <1>1, <3>1, LineIs
    <3> HIDE DEF W
    <3> QED BY <3>1, <3>2 DEF Past
  <2>2. Past(n, q + 1) = Past(n, p + 1)
    BY PastNext, Zenon
  <2>3. Past(n, p + 1) \subseteq Audit!Lines(n)
    BY DEF Past, Audit!ValidLines
  <2> HIDE DEF W
  <2>4. /\ Cardinality(W) <= Cardinality(Past(n, p + 1)) /\ Cardinality(W) \in Nat
        /\ Cardinality(Past(n, p + 1)) \in Nat
    BY <2>1, <2>2, <2>3, SubsetSmaller
  <2>5. PICK c \in Nat, d \in Nat : c = Cardinality(Past(n, p + 1)) /\ d = Cardinality(W)
    BY <2>4
  <2>6. c < limit
    BY <2>5 DEF Seen
  <2> QED BY <2>4, <2>5, <2>6
<1>4. next1 \in Blocking(n, limit)
  <2>1. Blocking(n, limit)
          = {line \in Audit!Lines(n) :
               /\ line[2] - line[1] > MaxLineSize
               /\ Cardinality(W) < limit \/ \E other \in W : other[1] <= line[1]}
    BY WantedAre, Zenon
  <2> HIDE DEF next1, W
  <2> QED BY <1>1, <1>2, <1>3, <2>1, Zenon
<1> HIDE DEF next1
<1> QED BY <1>4 DEF Exact

(* The line is passed: its event, if it is one, is the next of the answer. *)
LEMMA SeenMore ==
  ASSUME NEW n \in Nat, NEW p \in Nat, NEW q \in Nat, q <= p, NextLine(n, p, q),
         NEW events \in Seq(Nat), Seen(n, p + 1, events), p - q <= MaxLineSize,
         NEW more \in Seq(Nat),
         IF Audit!Valid(Audit!TextOf(<<q + 1, p + 1>>))
         THEN /\ Audit!EventOf(<<q + 1, p + 1>>) \in Nat
              /\ more = Append(events, Audit!EventOf(<<q + 1, p + 1>>))
         ELSE more = events
  PROVE  Seen(n, q, more)
<1> DEFINE next1 == <<q + 1, p + 1>>
<1>1. next1 \in Audit!Lines(n) /\ next1[1] = q + 1 /\ next1[2] = p + 1
  BY DEF NextLine
<1>2. ASSUME NEW line \in Audit!Lines(n), line[1] > q
      PROVE  line[2] - line[1] <= MaxLineSize
  <2>1. CASE line = next1
    <3>1. line[2] - line[1] = p - q
      BY <1>1, <2>1
    <3> QED BY <3>1
  <2>2. CASE line[1] > p + 1
    BY <1>2, <2>2 DEF Seen
  <2>3. line = next1 \/ line[1] > p + 1
    BY <1>2 DEF NextLine
  <2> QED BY <2>1, <2>2, <2>3, Zenon
<1>3. PICK c \in Nat : c = Cardinality(Past(n, p + 1)) /\ c = Len(events)
  BY PastIs DEF Seen
<1>4. ASSUME NEW line \in Past(n, p + 1)
      PROVE  events[Cardinality(Past(n, line[1])) + 1] = Audit!EventOf(line)
  BY DEF Seen
<1>5. CASE Audit!Valid(Audit!TextOf(next1))
  <2>1. Past(n, q) = Past(n, p + 1) \cup {next1} /\ next1 \notin Past(n, p + 1)
    BY <1>5, PastNext
  <2>2. Past(n, next1[1]) = Past(n, p + 1)
    BY <1>1, PastNext
  <2>3. more = Append(events, Audit!EventOf(next1)) /\ Audit!EventOf(next1) \in Nat
    BY <1>5
  <2> HIDE DEF next1
  <2>4. IsFiniteSet(Past(n, p + 1)) /\ Cardinality(Past(n, q)) = c + 1
    <3>1. Past(n, p + 1) \subseteq Audit!Lines(n)
      BY DEF Past, Audit!ValidLines
    <3>2. IsFiniteSet(Past(n, p + 1))
      BY <3>1, LinesFinite
    <3>3. Cardinality(Past(n, p + 1) \cup {next1}) = Cardinality(Past(n, p + 1)) + 1
      BY <2>1, <3>2, FS_AddElement, Zenon
    <3> QED BY <1>3, <2>1, <3>2, <3>3, Zenon
  <2>5. /\ Len(more) = c + 1 /\ more[c + 1] = Audit!EventOf(next1)
        /\ \A i \in 1..c : more[i] = events[i]
    <3>1. /\ Len(more) = Len(events) + 1 /\ more[Len(events) + 1] = Audit!EventOf(next1)
          /\ \A i \in 1..Len(events) : more[i] = events[i]
      BY <2>3, AppendProperties
    <3> QED BY <1>3, <3>1, Zenon
  <2>6. ASSUME NEW line \in Past(n, q)
        PROVE  more[Cardinality(Past(n, line[1])) + 1] = Audit!EventOf(line)
    <3>1. CASE line = next1
      BY <1>3, <2>2, <2>5, <3>1
    <3>2. CASE line \in Past(n, p + 1)
      <4>1. p + 1 \in Nat
        OBVIOUS
      <4>2. /\ Cardinality(Past(n, line[1])) \in Nat
            /\ Cardinality(Past(n, line[1])) < Cardinality(Past(n, p + 1))
        BY <3>2, <4>1, PastIs, Zenon
      <4>3. PICK d \in Nat : d = Cardinality(Past(n, line[1])) /\ d < c
        BY <1>3, <4>2
      <4>7. d < c
        BY <4>3
      <4>4. d + 1 \in 1..c
        BY <4>7
      <4>5. events[d + 1] = Audit!EventOf(line)
        BY <1>4, <3>2, <4>3
      <4>6. more[d + 1] = Audit!EventOf(line)
        BY <2>5, <4>4, <4>5
      <4> QED BY <4>3, <4>6, Zenon
    <3> QED BY <2>1, <3>1, <3>2
  <2> QED BY <1>2, <2>4, <2>5, <2>6 DEF Seen
<1>6. CASE ~Audit!Valid(Audit!TextOf(next1))
  <2>1. Past(n, q) = Past(n, p + 1) /\ more = events
    BY <1>6, PastNext
  <2> HIDE DEF next1
  <2> QED BY <1>2, <1>3, <1>4, <2>1 DEF Seen
<1> QED BY <1>5, <1>6

(* What ReadLast has while it reads and when it is over.  The part of the  *)
(* file that is in front of the lines it has passed ends at p, and the     *)
(* data it holds is the end of that part.                                  *)
ReaderFits(pc, n, left, limit, data, events) ==
  /\ pc \in {"reading", "scanning"} =>
       /\ n <= Len(file) /\ left + Len(data) <= n /\ Len(events) <= limit
       /\ \A j \in 1..Len(data) : data[j] = file[left + j]
       /\ left + Len(data) = n \/ file[left + Len(data) + 1] = Audit!Newline
       /\ Seen(n, left + Len(data) + 1, events)
  /\ pc \in {"done", "failed"} => n <= Len(file) /\ Exact(pc, n, limit, events)

ReaderStates == {"idle", "reading", "scanning", "done", "failed"}

ReaderRecord(pc, n, left, limit, data, events) ==
  [pc |-> pc, from |-> n, left |-> left, limit |-> limit, data |-> data,
   events |-> events]

ReaderIs(pc, n, left, limit, data, events) ==
  reader = ReaderRecord(pc, n, left, limit, data, events)

ReaderInv ==
  \E pc \in ReaderStates, n \in Nat, left \in Nat, limit \in Nat,
     data \in Seq(Cell), events \in Seq(Nat) :
    /\ ReaderIs(pc, n, left, limit, data, events)
    /\ ReaderFits(pc, n, left, limit, data, events)

LEMMA PastSame ==
  ASSUME Grown, NEW n \in Nat, n <= Len(file)
  PROVE  \A p : Past(n, p)' = Past(n, p)
BY LinesSame DEF Past

LEMMA SeenSame ==
  ASSUME Grown, NEW n \in Nat, n <= Len(file), NEW p \in Nat, NEW events \in Seq(Nat),
         Seen(n, p, events)
  PROVE  Seen(n, p, events)'
<1>1. /\ Audit!Lines(n)' = Audit!Lines(n) /\ \A q : Past(n, q)' = Past(n, q)
      /\ \A line \in Audit!Lines(n) : Audit!EventOf(line)' = Audit!EventOf(line)
  BY LinesSame, PastSame
<1>2. Past(n, p) \subseteq Audit!Lines(n)
  BY DEF Past, Audit!ValidLines
<1>3. Len(events) = Cardinality(Past(n, p))'
  BY <1>1 DEF Seen
<1>4. \A line \in Past(n, p)' :
        events[Cardinality(Past(n, line[1]))' + 1] = Audit!EventOf(line)'
  BY <1>1, <1>2 DEF Seen
<1>5. \A line \in Audit!Lines(n)' : line[1] > p => line[2] - line[1] <= MaxLineSize
  BY <1>1 DEF Seen
<1> QED BY <1>3, <1>4, <1>5 DEF Seen

LEMMA ExactSame ==
  ASSUME Grown, NEW n \in Nat, n <= Len(file), NEW limit \in Nat,
         NEW events \in Seq(Nat), NEW pc, Exact(pc, n, limit, events)
  PROVE  Exact(pc, n, limit, events)'
<1>1. /\ Audit!Lines(n)' = Audit!Lines(n) /\ \A q : Past(n, q)' = Past(n, q)
      /\ Audit!ValidLines(n)' = Audit!ValidLines(n)
      /\ \A line \in Audit!Lines(n) : Audit!EventOf(line)' = Audit!EventOf(line)
  BY LinesSame, PastSame
<1>2. \A line : Cardinality(Past(n, line[1]))' = Cardinality(Past(n, line[1]))
  BY <1>1
<1>3. Wants(n, limit)' = Wants(n, limit)
  BY <1>1, <1>2 DEF Wants
<1>4. Cardinality(Wants(n, limit))' = Cardinality(Wants(n, limit))
  BY <1>3
<1>5. Blocking(n, limit)' = Blocking(n, limit)
  BY <1>1, <1>3, <1>4 DEF Blocking
<1>6. Wants(n, limit) \subseteq Audit!Lines(n)
  BY DEF Wants, Audit!ValidLines
<1> QED BY <1>1, <1>2, <1>3, <1>4, <1>5, <1>6 DEF Exact

LEMMA FitsSame ==
  ASSUME Grown, NEW pc, NEW n \in Nat, NEW left \in Nat, NEW limit \in Nat,
         NEW data \in Seq(Cell), NEW events \in Seq(Nat),
         ReaderFits(pc, n, left, limit, data, events)
  PROVE  ReaderFits(pc, n, left, limit, data, events)'
<1>1. Len(file) \in Nat /\ Len(file') \in Nat /\ Len(file) <= Len(file') /\ Len(data) \in Nat
      /\ \A i \in 1..Len(file) : file'[i] = file[i]
  BY LenProperties DEF Grown, AuditTypes
<1>2. ASSUME pc \in {"reading", "scanning"}
      PROVE  /\ n <= Len(file') /\ left + Len(data) <= n /\ Len(events) <= limit
             /\ \A j \in 1..Len(data) : data[j] = file'[left + j]
             /\ left + Len(data) = n \/ file'[left + Len(data) + 1] = Audit!Newline
             /\ Seen(n, left + Len(data) + 1, events)'
  <2>1. /\ n <= Len(file) /\ left + Len(data) <= n /\ Len(events) <= limit
        /\ \A j \in 1..Len(data) : data[j] = file[left + j]
        /\ left + Len(data) = n \/ file[left + Len(data) + 1] = Audit!Newline
        /\ Seen(n, left + Len(data) + 1, events)
    BY <1>2 DEF ReaderFits
  <2>2. PICK p \in Nat : p = left + Len(data)
    BY <1>1
  <2>7. p <= n /\ n <= Len(file) /\ left + Len(data) <= n
    BY <2>1, <2>2
  <2>3. /\ \A j \in 1..Len(data) : left + j \in 1..Len(file)
        /\ p # n => p + 1 \in 1..Len(file)
        /\ n <= Len(file')
    BY <1>1, <2>7
  <2>4. \A j \in 1..Len(data) : data[j] = file'[left + j]
    BY <1>1, <2>1, <2>3
  <2>5. p = n \/ file'[p + 1] = Audit!Newline
    BY <1>1, <2>1, <2>2, <2>3
  <2>6. Seen(n, p + 1, events)'
    <3>1. p + 1 \in Nat /\ Seen(n, p + 1, events)
      BY <2>1, <2>2
    <3> QED BY <2>1, <3>1, SeenSame
  <2> QED BY <2>1, <2>2, <2>3, <2>4, <2>5, <2>6
<1>3. ASSUME pc \in {"done", "failed"}
      PROVE  n <= Len(file') /\ Exact(pc, n, limit, events)'
  <2>1. n <= Len(file) /\ Exact(pc, n, limit, events)
    BY <1>3 DEF ReaderFits
  <2> QED BY <1>1, <2>1, ExactSame
<1> QED BY <1>2, <1>3 DEF ReaderFits, Audit!Newline

LEMMA ReaderMoves ==
  ASSUME Grown, NEW pc \in ReaderStates, NEW n \in Nat, NEW left \in Nat,
         NEW limit \in Nat, NEW data \in Seq(Cell), NEW events \in Seq(Nat),
         ReaderIs(pc, n, left, limit, data, events)',
         ReaderFits(pc, n, left, limit, data, events)
  PROVE  ReaderInv'
BY FitsSame DEF ReaderInv

LEMMA ReaderSame ==
  ASSUME Grown, ReaderInv, reader' = reader
  PROVE  ReaderInv'
<1>1. PICK pc \in ReaderStates, n \in Nat, left \in Nat, limit \in Nat,
           data \in Seq(Cell), events \in Seq(Nat) :
        /\ ReaderIs(pc, n, left, limit, data, events)
        /\ ReaderFits(pc, n, left, limit, data, events)
  BY DEF ReaderInv
<1>2. ReaderIs(pc, n, left, limit, data, events)'
  BY <1>1 DEF ReaderIs
<1> QED BY <1>1, <1>2, ReaderMoves

LEMMA ReaderIdle ==
  ASSUME Grown, reader' = Audit!NoRead
  PROVE  ReaderInv'
<1>1. ReaderIs("idle", 0, 0, 0, <<>>, <<>>)'
  BY DEF ReaderIs, ReaderRecord, Audit!NoRead
<1>2. ReaderFits("idle", 0, 0, 0, <<>>, <<>>)
  BY DEF ReaderFits
<1>3. "idle" \in ReaderStates /\ <<>> \in Seq(Cell) /\ <<>> \in Seq(Nat) /\ 0 \in Nat
  BY DEF ReaderStates
<1> QED BY <1>1, <1>2, <1>3, ReaderMoves

(* ReadLast begins at the end of the file.                                 *)
LEMMA SeenNothing ==
  ASSUME NEW n \in Nat
  PROVE  Seen(n, n + 1, <<>>)
<1>1. \A line \in Audit!Lines(n) : ~(line[1] > n + 1)
  <2> SUFFICES ASSUME NEW line \in Audit!Lines(n) PROVE ~(line[1] > n + 1)
    OBVIOUS
  <2>1. PICK a \in Nat, b \in Nat : a = line[1] /\ a <= b /\ b <= n + 1
    BY LineIs
  <2>2. ~(a > n + 1)
    BY <2>1
  <2> QED BY <2>1, <2>2
<1>2. Past(n, n + 1) = {}
  BY <1>1 DEF Past, Audit!ValidLines
<1>3. Cardinality(Past(n, n + 1)) = 0
  BY <1>2, FS_EmptySet
<1>4. Len(<<>>) = 0
  OBVIOUS
<1> QED BY <1>1, <1>2, <1>3, <1>4, Zenon DEF Seen

LEMMA ReverseNothing == Audit!Reverse(<<>>) = <<>>
BY DEF Audit!Reverse

LEMMA ReaderOpens ==
  ASSUME AuditTypes, Grown, NEW limit0 \in Limits, Audit!ReadLast(limit0)
  PROVE  ReaderInv'
<1>1. PICK n \in Nat : n = Len(file)
  BY AuditFields
<1>2. PICK limit \in Nat : limit = Audit!LimitFor(limit0)
  BY AuditAssumption DEF Audit!LimitFor
<1>3. Seen(n, n + 1, <<>>) /\ n <= n /\ Len(<<>>) = 0 /\ <<>> \in Seq(Cell)
      /\ <<>> \in Seq(Nat) /\ 0 <= limit
  BY SeenNothing
<1>4. CASE file = <<>>
  <2>1. n = 0
    BY <1>1, <1>4
  <2>2. NextLine(0, 0, 0)
    <3>1. \A k \in (0 + 1)..0 : file[k] # Audit!Newline
      OBVIOUS
    <3>2. /\ <<0 + 1, 0 + 1>> \in Audit!Lines(0)
          /\ \A line \in Audit!Lines(0) :
               line[1] > 0 => line[1] > 0 + 1 \/ line = <<0 + 1, 0 + 1>>
      BY <3>1, LastLine
    <3> QED BY <3>2 DEF NextLine
  <2>3. ~Audit!Valid(Audit!TextOf(<<0 + 1, 0 + 1>>))
    <3>1. Audit!TextOf(<<0 + 1, 0 + 1>>) = <<>>
      BY <1>4 DEF Audit!TextOf
    <3>2. ~Audit!Valid(<<>>)
      BY <1>3, ValidIs DEF AuditTypes
    <3> QED BY <3>1, <3>2
  <2>4. Seen(0, 0, <<>>)
    <3>1. 0 - 0 <= MaxLineSize
      BY AuditAssumption
    <3> QED BY <1>3, <2>1, <2>2, <2>3, <3>1, SeenMore
  <2>5. Exact("done", 0, limit, <<>>)
    <3>1. Exact("done", 0, limit, Audit!Reverse(<<>>))
      BY <1>3, <2>4, EnoughExact
    <3> QED BY <3>1, ReverseNothing
  <2>6. ReaderFits("done", n, n, limit, <<>>, <<>>)
    BY <1>1, <2>1, <2>5 DEF ReaderFits
  <2>7. ReaderIs("done", n, n, limit, <<>>, <<>>)'
    BY <1>1, <1>2, <1>4 DEF ReaderIs, ReaderRecord, Audit!ReadLast, Audit!NoRead
  <2> QED BY <1>3, <2>6, <2>7, ReaderMoves DEF ReaderStates
<1>5. CASE file # <<>>
  <2>1. n + Len(<<>>) = n /\ n + Len(<<>>) + 1 = n + 1
    BY <1>3
  <2>2. ReaderFits("reading", n, n, limit, <<>>, <<>>)
    BY <1>1, <1>3, <2>1 DEF ReaderFits
  <2>3. ReaderIs("reading", n, n, limit, <<>>, <<>>)'
    BY <1>1, <1>2, <1>5 DEF ReaderIs, ReaderRecord, Audit!ReadLast, Audit!NoRead
  <2> QED BY <1>3, <2>2, <2>3, ReaderMoves DEF ReaderStates
<1> QED BY <1>4, <1>5

(* A block is what is in front of the data.                                *)
LEMMA ReaderReadsBlock ==
  ASSUME AuditTypes, Grown, ReaderInv, Audit!ReadBlock
  PROVE  ReaderInv'
<1>1. PICK pc \in ReaderStates, n \in Nat, left \in Nat, limit \in Nat,
           data \in Seq(Cell), events \in Seq(Nat) :
        /\ ReaderIs(pc, n, left, limit, data, events)
        /\ ReaderFits(pc, n, left, limit, data, events)
  BY DEF ReaderInv
<1>2. PICK l \in Nat : l = (IF left < BlockSize THEN 0 ELSE left - BlockSize) /\ l <= left
  <2>1. BlockSize \in Nat
    BY AuditAssumption
  <2>2. CASE left < BlockSize
    BY <2>2
  <2>3. CASE ~(left < BlockSize)
    <3>1. left - BlockSize \in Nat /\ left - BlockSize <= left
      BY <2>1, <2>3
    <3> QED BY <2>3, <3>1
  <2> QED BY <2>2, <2>3
<1> DEFINE block == SubSeq(file, l + 1, left)
<1>3. pc = "reading"
  BY <1>1 DEF ReaderIs, ReaderRecord, Audit!ReadBlock
<1>4. /\ n <= Len(file) /\ left + Len(data) <= n /\ Len(events) <= limit
      /\ \A j \in 1..Len(data) : data[j] = file[left + j]
      /\ left + Len(data) = n \/ file[left + Len(data) + 1] = Audit!Newline
      /\ Seen(n, left + Len(data) + 1, events)
  BY <1>1, <1>3 DEF ReaderFits
<1>5. Len(data) \in Nat /\ Len(file) \in Nat /\ file \in Seq(Cell)
  BY LenProperties DEF AuditTypes
<1>6. /\ block \in Seq(Cell) /\ Len(block) = left - l
      /\ \A j \in 1..(left - l) : block[j] = file[l + j]
  <2>1. /\ l + 1 \in Nat /\ left + 1 \in Nat /\ 1 <= l + 1 /\ l + 1 <= left + 1
        /\ left + 1 <= Len(file) + 1 /\ (left + 1) - 1 = left
        /\ (left + 1) - (l + 1) = left - l
        /\ \A j \in 1..(left - l) : (l + 1) + j - 1 = l + j
    <3>1. l <= left /\ left <= Len(file)
      <4>1. l <= left /\ left + Len(data) <= n /\ n <= Len(file)
        BY <1>2, <1>4
      <4> QED BY <1>5, <4>1
    <3> QED BY <1>5, <3>1
  <2>2. /\ SubSeq(file, l + 1, (left + 1) - 1) \in Seq(Cell)
        /\ Len(SubSeq(file, l + 1, (left + 1) - 1)) = (left + 1) - (l + 1)
        /\ \A j \in 1..((left + 1) - (l + 1)) :
             SubSeq(file, l + 1, (left + 1) - 1)[j] = file[(l + 1) + j - 1]
    BY <1>5, <2>1, TextIs
  <2>3. SubSeq(file, l + 1, (left + 1) - 1) = block
    BY <2>1
  <2> HIDE DEF block
  <2> QED BY <2>1, <2>2, <2>3
<1> HIDE DEF block
<1>7. PICK more \in Seq(Cell) : more = block \o data
  BY <1>6, ConcatProperties
<1>8. /\ Len(more) = (left - l) + Len(data) /\ l + Len(more) = left + Len(data)
      /\ \A j \in 1..((left - l) + Len(data)) :
           more[j] = IF j <= left - l THEN block[j] ELSE data[j - (left - l)]
  <2>1. /\ Len(more) = Len(block) + Len(data)
        /\ \A j \in 1..(Len(block) + Len(data)) :
             more[j] = IF j <= Len(block) THEN block[j] ELSE data[j - Len(block)]
    BY <1>6, <1>7, ConcatProperties
  <2>2. l + ((left - l) + Len(data)) = left + Len(data)
    BY <1>5
  <2> QED BY <1>6, <2>1, <2>2
<1>9. ASSUME NEW j \in 1..Len(more)
      PROVE  more[j] = file[l + j]
  <2>0. PICK m \in Nat : m = left - l
    BY <1>2
  <2>1. CASE j <= m
    <3>1. j \in 1..m
      BY <1>8, <2>0, <2>1
    <3> QED BY <1>6, <1>8, <2>0, <2>1, <3>1
  <2>2. CASE j > m
    <3>1. j \in Nat /\ j <= m + Len(data)
      BY <1>5, <1>8, <2>0
    <3>2. j - m \in 1..Len(data) /\ left + (j - m) = l + j /\ ~(j <= m)
      BY <1>5, <2>0, <2>2, <3>1
    <3>3. more[j] = data[j - m]
      BY <1>8, <2>0, <3>2
    <3> QED BY <1>4, <3>2, <3>3
  <2>3. j <= m \/ j > m
    BY <2>0
  <2> QED BY <2>1, <2>2, <2>3, Zenon
<1>10. ReaderFits("scanning", n, l, limit, more, events)
  BY <1>4, <1>8, <1>9 DEF ReaderFits
<1>11. ReaderIs("scanning", n, l, limit, more, events)'
  BY <1>1, <1>2, <1>7 DEF ReaderIs, ReaderRecord, Audit!ReadBlock, Audit!Joined, block
<1> QED BY <1>10, <1>11, ReaderMoves DEF ReaderStates

(* The end of the data, behind cell q of the file, is the text of a line.  *)
DataIs(left, data, p) ==
  /\ p = left + Len(data) /\ p <= Len(file)
  /\ \A j \in 1..Len(data) : data[j] = file[left + j]

LineText(p, q, text) == Len(text) = p - q /\ Audit!TextOf(<<q + 1, p + 1>>) = text

LEMMA TextOfData ==
  ASSUME AuditTypes, NEW left \in Nat, NEW data \in Seq(Cell), NEW p \in Nat,
         DataIs(left, data, p), NEW q \in Nat, left <= q, q <= p
  PROVE  /\ SubSeq(data, (q - left) + 1, Len(data)) \in Seq(Cell)
         /\ LineText(p, q, SubSeq(data, (q - left) + 1, Len(data)))
<1>0. /\ p = left + Len(data) /\ p <= Len(file)
      /\ \A j \in 1..Len(data) : data[j] = file[left + j]
  BY DEF DataIs
<1>1. PICK d \in Nat, s \in Nat : d = Len(data) /\ s = q - left /\ s <= d
                                  /\ q = left + s /\ p = left + d
  BY <1>0, LenProperties
<1> DEFINE t == SubSeq(data, s + 1, (d + 1) - 1)
           u == SubSeq(file, q + 1, (p + 1) - 1)
<1>2. /\ s + 1 \in Nat /\ d + 1 \in Nat /\ 1 <= s + 1 /\ s + 1 <= d + 1 /\ (d + 1) - 1 = d
      /\ (d + 1) - (s + 1) = p - q
      /\ q + 1 \in Nat /\ p + 1 \in Nat /\ 1 <= q + 1 /\ q + 1 <= p + 1
      /\ (p + 1) - (q + 1) = p - q
  BY <1>1
<1>3. /\ t \in Seq(Cell) /\ Len(t) = (d + 1) - (s + 1)
      /\ \A j \in 1..((d + 1) - (s + 1)) : t[j] = data[(s + 1) + j - 1]
  <2>1. d + 1 <= Len(data) + 1
    BY <1>1
  <2> QED BY <1>2, <2>1, TextIs
<1>4. /\ u \in Seq(Cell) /\ Len(u) = (p + 1) - (q + 1)
      /\ \A j \in 1..((p + 1) - (q + 1)) : u[j] = file[(q + 1) + j - 1]
  <2>1. file \in Seq(Cell) /\ Len(file) \in Nat
    BY LenProperties DEF AuditTypes
  <2>2. p + 1 <= Len(file) + 1
    BY <1>0, <2>1
  <2> QED BY <1>2, <2>1, <2>2, TextIs
<1> HIDE DEF t, u
<1>5. ASSUME NEW j \in 1..(p - q)
      PROVE  t[j] = u[j]
  <2>1. /\ (s + 1) + j - 1 = s + j /\ (q + 1) + j - 1 = left + (s + j)
        /\ s + j \in 1..d
    BY <1>1
  <2>2. data[s + j] = file[left + (s + j)]
    BY <1>0, <1>1, <2>1
  <2>3. t[j] = data[(s + 1) + j - 1] /\ u[j] = file[(q + 1) + j - 1]
    BY <1>2, <1>3, <1>4
  <2> QED BY <2>1, <2>2, <2>3
<1>6. t = u
  BY <1>2, <1>3, <1>4, <1>5, SeqEqual
<1>7. SubSeq(data, (q - left) + 1, Len(data)) = t
  BY <1>1, <1>2 DEF t
<1>8. Audit!TextOf(<<q + 1, p + 1>>) = u
  BY DEF Audit!TextOf, u
<1> QED BY <1>2, <1>3, <1>6, <1>7, <1>8 DEF LineText

(* The function parse passes a line, or finds it too long.                 *)
Passed(pc, n, left, limit, rest, p, q, result) ==
  \/ /\ result = ReaderRecord("failed", n, left, limit, rest, <<>>)
     /\ Exact("failed", n, limit, <<>>) /\ p - q > MaxLineSize
  \/ \E more \in Seq(Nat) :
       /\ result = ReaderRecord(pc, n, left, limit, rest, more)
       /\ Seen(n, q, more) /\ Len(more) <= limit

LEMMA Parsed ==
  ASSUME AuditTypes, NEW pc \in ReaderStates, NEW n \in Nat, NEW left \in Nat,
         NEW limit \in Nat, NEW rest \in Seq(Cell), NEW events \in Seq(Nat),
         NEW p \in Nat, NEW q \in Nat, q <= p, NextLine(n, p, q),
         Seen(n, p + 1, events), Len(events) < limit,
         NEW text \in Seq(Cell), LineText(p, q, text),
         NEW r, r = ReaderRecord(pc, n, left, limit, rest, events)
  PROVE  Passed(pc, n, left, limit, rest, p, q, Audit!parse(r, text))
<1> USE DEF Passed
<1>1. PICK m \in Nat : m = p - q
  OBVIOUS
<1>0. Len(text) = p - q /\ Audit!TextOf(<<q + 1, p + 1>>) = text
  BY DEF LineText
<1>2. MaxLineSize \in Nat /\ size \in Seq(Nat \ {0})
  BY AuditAssumption DEF AuditTypes
<1> DEFINE A == text = <<>>
           B == Len(text) > MaxLineSize
           V == Audit!Valid(text)
<1>3. CASE ~A /\ B
  <2>1. Audit!parse(r, text) = ReaderRecord("failed", n, left, limit, rest, <<>>)
    BY <1>3 DEF Audit!parse, Audit!Failed, ReaderRecord
  <2>2. p - q > MaxLineSize
    BY <1>0, <1>3
  <2>3. Exact("failed", n, limit, <<>>)
    BY <2>2, TooLongExact
  <2> QED BY <2>1, <2>2, <2>3
<1>4. ASSUME text = <<>> \/ ~(Len(text) > MaxLineSize)
      PROVE  p - q <= MaxLineSize
  <2>1. m <= MaxLineSize
    BY <1>0, <1>1, <1>2, <1>4
  <2> QED BY <1>1, <2>1
<1>5. CASE ~A /\ ~B /\ V
  <2>0. text[1].event \in 1..Len(size)
    BY <1>2, <1>5, ValidIs
  <2>1. PICK e \in Nat : e = text[1].event
    BY <1>2, <2>0, LenProperties
  <2>2. Audit!EventOf(<<q + 1, p + 1>>) = e
    BY <1>0, <2>1 DEF Audit!EventOf
  <2>3. PICK more \in Seq(Nat) : more = Append(events, e) /\ Len(more) = Len(events) + 1
    BY AppendProperties
  <2>4. Audit!parse(r, text) = ReaderRecord(pc, n, left, limit, rest, more)
    BY <1>5, <2>1, <2>3 DEF Audit!parse, ReaderRecord
  <2>5. Seen(n, q, more)
    BY <1>4, <1>5, <1>0, <2>2, <2>3, SeenMore
  <2>6. Len(more) <= limit
    BY <2>3, LenProperties
  <2> QED BY <2>4, <2>5, <2>6
<1>6. CASE A \/ (~B /\ ~V)
  <2>1. ~Audit!Valid(text)
    BY <1>2, <1>6, ValidIs
  <2>2. Audit!parse(r, text) = ReaderRecord(pc, n, left, limit, rest, events)
    BY <1>6, <2>1 DEF Audit!parse
  <2>3. Seen(n, q, events)
    BY <1>4, <1>6, <1>0, <2>1, SeenMore
  <2>4. Len(events) <= limit
    BY LenProperties
  <2> QED BY <2>2, <2>3, <2>4
<1> HIDE DEF A, B, V
<1> QED BY <1>3, <1>5, <1>6

LEMMA RecordData ==
  ASSUME NEW pc, NEW n, NEW left, NEW limit, NEW data, NEW events, NEW rest
  PROVE  [ReaderRecord(pc, n, left, limit, data, events) EXCEPT !.data = rest]
           = ReaderRecord(pc, n, left, limit, rest, events)
BY DEF ReaderRecord

LEMMA ReaderScansLine ==
  ASSUME AuditTypes, Grown, ReaderInv, Audit!ScanLine
  PROVE  ReaderInv'
<1>1. PICK pc \in ReaderStates, n \in Nat, left \in Nat, limit \in Nat,
           data \in Seq(Cell), events \in Seq(Nat) :
        /\ ReaderIs(pc, n, left, limit, data, events)
        /\ ReaderFits(pc, n, left, limit, data, events)
  BY DEF ReaderInv
<1>2. /\ reader.pc = pc /\ reader.data = data /\ reader.events = events
      /\ reader.limit = limit
  BY <1>1 DEF ReaderIs, ReaderRecord
<1>3. pc = "scanning" /\ Len(events) < limit /\ Audit!Newlines(data) # {}
  BY <1>2 DEF Audit!ScanLine, Audit!More
<1>4. /\ n <= Len(file) /\ left + Len(data) <= n
      /\ \A j \in 1..Len(data) : data[j] = file[left + j]
      /\ left + Len(data) = n \/ file[left + Len(data) + 1] = Audit!Newline
      /\ Seen(n, left + Len(data) + 1, events)
  BY <1>1, <1>3 DEF ReaderFits
<1>5. PICK d \in Nat, p \in Nat : d = Len(data) /\ p = left + d
  BY LenProperties
<1>6. Audit!Newlines(data) = {i \in 1..d : data[i] = Audit!Newline}
  BY <1>5, LenProperties DEF Audit!Newlines
<1>7. PICK s \in 1..d :
        /\ s = CHOOSE i \in Audit!Newlines(data) : \A j \in Audit!Newlines(data) : j <= i
        /\ data[s] = Audit!Newline
        /\ \A j \in (s + 1)..d : data[j] # Audit!Newline
  <2>1. \E i \in Audit!Newlines(data) : \A j \in Audit!Newlines(data) : j <= i
    <3>1. Audit!Newlines(data) \in SUBSET (0..d)
      BY <1>6
    <3> QED BY <1>3, <3>1, GreatestExists, Zenon
  <2> DEFINE s == CHOOSE i \in Audit!Newlines(data) : \A j \in Audit!Newlines(data) : j <= i
  <2>2. s \in Audit!Newlines(data) /\ \A j \in Audit!Newlines(data) : j <= s
    BY <2>1
  <2> HIDE DEF s
  <2>3. s \in 1..d /\ data[s] = Audit!Newline
    BY <1>6, <2>2
  <2>4. ASSUME NEW j \in (s + 1)..d
        PROVE  data[j] # Audit!Newline
    <3>1. j \in 1..d /\ ~(j <= s)
      BY <2>3
    <3> QED BY <1>6, <2>2, <3>1
  <2> QED BY <2>3, <2>4 DEF s
<1>19. s \in Nat /\ s <= d /\ 1 <= s
  OBVIOUS
<1>8. PICK q \in Nat : q = left + s /\ s \in Nat /\ s <= d /\ 1 <= s
  BY <1>19
<1>9. left <= q /\ q <= p /\ p <= n /\ p <= Len(file) /\ (q - left) + 1 = s + 1
  <2>1. left <= q /\ q <= p /\ (q - left) + 1 = s + 1
    BY <1>5, <1>8
  <2>2. p <= n /\ n <= Len(file) /\ Len(file) \in Nat
    BY <1>4, <1>5, AuditFields
  <2> QED BY <2>1, <2>2
<1>10. /\ file[q] = Audit!Newline
       /\ \A k \in (q + 1)..p : file[k] # Audit!Newline
       /\ p = n \/ file[p + 1] = Audit!Newline
       /\ Seen(n, p + 1, events)
  <2>1. file[q] = Audit!Newline
    BY <1>4, <1>5, <1>7, <1>8
  <2>2. ASSUME NEW k \in (q + 1)..p
        PROVE  file[k] # Audit!Newline
    <3>1. k - left \in (s + 1)..d /\ k - left \in 1..d /\ left + (k - left) = k
      BY <1>5, <1>8
    <3>2. data[k - left] = file[left + (k - left)]
      BY <1>4, <1>5, <3>1
    <3> QED BY <1>7, <3>1, <3>2
  <2>3. p = n \/ file[p + 1] = Audit!Newline
    BY <1>4, <1>5
  <2>4. Seen(n, p + 1, events)
    BY <1>4, <1>5
  <2> QED BY <2>1, <2>2, <2>3, <2>4
<1>11. NextLine(n, p, q)
  BY <1>9, <1>10, LastLine DEF NextLine
<1>12. PICK text \in Seq(Cell) :
         text = SubSeq(data, s + 1, Len(data)) /\ LineText(p, q, text)
  <2>1. DataIs(left, data, p)
    BY <1>4, <1>5, <1>9 DEF DataIs
  <2>2. left <= q /\ q <= p
    BY <1>9
  <2>3. /\ SubSeq(data, (q - left) + 1, Len(data)) \in Seq(Cell)
        /\ LineText(p, q, SubSeq(data, (q - left) + 1, Len(data)))
    BY <2>1, <2>2, TextOfData, Zenon
  <2> QED BY <1>9, <2>3
<1>13. PICK rest \in Seq(Cell) :
         /\ rest = SubSeq(data, 1, s - 1) /\ Len(rest) = s - 1
         /\ \A j \in 1..(s - 1) : rest[j] = data[j]
  <2>1. 1 \in Nat /\ 1 <= 1 /\ 1 <= s /\ s <= Len(data) + 1
    BY <1>5, <1>8
  <2>2. /\ SubSeq(data, 1, s - 1) \in Seq(Cell)
        /\ Len(SubSeq(data, 1, s - 1)) = s - 1
        /\ \A j \in 1..(s - 1) : SubSeq(data, 1, s - 1)[j] = data[1 + j - 1]
    BY <1>8, <2>1, TextIs
  <2>3. \A j \in 1..(s - 1) : 1 + j - 1 = j
    BY <1>8
  <2> QED BY <2>2, <2>3
<1>14. PICK r : r = ReaderRecord("scanning", n, left, limit, rest, events)
  OBVIOUS
<1>15. reader' = Audit!parse(r, text)
  <2>0. reader = ReaderRecord("scanning", n, left, limit, data, events)
    BY <1>1, <1>3 DEF ReaderIs
  <2>3. [ReaderRecord("scanning", n, left, limit, data, events) EXCEPT !.data = rest]
        = ReaderRecord("scanning", n, left, limit, rest, events)
    BY RecordData
  <2>1. [reader EXCEPT !.data = rest] = r
    BY <1>14, <2>0, <2>3, Zenon
  <2>2. reader' = Audit!parse([reader EXCEPT !.data = SubSeq(data, 1, s - 1)],
                              SubSeq(data, s + 1, Len(data)))
    BY <1>2, <1>7 DEF Audit!ScanLine
  <2> QED BY <1>12, <1>13, <2>1, <2>2
<1>16. \/ /\ Audit!parse(r, text) = ReaderRecord("failed", n, left, limit, rest, <<>>)
          /\ Exact("failed", n, limit, <<>>)
       \/ \E more \in Seq(Nat) :
            /\ Audit!parse(r, text) = ReaderRecord("scanning", n, left, limit, rest, more)
            /\ Seen(n, q, more) /\ Len(more) <= limit
  <2>1. "scanning" \in ReaderStates
    BY DEF ReaderStates
  <2>2. q <= p /\ Len(events) < limit /\ Seen(n, p + 1, events)
    BY <1>3, <1>9, <1>10
  <2>3. LineText(p, q, text)
    BY <1>12
  <2>4. Passed("scanning", n, left, limit, rest, p, q, Audit!parse(r, text))
    BY <1>11, <1>14, <2>1, <2>2, <2>3, Parsed, Zenon
  <2> QED BY <2>4 DEF Passed
<1>17. CASE /\ Audit!parse(r, text) = ReaderRecord("failed", n, left, limit, rest, <<>>)
            /\ Exact("failed", n, limit, <<>>)
  <2>1. ReaderFits("failed", n, left, limit, rest, <<>>)
    BY <1>4, <1>17 DEF ReaderFits
  <2>2. ReaderIs("failed", n, left, limit, rest, <<>>)'
    BY <1>15, <1>17 DEF ReaderIs
  <2>3. <<>> \in Seq(Nat) /\ "failed" \in ReaderStates
    BY DEF ReaderStates
  <2> QED BY <2>1, <2>2, <2>3, ReaderMoves
<1>18. ASSUME NEW more \in Seq(Nat),
              Audit!parse(r, text) = ReaderRecord("scanning", n, left, limit, rest, more),
              Seen(n, q, more), Len(more) <= limit
       PROVE  ReaderInv'
  <2>1. left + Len(rest) + 1 = q /\ left + Len(rest) <= n
    <3>1. left + (s - 1) + 1 = q /\ left + (s - 1) <= n
      BY <1>8, <1>9
    <3> QED BY <1>13, <3>1
  <2>2. \A j \in 1..Len(rest) : rest[j] = file[left + j]
    <3>1. \A j \in 1..(s - 1) : j \in 1..d
      BY <1>8
    <3> QED BY <1>4, <1>5, <1>13, <3>1
  <2>3. ReaderFits("scanning", n, left, limit, rest, more)
    BY <1>4, <1>10, <1>18, <2>1, <2>2 DEF ReaderFits
  <2>4. ReaderIs("scanning", n, left, limit, rest, more)'
    BY <1>15, <1>18 DEF ReaderIs
  <2>5. "scanning" \in ReaderStates
    BY DEF ReaderStates
  <2> QED BY <2>3, <2>4, <2>5, ReaderMoves
<1> QED BY <1>16, <1>17, <1>18

LEMMA ReverseType ==
  ASSUME NEW events \in Seq(Nat)
  PROVE  Audit!Reverse(events) \in Seq(Nat)
<1>1. Len(events) \in Nat
  BY LenProperties
<1>2. \A i \in 1..Len(events) : events[(Len(events) - i) + 1] \in Nat
  <2>1. \A i \in 1..Len(events) : (Len(events) - i) + 1 \in 1..Len(events)
    BY <1>1
  <2> QED BY <2>1, LenProperties
<1>3. Audit!Reverse(events) \in [1..Len(events) -> Nat]
  BY <1>2 DEF Audit!Reverse
<1> QED BY <1>1, <1>3

LEMMA RecordEnds ==
  ASSUME NEW n, NEW left, NEW limit, NEW data, NEW events, NEW r,
         r = ReaderRecord("scanning", n, left, limit, data, events)
  PROVE  /\ Audit!Finished(r)
              = ReaderRecord("done", n, left, limit, data, Audit!Reverse(events))
         /\ Audit!Failed(r) = ReaderRecord("failed", n, left, limit, data, <<>>)
         /\ [r EXCEPT !.pc = "reading"]
              = ReaderRecord("reading", n, left, limit, data, events)
         /\ r.events = events /\ r.limit = limit /\ r.data = data /\ r.left = left
<1>1. /\ r.events = events /\ r.limit = limit /\ r.data = data /\ r.left = left
      /\ r.pc = "scanning"
  BY DEF ReaderRecord
<1>2. ASSUME NEW x
      PROVE  [r EXCEPT !.pc = x] = ReaderRecord(x, n, left, limit, data, events)
  BY DEF ReaderRecord
<1>3. ASSUME NEW x, NEW y
      PROVE  [ReaderRecord(x, n, left, limit, data, events) EXCEPT !.events = y]
               = ReaderRecord(x, n, left, limit, data, y)
  BY DEF ReaderRecord
<1>4. ASSUME NEW x, NEW y
      PROVE  [[r EXCEPT !.pc = x] EXCEPT !.events = y]
               = ReaderRecord(x, n, left, limit, data, y)
  BY <1>2, <1>3
<1>5. Audit!Finished(r) = [[r EXCEPT !.pc = "done"] EXCEPT !.events = Audit!Reverse(r.events)]
  BY <1>1 DEF Audit!Finished
<1>6. Audit!Failed(r) = [[r EXCEPT !.pc = "failed"] EXCEPT !.events = <<>>]
  BY DEF Audit!Failed
<1>7. Audit!Finished(r)
        = ReaderRecord("done", n, left, limit, data, Audit!Reverse(events))
  BY <1>1, <1>4, <1>5, Zenon
<1>8. Audit!Failed(r) = ReaderRecord("failed", n, left, limit, data, <<>>)
  BY <1>4, <1>6, Zenon
<1> QED BY <1>1, <1>2, <1>7, <1>8

(* ReadLast is over with enough events, or at the beginning of the file.   *)
LEMMA ReaderFinishes ==
  ASSUME AuditTypes, Grown, NEW n \in Nat, NEW left \in Nat, NEW limit \in Nat,
         NEW data \in Seq(Cell), NEW events \in Seq(Nat), NEW p \in Nat,
         n <= Len(file), Seen(n, p, events), Len(events) <= limit,
         Len(events) = limit \/ p = 0,
         reader' = ReaderRecord("done", n, left, limit, data, Audit!Reverse(events))
  PROVE  ReaderInv'
<1>1. Exact("done", n, limit, Audit!Reverse(events))
  BY EnoughExact
<1>2. PICK answer \in Seq(Nat) : answer = Audit!Reverse(events)
  BY ReverseType
<1>3. ReaderFits("done", n, left, limit, data, answer)
  BY <1>1, <1>2 DEF ReaderFits
<1>4. ReaderIs("done", n, left, limit, data, answer)'
  BY <1>2 DEF ReaderIs
<1>5. "done" \in ReaderStates
  BY DEF ReaderStates
<1> QED BY <1>3, <1>4, <1>5, ReaderMoves

(* Data without a newline that is too long is part of a line that is.      *)
LEMMA TooLongData ==
  ASSUME AuditTypes, NEW n \in Nat, NEW left \in Nat, NEW limit \in Nat,
         NEW data \in Seq(Cell), NEW events \in Seq(Nat), NEW p \in Nat,
         DataIs(left, data, p), p <= n, p = n \/ file[p + 1] = Audit!Newline,
         Seen(n, p + 1, events), Len(events) < limit,
         \A j \in 1..Len(data) : data[j] # Audit!Newline, Len(data) > MaxLineSize
  PROVE  Exact("failed", n, limit, <<>>)
<1>1. PICK d \in Nat : d = Len(data) /\ p = left + d
  BY LenProperties DEF DataIs
<1>2. \A j \in 1..d : data[j] = file[left + j]
  BY <1>1 DEF DataIs
<1> DEFINE S == {i \in 0..left : i = 0 \/ file[i] = Audit!Newline}
<1>3. S \in SUBSET (0..left) /\ S # {}
  <2>1. 0 \in S
    OBVIOUS
  <2> QED BY <2>1
<1>4. PICK q \in S : \A x \in S : x <= q
  <2> HIDE DEF S
  <2> QED BY <1>3, GreatestExists
<1>5. q \in Nat /\ q <= left /\ (q = 0 \/ file[q] = Audit!Newline) /\ left <= p
  BY <1>1
<1>6. ASSUME NEW k \in (q + 1)..p
      PROVE  file[k] # Audit!Newline
  <2>1. CASE k <= left
    <3>1. k \in 0..left /\ ~(k <= q)
      BY <1>5, <2>1
    <3> QED BY <1>4, <3>1
  <2>2. CASE k > left
    <3>1. k - left \in 1..d /\ left + (k - left) = k
      BY <1>1, <1>5, <2>2
    <3>2. data[k - left] = file[left + (k - left)] /\ data[k - left] # Audit!Newline
      BY <1>1, <1>2, <3>1
    <3> QED BY <3>1, <3>2
  <2>3. k <= left \/ k > left
    BY <1>5
  <2> QED BY <2>1, <2>2, <2>3, Zenon
<1> HIDE DEF S
<1>9. q <= p
  BY <1>5
<1>7. NextLine(n, p, q)
  BY <1>5, <1>6, <1>9, LastLine DEF NextLine
<1>8. p - q > MaxLineSize
  <2>1. d > MaxLineSize /\ MaxLineSize \in Nat
    BY <1>1, AuditAssumption
  <2> QED BY <1>1, <1>5, <2>1
<1> QED BY <1>5, <1>7, <1>8, <1>9, TooLongExact

LEMMA ReaderEndsBlock ==
  ASSUME AuditTypes, Grown, ReaderInv, Audit!EndBlock
  PROVE  ReaderInv'
<1>1. PICK pc \in ReaderStates, n \in Nat, left \in Nat, limit \in Nat,
           data \in Seq(Cell), events \in Seq(Nat) :
        /\ ReaderIs(pc, n, left, limit, data, events)
        /\ ReaderFits(pc, n, left, limit, data, events)
  BY DEF ReaderInv
<1>2. pc = "scanning"
  BY <1>1 DEF ReaderIs, ReaderRecord, Audit!EndBlock
<1>3. reader = ReaderRecord("scanning", n, left, limit, data, events)
  BY <1>1, <1>2 DEF ReaderIs
<1>4. /\ n <= Len(file) /\ left + Len(data) <= n /\ Len(events) <= limit
      /\ \A j \in 1..Len(data) : data[j] = file[left + j]
      /\ left + Len(data) = n \/ file[left + Len(data) + 1] = Audit!Newline
      /\ Seen(n, left + Len(data) + 1, events)
  BY <1>1, <1>2 DEF ReaderFits
<1>5. PICK d \in Nat, p \in Nat : d = Len(data) /\ p = left + Len(data) /\ p = left + d
  BY LenProperties
<1>6. /\ p <= n /\ p <= Len(file) /\ Len(events) \in Nat
      /\ p = n \/ file[p + 1] = Audit!Newline
      /\ Seen(n, p + 1, events) /\ DataIs(left, data, p)
  <2>1. p <= n /\ n <= Len(file) /\ Len(file) \in Nat /\ Len(events) \in Nat
    BY <1>4, <1>5, AuditFields, LenProperties
  <2>2. p <= Len(file)
    BY <2>1
  <2>3. Seen(n, p + 1, events) /\ (p = n \/ file[p + 1] = Audit!Newline)
    BY <1>4, <1>5
  <2> QED BY <1>4, <1>5, <2>1, <2>2, <2>3 DEF DataIs
<1>7. /\ Audit!Finished(reader)
           = ReaderRecord("done", n, left, limit, data, Audit!Reverse(events))
      /\ Audit!Failed(reader) = ReaderRecord("failed", n, left, limit, data, <<>>)
      /\ [reader EXCEPT !.pc = "reading"]
           = ReaderRecord("reading", n, left, limit, data, events)
      /\ reader.events = events /\ reader.limit = limit /\ reader.data = data
      /\ reader.left = left
  <2>1. \E r : r = reader
    OBVIOUS
  <2> QED BY <1>3, <2>1, RecordEnds
<1>8. reader' = IF Len(events) = limit THEN Audit!Finished(reader)
                ELSE IF Len(data) > MaxLineSize THEN Audit!Failed(reader)
                ELSE IF left = 0 THEN Audit!Finished(Audit!parse(reader, data))
                ELSE [reader EXCEPT !.pc = "reading"]
  BY <1>7 DEF Audit!EndBlock
<1>9. ~(Len(events) < limit /\ Audit!Newlines(data) # {})
  BY <1>7 DEF Audit!EndBlock, Audit!More
<1>10. CASE Len(events) = limit
  <2>1. reader' = ReaderRecord("done", n, left, limit, data, Audit!Reverse(events))
    BY <1>7, <1>8, <1>10
  <2>2. p + 1 \in Nat
    OBVIOUS
  <2> QED BY <1>4, <1>6, <1>10, <2>1, <2>2, ReaderFinishes
<1>11. ASSUME Len(events) # limit
       PROVE  Len(events) < limit /\ \A j \in 1..Len(data) : data[j] # Audit!Newline
  <2>1. Len(events) < limit
    BY <1>4, <1>6, <1>11
  <2>2. Audit!Newlines(data) = {}
    BY <1>9, <2>1
  <2>3. DOMAIN data = 1..Len(data)
    BY LenProperties
  <2> QED BY <2>1, <2>2, <2>3 DEF Audit!Newlines
<1>12. CASE Len(events) # limit /\ Len(data) > MaxLineSize
  <2>1. Exact("failed", n, limit, <<>>)
    BY <1>6, <1>11, <1>12, TooLongData
  <2>2. ReaderIs("failed", n, left, limit, data, <<>>)'
    BY <1>7, <1>8, <1>12 DEF ReaderIs
  <2>3. ReaderFits("failed", n, left, limit, data, <<>>)
    BY <1>4, <2>1 DEF ReaderFits
  <2>4. <<>> \in Seq(Nat) /\ "failed" \in ReaderStates
    BY DEF ReaderStates
  <2> QED BY <2>2, <2>3, <2>4, ReaderMoves
<1>13. CASE Len(events) # limit /\ ~(Len(data) > MaxLineSize) /\ left = 0
  <2>1. p = d /\ d = Len(data) /\ ~(p - 0 > MaxLineSize)
    <3>1. p = d
      BY <1>5, <1>13
    <3>2. d - 0 = d /\ ~(d > MaxLineSize)
      BY <1>5, <1>13
    <3> QED BY <1>5, <3>1, <3>2
  <2>2. NextLine(n, p, 0)
    <3>1. ASSUME NEW k \in (0 + 1)..p
          PROVE  file[k] # Audit!Newline
      <4>1. k \in 1..Len(data) /\ left + k = k
        BY <1>13, <2>1
      <4> QED BY <1>4, <1>11, <1>13, <4>1
    <3>2. 0 <= p /\ 0 \in Nat
      OBVIOUS
    <3> QED BY <1>6, <3>1, <3>2, LastLine DEF NextLine
  <2>3. LineText(p, 0, data)
    <3>1. /\ SubSeq(data, (0 - left) + 1, Len(data)) \in Seq(Cell)
          /\ LineText(p, 0, SubSeq(data, (0 - left) + 1, Len(data)))
      <4>1. left <= 0 /\ 0 <= p /\ 0 \in Nat
        BY <1>13
      <4> QED BY <1>6, <4>1, TextOfData, Zenon
    <3>2. SubSeq(data, (0 - left) + 1, Len(data)) = data
      <4>1. (0 - left) + 1 = 1
        BY <1>13
      <4>2. SubSeq(data, 1, Len(data)) = data
        OBVIOUS
      <4> QED BY <4>1, <4>2
    <3> QED BY <3>1, <3>2
  <2>4. Passed("scanning", n, left, limit, data, p, 0, Audit!parse(reader, data))
    <3>1. "scanning" \in ReaderStates /\ 0 \in Nat /\ 0 <= p
      BY DEF ReaderStates
    <3>2. Len(events) < limit
      BY <1>11, <1>13
    <3> QED BY <1>3, <1>6, <2>2, <2>3, <3>1, <3>2, Parsed, Zenon
  <2>5. PICK more \in Seq(Nat) :
          /\ Audit!parse(reader, data) = ReaderRecord("scanning", n, left, limit, data, more)
          /\ Seen(n, 0, more) /\ Len(more) <= limit
    BY <2>1, <2>4 DEF Passed
  <2>6. Audit!Finished(Audit!parse(reader, data))
          = ReaderRecord("done", n, left, limit, data, Audit!Reverse(more))
    BY <2>5, RecordEnds
  <2>7. reader' = ReaderRecord("done", n, left, limit, data, Audit!Reverse(more))
    BY <1>8, <1>13, <2>6
  <2> QED BY <1>4, <2>5, <2>7, ReaderFinishes
<1>14. CASE Len(events) # limit /\ ~(Len(data) > MaxLineSize) /\ left # 0
  <2>1. ReaderIs("reading", n, left, limit, data, events)'
    BY <1>7, <1>8, <1>14 DEF ReaderIs
  <2>2. ReaderFits("reading", n, left, limit, data, events)
    BY <1>4 DEF ReaderFits
  <2>3. "reading" \in ReaderStates
    BY DEF ReaderStates
  <2> QED BY <2>1, <2>2, <2>3, ReaderMoves
<1> QED BY <1>10, <1>12, <1>13, <1>14

(* The file and the list of events only grow.                              *)
LEMMA AuditGrown ==
  ASSUME AuditInv, AuditInv', [ServicesNext]_all
  PROVE  Grown
<1>1. /\ AuditTypes /\ AuditTypes' /\ size \in Seq(Nat \ {0}) /\ file \in Seq(Cell)
      /\ Len(size) \in Nat /\ Len(file) \in Nat
  BY LenProperties DEF AuditInv, AuditTypes
<1>2. CASE UNCHANGED <<file, size>>
  BY <1>1, <1>2 DEF Grown
<1>3. ASSUME NEW w \in Requests, NEW length \in Lengths, Audit!Record(w, length)
      PROVE  Grown
  <2>1. size' = Append(size, length) /\ file' = file /\ length \in Nat \ {0}
    BY <1>3, AuditAssumption DEF Audit!Record
  <2>2. Len(size') = Len(size) + 1 /\ \A e \in 1..Len(size) : size'[e] = size[e]
    BY <1>1, <2>1, AppendProperties
  <2>3. Len(size) <= Len(size')
    BY <1>1, <2>2
  <2> QED BY <1>1, <2>1, <2>2, <2>3 DEF Grown
<1>4. ASSUME NEW w \in Requests, Audit!Write(w)
      PROVE  Grown
  <2> DEFINE e == writer[w].event
             k == writer[w].written
  <2>1. PICK n \in 1..(size[e] + 1 - k) :
          file' = file \o SubSeq(Audit!Entry(e), k + 1, k + n)
    BY <1>4 DEF Audit!Write
  <2>2. Writes(w, e, k) /\ size' = size
    BY <1>4 DEF Audit!Write, Writes
  <2> HIDE DEF e, k
  <2>3. /\ e \in 1..Len(size) /\ k \in Nat /\ k <= size[e] /\ k <= Len(file)
        /\ \A j \in 1..k : file[Len(file) - k + j] = Audit!Entry(e)[j]
    BY <2>2, AuditWriting
  <2>4. size[e] \in Nat
    BY <1>1, <2>3, AuditFields
  <2>5. n \in Nat /\ n > 0 /\ k + n <= size[e] + 1
    BY <2>3, <2>4
  <2>6. Len(file') = Len(file) + n /\ \A i \in 1..Len(file) : file'[i] = file[i]
    BY <1>1, <2>1, <2>2, <2>3, <2>5, AuditGrows
  <2>7. Len(file) <= Len(file')
    BY <1>1, <2>5, <2>6
  <2> QED BY <1>1, <2>2, <2>6, <2>7 DEF Grown
<1>5. \/ UNCHANGED <<file, size>>
      \/ \E w \in Requests : \/ \E length \in Lengths : Audit!Record(w, length)
                             \/ Audit!Write(w)
  <2>1. CASE UNCHANGED auditVars
    BY <2>1 DEF auditVars
  <2>2. CASE Audit!Next
    <3>1. ASSUME NEW w \in Requests, Audit!Lock(w) \/ Audit!RecordFails(w)
          PROVE  UNCHANGED <<file, size>>
      BY <3>1 DEF Audit!Lock, Audit!RecordFails
    <3>2. Audit!Restart => UNCHANGED <<file, size>>
      BY DEF Audit!Restart
    <3>3. ASSUME NEW limit \in Limits, Audit!ReadLast(limit)
          PROVE  UNCHANGED <<file, size>>
      BY <3>3 DEF Audit!ReadLast
    <3>4. Audit!ReadBlock \/ Audit!ScanLine => UNCHANGED <<file, size>>
      BY DEF Audit!ReadBlock, Audit!ScanLine
    <3>5. Audit!EndBlock \/ Audit!Answered => UNCHANGED <<file, size>>
      BY DEF Audit!EndBlock, Audit!Answered
    <3> QED BY <2>2, <3>1, <3>2, <3>3, <3>4, <3>5 DEF Audit!Next
  <2> QED BY <2>1, <2>2, AuditStep
<1> QED BY <1>2, <1>3, <1>4, <1>5

LEMMA ReaderStarts == ServicesInit => ReaderInv
<1> SUFFICES ASSUME ServicesInit PROVE ReaderInv
  OBVIOUS
<1>1. ReaderIs("idle", 0, 0, 0, <<>>, <<>>)
  BY DEF ServicesInit, Audit!Init, ReaderIs, ReaderRecord, Audit!NoRead
<1>2. ReaderFits("idle", 0, 0, 0, <<>>, <<>>)
  BY DEF ReaderFits
<1>3. "idle" \in ReaderStates /\ <<>> \in Seq(Cell) /\ <<>> \in Seq(Nat) /\ 0 \in Nat
  BY DEF ReaderStates
<1> QED BY <1>1, <1>2, <1>3 DEF ReaderInv

LEMMA ReaderNext ==
  ASSUME AuditInv, AuditInv', ReaderInv, [ServicesNext]_all
  PROVE  ReaderInv'
<1>1. Grown /\ AuditTypes
  BY AuditGrown DEF AuditInv
<1>2. CASE UNCHANGED auditVars
  BY <1>1, <1>2, ReaderSame DEF auditVars
<1>3. CASE Audit!Next
  <2>1. ASSUME NEW w \in Requests,
               \/ \E length \in Lengths : Audit!Record(w, length)
               \/ Audit!Lock(w) \/ Audit!Write(w) \/ Audit!RecordFails(w)
        PROVE  ReaderInv'
    BY <1>1, <2>1, ReaderSame
       DEF Audit!Record, Audit!Lock, Audit!Write, Audit!RecordFails
  <2>2. CASE Audit!Restart
    BY <1>1, <2>2, ReaderIdle DEF Audit!Restart
  <2>3. CASE \E limit \in Limits : Audit!ReadLast(limit)
    BY <1>1, <2>3, ReaderOpens
  <2>4. CASE Audit!ReadBlock
    BY <1>1, <2>4, ReaderReadsBlock
  <2>5. CASE Audit!ScanLine
    BY <1>1, <2>5, ReaderScansLine
  <2>6. CASE Audit!EndBlock
    BY <1>1, <2>6, ReaderEndsBlock
  <2>7. CASE Audit!Answered
    BY <1>1, <2>7, ReaderIdle DEF Audit!Answered
  <2> QED BY <1>3, <2>1, <2>2, <2>3, <2>4, <2>5, <2>6, <2>7 DEF Audit!Next
<1> QED BY <1>2, <1>3, AuditStep

(* ReadLast returns the newest events of the file as it was when it was    *)
(* opened, in their order, and fails only at a line that is too long:      *)
(* whatever the sizes of blocks and lines, the limit asked for, and what   *)
(* Record appends, tears or repeats in the meantime.                       *)
THEOREM ExactReads == ServicesSpec => []ReadExact
<1>1. ReaderInv => ReadExact
  <2> SUFFICES ASSUME ReaderInv PROVE ReadExact
    OBVIOUS
  <2>1. PICK pc \in ReaderStates, n \in Nat, left \in Nat, limit \in Nat,
             data \in Seq(Cell), events \in Seq(Nat) :
          /\ ReaderIs(pc, n, left, limit, data, events)
          /\ ReaderFits(pc, n, left, limit, data, events)
    BY DEF ReaderInv
  <2>2. /\ reader.pc = pc /\ reader.from = n /\ reader.limit = limit
        /\ reader.events = events
    BY <2>1 DEF ReaderIs, ReaderRecord
  <2>3. pc \in {"done", "failed"} => Exact(pc, n, limit, events)
    BY <2>1 DEF ReaderFits
  <2>4. /\ Audit!Wanted(n, limit) = Wants(n, limit)
        /\ Audit!InTheWay(n, limit) = Blocking(n, limit)
        /\ \A line : Audit!Cardinality(Audit!Newer(line, n))
                       = Cardinality(Past(n, line[1]))
        /\ Audit!Cardinality(Audit!Wanted(n, limit)) = Cardinality(Wants(n, limit))
    BY WantedMeans
  <2>5. ASSUME pc = "failed"
        PROVE  Audit!InTheWay(n, limit) # {}
    BY <2>3, <2>4, <2>5 DEF Exact
  <2>6. ASSUME pc = "done"
        PROVE  /\ Audit!InTheWay(n, limit) = {}
               /\ Len(events) = Audit!Cardinality(Audit!Wanted(n, limit))
               /\ \A line \in Audit!Wanted(n, limit) :
                    events[Audit!Cardinality(Audit!Wanted(n, limit))
                           - Audit!Cardinality(Audit!Newer(line, n))]
                      = Audit!EventOf(line)
    <3>1. /\ Blocking(n, limit) = {}
          /\ Len(events) = Cardinality(Wants(n, limit))
          /\ \A line \in Wants(n, limit) :
               events[Cardinality(Wants(n, limit)) - Cardinality(Past(n, line[1]))]
                 = Audit!EventOf(line)
      BY <2>3, <2>6 DEF Exact
    <3> QED BY <2>4, <3>1, Zenon
  <2> QED BY <2>2, <2>5, <2>6 DEF ReadExact, Audit!ReadExact
<1>2. AuditInv /\ AuditInv' /\ ReaderInv /\ [ServicesNext]_all => ReaderInv'
  BY ReaderNext
<1> QED BY <1>1, <1>2, ReaderStarts, AuditInvariant, Steps, PTL
=============================================================================
