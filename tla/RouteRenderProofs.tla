------------------------- MODULE RouteRenderProofs -------------------------
(***************************************************************************)
(* What Render makes of the routes answers every request as it should, for *)
(* every set of routes, settings and requests.                             *)
(***************************************************************************)
EXTENDS RouteRender, FiniteSetTheorems, SequenceTheorems, WellFoundedInduction,
        TLAPS

----------------------------------------------------------------------------
(* Induction and recursion over the natural numbers, for sets and          *)
(* functions.                                                              *)

LEMMA SetInduction ==
  ASSUME NEW P, 0 \in P, \A n \in Nat : n \in P => n + 1 \in P
  PROVE  Nat \subseteq P
<1> DEFINE T == Nat \ P
           R == {ss \in Nat \X Nat : ss[1] < ss[2]}
<1> SUFFICES ASSUME T # {} PROVE FALSE
  OBVIOUS
<1>1. IsWellFoundedOn(R, Nat)
  BY NatLessThanWellFounded DEF OpToRel
<1>2. \E x \in T : \A t \in T : ~(<<t, x>> \in R)
  <2>1. T \subseteq Nat
    OBVIOUS
  <2> HIDE DEF R, T
  <2> QED BY <1>1, <2>1, WFMin
<1>3. PICK x \in T : \A t \in T : ~(<<t, x>> \in R)
  BY <1>2
<1>4. x \in Nat /\ x # 0 /\ x - 1 \in Nat /\ x - 1 < x /\ (x - 1) + 1 = x
  OBVIOUS
<1>5. x - 1 \notin P
  BY <1>4
<1> QED BY <1>3, <1>4, <1>5

(* A function that is what its predecessor makes it.                       *)
Follows(g, n, S, z, step) ==
  g \in [0..n -> S] /\ g[0] = z /\ \A k \in 1..n : g[k] = step[k][g[k - 1]]

LEMMA RecursionUpTo ==
  ASSUME NEW S, NEW z \in S, NEW n \in Nat, NEW step \in [1..n -> [S -> S]]
  PROVE  \E g : Follows(g, n, S, z, step)
<1> DEFINE P == {m \in Nat : m <= n => \E g : Follows(g, m, S, z, step)}
<1>1. 0 \in P
  <2>1. Follows([k \in 0..0 |-> z], 0, S, z, step)
    BY DEF Follows
  <2> QED BY <2>1
<1>2. ASSUME NEW m \in Nat, m \in P, m + 1 <= n
      PROVE  \E g : Follows(g, m + 1, S, z, step)
  <2>1. PICK g : Follows(g, m, S, z, step)
    BY <1>2
  <2> DEFINE h == [k \in 0..(m + 1) |-> IF k = m + 1 THEN step[m + 1][g[m]] ELSE g[k]]
  <2>2. g \in [0..m -> S] /\ g[0] = z /\ \A k \in 1..m : g[k] = step[k][g[k - 1]]
    BY <2>1 DEF Follows
  <2>3. step[m + 1][g[m]] \in S
    BY <1>2, <2>2
  <2>4. h \in [0..(m + 1) -> S] /\ h[0] = z
    BY <2>2, <2>3
  <2>5. ASSUME NEW k \in 1..(m + 1)
        PROVE  h[k] = step[k][h[k - 1]]
    <3>1. h[k - 1] = g[k - 1]
      OBVIOUS
    <3>2. CASE k = m + 1
      BY <3>1, <3>2
    <3>3. CASE k # m + 1
      <4>1. k \in 1..m /\ h[k] = g[k]
        BY <3>3
      <4> QED BY <2>2, <3>1, <4>1
    <3> QED BY <3>2, <3>3
  <2> HIDE DEF h
  <2>6. Follows(h, m + 1, S, z, step)
    BY <2>4, <2>5 DEF Follows
  <2> QED BY <2>6
<1>3. \A m \in Nat : m \in P => m + 1 \in P
  BY <1>2
<1>4. Nat \subseteq P
  <2> HIDE DEF P
  <2> QED BY <1>1, <1>3, SetInduction
<1> QED BY <1>4

LEMMA LeastExists ==
  ASSUME NEW S, S \subseteq Nat, S # {}
  PROVE  \E x \in S : \A y \in S : x <= y
<1> DEFINE R == {ss \in Nat \X Nat : ss[1] < ss[2]}
<1>1. IsWellFoundedOn(R, Nat)
  BY NatLessThanWellFounded DEF OpToRel
<1>2. \E x \in S : \A y \in S : ~(<<y, x>> \in R)
  <2> HIDE DEF R
  <2> QED BY <1>1, WFMin
<1>3. PICK x \in S : \A y \in S : ~(<<y, x>> \in R)
  BY <1>2
<1>4. ASSUME NEW y \in S
      PROVE  x <= y
  <2>1. x \in Nat /\ y \in Nat
    OBVIOUS
  <2>2. ~(y < x)
    BY <1>3, <2>1
  <2> QED BY <2>1, <2>2
<1> QED BY <1>4

----------------------------------------------------------------------------
(* Sorting.                                                                *)

(* In a total order of 1..n, the number of predecessors is a place: no two *)
(* elements share one, and none is left free.                              *)
Orders(B, n) ==
  /\ \A i \in 1..n : <<i, i>> \notin B
  /\ \A i, j \in 1..n : i # j => <<i, j>> \in B \/ <<j, i>> \in B
  /\ \A i, j, k \in 1..n : <<i, j>> \in B /\ <<j, k>> \in B => <<i, k>> \in B

PlaceIn(B, n) == [i \in 1..n |-> Cardinality({j \in 1..n : <<j, i>> \in B}) + 1]

LEMMA Places ==
  ASSUME NEW n \in Nat, NEW B, Orders(B, n)
  PROVE  /\ PlaceIn(B, n) \in [1..n -> 1..n]
         /\ \A i, j \in 1..n : <<i, j>> \in B => PlaceIn(B, n)[i] < PlaceIn(B, n)[j]
         /\ \A k \in 1..n : \E i \in 1..n : PlaceIn(B, n)[i] = k
<1> DEFINE place == PlaceIn(B, n)
<1> USE DEF Orders, PlaceIn
<1> DEFINE D == 1..n
           Before(i) == {j \in D : <<j, i>> \in B}
<1>1. IsFiniteSet(D) /\ Cardinality(D) = n
  <2>1. IsFiniteSet(1..n) /\ Cardinality(1..n) = IF 1 > n THEN 0 ELSE n - 1 + 1
    BY FS_Interval
  <2> QED BY <2>1
<1>2. ASSUME NEW i \in D
      PROVE  IsFiniteSet(Before(i)) /\ Cardinality(Before(i)) \in Nat
  <2>1. Before(i) \in SUBSET D
    OBVIOUS
  <2> HIDE DEF Before, D
  <2> QED BY <1>1, <2>1, FS_Subset, FS_CardinalityType
<1>3. ASSUME NEW i \in D, NEW T, T \in SUBSET D, Before(i) \cup {i} \subseteq T
      PROVE  Cardinality(Before(i)) + 1 <= Cardinality(T)
  <2>1. i \notin Before(i)
    OBVIOUS
  <2> HIDE DEF Before, D
  <2>2. Cardinality(Before(i) \cup {i}) = Cardinality(Before(i)) + 1
    BY <1>2, <2>1, FS_AddElement
  <2>3. IsFiniteSet(T)
    BY <1>1, <1>3, FS_Subset
  <2>4. Cardinality(Before(i) \cup {i}) <= Cardinality(T)
    BY <1>3, <2>3, FS_Subset
  <2> QED BY <2>2, <2>4
<1>4. \A i \in D : place[i] = Cardinality(Before(i)) + 1
  OBVIOUS
<1>5. place \in [D -> D]
  <2>1. ASSUME NEW i \in D
        PROVE  place[i] \in D
    <3>1. Before(i) \cup {i} \subseteq D
      OBVIOUS
    <3>2. Cardinality(Before(i)) + 1 <= n
      <4> HIDE DEF Before, D
      <4> QED BY <1>1, <1>3, <3>1
    <3>3. Cardinality(Before(i)) \in Nat
      BY <1>2
    <3> QED BY <1>4, <3>2, <3>3
  <2> QED BY <2>1
<1>6. ASSUME NEW i \in D, NEW j \in D, <<i, j>> \in B
      PROVE  place[i] < place[j]
  <2>1. Before(j) \in SUBSET D /\ Before(i) \cup {i} \subseteq Before(j)
    BY <1>6
  <2>2. Cardinality(Before(i)) + 1 <= Cardinality(Before(j))
    <3> HIDE DEF Before, D
    <3> QED BY <1>3, <2>1
  <2>3. Cardinality(Before(i)) \in Nat /\ Cardinality(Before(j)) \in Nat
    BY <1>2
  <2> HIDE DEF Before
  <2> QED BY <1>4, <2>2, <2>3
<1>7. place \in Injection(D, D)
  <2>1. ASSUME NEW i \in D, NEW j \in D, place[i] = place[j]
        PROVE  i = j
    <3> SUFFICES ASSUME i # j PROVE FALSE
      OBVIOUS
    <3>1. <<i, j>> \in B \/ <<j, i>> \in B
      OBVIOUS
    <3>2. place[i] \in Int /\ place[j] \in Int
      BY <1>5
    <3>3. place[i] < place[j] \/ place[j] < place[i]
      <4> HIDE DEF D, Before
      <4> QED BY <1>6, <3>1
    <3> QED BY <2>1, <3>2, <3>3
  <2>2. DOMAIN place = D
    OBVIOUS
  <2> HIDE DEF D
  <2>3. IsInjective(place)
    BY <2>1, <2>2, Zenon DEF IsInjective
  <2> QED BY <1>5, <2>3, Zenon DEF Injection
<1>8. place \in Surjection(D, D)
  <2> HIDE DEF D
  <2> QED BY <1>1, <1>7, FS_Injection
<1>9. \A k \in D : \E i \in D : place[i] = k
  <2> HIDE DEF D
  <2> QED BY <1>8 DEF Surjection
<1> QED BY <1>5, <1>6, <1>9

(* The routes that come to be rendered.                                    *)
Listed == {r \in Route : r.host \in Hosts /\ r.path \in Paths}
          \cup {ManagementRoute(c) : c \in {x \in Settings : x.managementHost # <<>>}}

LEMMA ListedFields ==
  ASSUME NEW r \in Listed
  PROVE  /\ r.host \in Hosts /\ r.path \in Paths /\ r.host \in Host /\ r.path \in Path
         /\ r.enabled \in BOOLEAN /\ r.internal \in BOOLEAN /\ r.protected \in BOOLEAN
         /\ r.disabled \in BOOLEAN /\ r.https \in BOOLEAN
         /\ r.protocol \in {"", "http", "https"} /\ r.port \in Nat
         /\ r.headers \in SUBSET [name : STRING, value : STRING]
         /\ r.blocked \in SUBSET Sources /\ r.allowed \in SUBSET Sources
         /\ r.methods \in SUBSET Methods /\ r.paths \in SUBSET Path
<1>1. CASE r \in Route /\ r.host \in Hosts /\ r.path \in Paths
  BY <1>1 DEF Route
<1>2. ASSUME NEW c \in Settings, c.managementHost # <<>>, r = ManagementRoute(c)
      PROVE  /\ r.host \in Hosts /\ r.path \in Paths /\ r.host \in Host /\ r.path \in Path
             /\ r.enabled \in BOOLEAN /\ r.internal \in BOOLEAN /\ r.protected \in BOOLEAN
             /\ r.disabled \in BOOLEAN /\ r.https \in BOOLEAN
             /\ r.protocol \in {"", "http", "https"} /\ r.port \in Nat
             /\ r.headers = {} /\ r.blocked = {} /\ r.allowed = {} /\ r.methods = {}
             /\ r.paths = {}
  <2>1. c.managementHost \in Host
    BY <1>2, TypeAssumption DEF Setting
  <2>2. c.managementHost \in Hosts
    BY <1>2 DEF Hosts
  <2>3. <<>> \in Path /\ <<>> \in Paths
    BY DEF Path, Paths
  <2> HIDE DEF Hosts, Host, Path, Paths
  <2> QED BY <1>2, <2>1, <2>2, <2>3 DEF ManagementRoute
<1> QED BY <1>1, <1>2 DEF Listed

(* Less is a strict weak order.                                            *)
LEMMA LessOrders ==
  ASSUME NEW r \in Listed, NEW s \in Listed, NEW t \in Listed
  PROVE  /\ ~Less(r, r)
         /\ Less(r, s) => ~Less(s, r)
         /\ Less(r, s) /\ Less(s, t) => Less(r, t)
         /\ ~Less(r, s) /\ ~Less(s, t) => ~Less(r, t)
<1>1. /\ r.host \in Hosts /\ s.host \in Hosts /\ t.host \in Hosts
      /\ r.path \in Paths /\ s.path \in Paths /\ t.path \in Paths
  BY ListedFields
<1>2. /\ \A g, h \in Hosts : HostRank[g] \in Int /\ (HostRank[g] = HostRank[h] => g = h)
      /\ \A p \in Paths : PathLength[p] \in Nat
  BY OrderAssumption
<1> HIDE DEF Hosts
<1>3. Wildcard(r.host) \in BOOLEAN /\ Wildcard(s.host) \in BOOLEAN
      /\ Wildcard(t.host) \in BOOLEAN
  BY DEF Wildcard
<1> QED BY <1>1, <1>2, <1>3 DEF Less

(* A sorted list is the list in another order, in which nothing is less    *)
(* than what is in front of it.                                            *)
LEMMA StableSorted ==
  ASSUME NEW list \in Seq(Listed)
  PROVE  /\ StableSort(list) \in Seq(Listed)
         /\ ToSet(StableSort(list)) = ToSet(list)
         /\ \A i, j \in DOMAIN StableSort(list) :
              i < j => ~Less(StableSort(list)[j], StableSort(list)[i])
<1> DEFINE n == Len(list)
           before(i, j) == Less(list[i], list[j]) \/ (~Less(list[j], list[i]) /\ i < j)
           B == {p \in (1..n) \X (1..n) : before(p[1], p[2])}
           place == PlaceIn(B, n)
           order == [k \in DOMAIN list |-> CHOOSE i \in DOMAIN list :
                       Cardinality({j \in DOMAIN list : before(j, i)}) + 1 = k]
<1>1. n \in Nat /\ DOMAIN list = 1..n /\ \A i \in 1..n : list[i] \in Listed
  BY LenProperties
<1>2. \A i, j \in 1..n : <<i, j>> \in B <=> before(i, j)
  OBVIOUS
<1>3. Orders(B, n)
  <2> HIDE DEF B, n
  <2>1. \A i \in 1..n : ~before(i, i)
    BY <1>1, LessOrders
  <2>2. \A i, j \in 1..n : i # j => before(i, j) \/ before(j, i)
    BY <1>1, LessOrders
  <2>3. ASSUME NEW i \in 1..n, NEW j \in 1..n, NEW k \in 1..n,
               before(i, j), before(j, k)
        PROVE  before(i, k)
    <3>1. list[i] \in Listed /\ list[j] \in Listed /\ list[k] \in Listed
      BY <1>1
    <3>2. /\ Less(list[i], list[j]) => ~Less(list[j], list[i])
          /\ Less(list[j], list[k]) => ~Less(list[k], list[j])
          /\ ~Less(list[k], list[j]) /\ ~Less(list[j], list[i]) => ~Less(list[k], list[i])
      BY <3>1, LessOrders
    <3>3. /\ Less(list[i], list[j]) /\ ~Less(list[k], list[j]) => Less(list[i], list[k])
          /\ ~Less(list[j], list[i]) /\ Less(list[j], list[k]) => Less(list[i], list[k])
      BY <3>1, LessOrders
    <3>4. i < j /\ j < k => i < k
      BY <1>1
    <3> QED BY <2>3, <3>2, <3>3, <3>4
  <2> HIDE DEF before
  <2> QED BY <1>2, <2>1, <2>2, <2>3 DEF Orders
<1>4. /\ place \in [1..n -> 1..n]
      /\ \A i, j \in 1..n : <<i, j>> \in B => place[i] < place[j]
      /\ \A k \in 1..n : \E i \in 1..n : place[i] = k
  <2> HIDE DEF B, n
  <2> QED BY <1>1, <1>3, Places
<1>5. ASSUME NEW i \in 1..n
      PROVE  place[i] = Cardinality({j \in DOMAIN list : before(j, i)}) + 1
  <2>1. {j \in 1..n : <<j, i>> \in B} = {j \in DOMAIN list : before(j, i)}
    <3> HIDE DEF B, before, n
    <3> QED BY <1>1, <1>2
  <2> HIDE DEF B, before
  <2> QED BY <2>1 DEF PlaceIn
<1>6. /\ order \in [1..n -> 1..n] /\ \A k \in 1..n : place[order[k]] = k
      /\ \A i \in 1..n : order[place[i]] = i
  <2> HIDE DEF place, n, before
  <2>1. ASSUME NEW k \in 1..n
        PROVE  order[k] \in 1..n /\ place[order[k]] = k
    <3>1. \E i \in DOMAIN list : Cardinality({j \in DOMAIN list : before(j, i)}) + 1 = k
      <4>1. PICK i \in 1..n : place[i] = k
        BY <1>4
      <4>2. place[i] = Cardinality({j \in DOMAIN list : before(j, i)}) + 1
        BY <1>5
      <4>3. i \in DOMAIN list
        BY <1>1
      <4>4. Cardinality({j \in DOMAIN list : before(j, i)}) + 1 = k
        BY <4>1, <4>2
      <4> QED BY <4>3, <4>4, Zenon
    <3>2. /\ order[k] \in DOMAIN list
          /\ Cardinality({j \in DOMAIN list : before(j, order[k])}) + 1 = k
      BY <1>1, <3>1
    <3> HIDE DEF order
    <3> QED BY <1>1, <1>5, <3>2
  <2>2. order \in [1..n -> 1..n]
    <3>1. \A k \in DOMAIN list : order[k] \in DOMAIN list
      <4> HIDE DEF order
      <4> QED BY <1>1, <2>1
    <3>2. order \in [DOMAIN list -> DOMAIN list]
      BY <3>1, Zenon
    <3> HIDE DEF order
    <3> QED BY <1>1, <3>2
  <2> HIDE DEF order
  <2>3. ASSUME NEW i \in 1..n
        PROVE  order[place[i]] = i
    <3> DEFINE o == order[place[i]]
    <3>1. place[i] \in 1..n
      BY <1>4
    <3>2. o \in 1..n /\ place[o] = place[i]
      BY <2>1, <3>1
    <3> HIDE DEF o, B
    <3>3. CASE o # i
      <4>1. place[o] < place[i] \/ place[i] < place[o]
        BY <1>3, <1>4, <3>2, <3>3 DEF Orders
      <4> QED BY <1>1, <3>1, <3>2, <4>1
    <3> QED BY <3>3 DEF o
  <2> QED BY <2>1, <2>2, <2>3
<1>10. StableSort(list) = [k \in 1..n |-> list[order[k]]]
  <2>1. StableSort(list) = [k \in DOMAIN list |-> list[CHOOSE i \in DOMAIN list :
                       Cardinality({j \in DOMAIN list : before(j, i)}) + 1 = k]]
    BY Zenon DEF StableSort
  <2> HIDE DEF n, before
  <2> QED BY <1>1, <2>1
<1> HIDE DEF order, place, B, n
<1>7. StableSort(list) \in Seq(Listed) /\ DOMAIN StableSort(list) = 1..n
  BY <1>1, <1>6, <1>10
<1>8. ToSet(StableSort(list)) = ToSet(list)
  <2>1. \A k \in 1..n : StableSort(list)[k] = list[order[k]]
    BY <1>10
  <2>2. \A i \in 1..n : place[i] \in 1..n /\ list[i] = list[order[place[i]]]
    BY <1>4, <1>6
  <2> QED BY <1>1, <1>6, <1>7, <2>1, <2>2 DEF ToSet
<1>9. ASSUME NEW i \in 1..n, NEW j \in 1..n, i < j
      PROVE  ~Less(list[order[j]], list[order[i]])
  <2>1. order[i] \in 1..n /\ order[j] \in 1..n
    BY <1>6
  <2>2. ~(<<order[j], order[i]>> \in B)
    BY <1>1, <1>4, <1>6, <1>9, <2>1
  <2> QED BY <1>2, <2>1, <2>2
<1> QED BY <1>10, <1>7, <1>8, <1>9

----------------------------------------------------------------------------
(* The first element of a sequence that is in a set.                       *)

Misses(s, M) == \A i \in DOMAIN s : s[i] \notin M

FirstIn(s, e, M) ==
  \E i \in DOMAIN s : /\ s[i] = e /\ e \in M
                      /\ \A j \in DOMAIN s : j < i => s[j] \notin M

LEMMA ConcatMisses ==
  ASSUME NEW S, NEW M, NEW s \in Seq(S), NEW t \in Seq(S)
  PROVE  Misses(s \o t, M) <=> Misses(s, M) /\ Misses(t, M)
<1> DEFINE u == s \o t
<1>1. /\ Len(s) \in Nat /\ Len(t) \in Nat /\ DOMAIN s = 1..Len(s) /\ DOMAIN t = 1..Len(t)
      /\ DOMAIN u = 1..(Len(s) + Len(t))
      /\ \A i \in 1..(Len(s) + Len(t)) : u[i] = IF i <= Len(s) THEN s[i] ELSE t[i - Len(s)]
  BY LenProperties, ConcatProperties
<1> HIDE DEF u
<1>2. ASSUME Misses(u, M)
      PROVE  Misses(s, M) /\ Misses(t, M)
  <2>1. ASSUME NEW i \in DOMAIN s PROVE s[i] \notin M
    <3>1. i \in DOMAIN u /\ u[i] = s[i]
      BY <1>1
    <3> QED BY <1>2, <3>1 DEF Misses
  <2>2. ASSUME NEW i \in DOMAIN t PROVE t[i] \notin M
    <3>1. i + Len(s) \in DOMAIN u /\ u[i + Len(s)] = t[i]
      BY <1>1
    <3> QED BY <1>2, <3>1 DEF Misses
  <2> QED BY <2>1, <2>2 DEF Misses
<1>3. ASSUME Misses(s, M), Misses(t, M)
      PROVE  Misses(u, M)
  BY <1>1, <1>3 DEF Misses
<1> QED BY <1>2, <1>3 DEF u

LEMMA ConcatFirst ==
  ASSUME NEW S, NEW M, NEW s \in Seq(S), NEW t \in Seq(S), NEW e,
         FirstIn(s \o t, e, M)
  PROVE  FirstIn(s, e, M) \/ (Misses(s, M) /\ FirstIn(t, e, M))
<1> DEFINE u == s \o t
<1>1. /\ Len(s) \in Nat /\ Len(t) \in Nat /\ DOMAIN s = 1..Len(s) /\ DOMAIN t = 1..Len(t)
      /\ DOMAIN u = 1..(Len(s) + Len(t))
      /\ \A i \in 1..(Len(s) + Len(t)) : u[i] = IF i <= Len(s) THEN s[i] ELSE t[i - Len(s)]
  BY LenProperties, ConcatProperties
<1> HIDE DEF u
<1>2. PICK i \in DOMAIN u : /\ u[i] = e /\ e \in M
                            /\ \A j \in DOMAIN u : j < i => u[j] \notin M
  BY DEF FirstIn, u
<1>3. CASE i <= Len(s)
  <2>1. i \in DOMAIN s /\ s[i] = e
    BY <1>1, <1>2, <1>3
  <2>2. \A j \in DOMAIN s : j < i => s[j] \notin M
    BY <1>1, <1>2
  <2> QED BY <1>2, <2>1, <2>2 DEF FirstIn
<1>4. CASE i > Len(s)
  <2>1. i - Len(s) \in DOMAIN t /\ t[i - Len(s)] = e
    BY <1>1, <1>2, <1>4
  <2>2. ASSUME NEW j \in DOMAIN t, j < i - Len(s)
        PROVE  t[j] \notin M
    <3>1. j + Len(s) \in DOMAIN u /\ j + Len(s) < i /\ u[j + Len(s)] = t[j]
      BY <1>1, <2>2
    <3> QED BY <1>2, <3>1
  <2>3. Misses(s, M)
    BY <1>1, <1>2, <1>4 DEF Misses
  <2>4. FirstIn(t, e, M)
    BY <1>2, <2>1, <2>2 DEF FirstIn
  <2> QED BY <2>3, <2>4
<1>5. i \in Int /\ Len(s) \in Int
  BY <1>1
<1> QED BY <1>3, <1>4, <1>5

(* The entries of one sequence after the other.                            *)
Flattens(g, seqs, S) ==
  /\ g \in [0..Len(seqs) -> Seq(S)] /\ g[0] = <<>>
  /\ \A n \in 1..Len(seqs) : g[n] = g[n - 1] \o seqs[n]
  /\ FlattenSeq(seqs) = g[Len(seqs)]

LEMMA FlattenUnfolds ==
  ASSUME NEW S, NEW seqs \in Seq(Seq(S))
  PROVE  \E g : Flattens(g, seqs, S)
<1> DEFINE L == Len(seqs)
           body(f) == [i \in 1..L |-> IF i = 1 THEN seqs[i] ELSE f[i - 1] \o seqs[i]]
           flatten == CHOOSE f : f = body(f)
           step == [n \in 1..L |-> [s \in Seq(S) |-> s \o seqs[n]]]
<1>1. L \in Nat /\ \A n \in 1..L : seqs[n] \in Seq(S)
  BY LenProperties
<1>2. step \in [1..L -> [Seq(S) -> Seq(S)]]
  <2>1. ASSUME NEW n \in 1..L, NEW s \in Seq(S) PROVE s \o seqs[n] \in Seq(S)
    BY <1>1, ConcatProperties
  <2> QED BY <2>1
<1>3. PICK g : Follows(g, L, Seq(S), <<>>, step)
  <2>1. <<>> \in Seq(S)
    BY EmptySeq
  <2> HIDE DEF step
  <2> QED BY <1>1, <1>2, <2>1, RecursionUpTo
<1>4. g \in [0..L -> Seq(S)] /\ g[0] = <<>> /\ \A n \in 1..L : g[n] = g[n - 1] \o seqs[n]
  <2>1. /\ g \in [0..L -> Seq(S)] /\ g[0] = <<>>
        /\ \A n \in 1..L : g[n] = step[n][g[n - 1]]
    <3> HIDE DEF step, L
    <3> QED BY <1>3 DEF Follows
  <2>2. ASSUME NEW n \in 1..L
        PROVE  g[n] = g[n - 1] \o seqs[n]
    <3>1. g[n - 1] \in Seq(S)
      <4>1. n - 1 \in 0..L
        BY <1>1
      <4> HIDE DEF L, step
      <4> QED BY <2>1, <4>1
    <3>2. step[n] = [s \in Seq(S) |-> s \o seqs[n]]
      OBVIOUS
    <3> HIDE DEF step, L
    <3>3. g[n] = step[n][g[n - 1]]
      BY <2>1
    <3>4. step[n][g[n - 1]] = g[n - 1] \o seqs[n]
      BY <3>1, <3>2
    <3> QED BY <3>3, <3>4
  <2> QED BY <2>1, <2>2
<1>5. CASE L = 0
  <2>1. FlattenSeq(seqs) = seqs
    BY <1>5 DEF FlattenSeq
  <2>2. seqs = <<>>
    BY <1>5, EmptySeq
  <2> QED BY <1>4, <1>5, <2>1, <2>2 DEF Flattens
<1>6. CASE L # 0
  <2> DEFINE h == [i \in 1..L |-> g[i]]
  <2>1. h = body(h)
    <3>1. ASSUME NEW i \in 1..L
          PROVE  h[i] = IF i = 1 THEN seqs[i] ELSE h[i - 1] \o seqs[i]
      <4>1. h[i] = g[i - 1] \o seqs[i]
        BY <1>4
      <4>2. CASE i = 1
        <5>1. g[i - 1] = <<>> /\ seqs[i] \in Seq(S)
          BY <1>1, <1>4, <4>2
        <5>2. <<>> \o seqs[i] = seqs[i]
          BY <5>1, ConcatEmptySeq
        <5> QED BY <4>1, <4>2, <5>1, <5>2
      <4>3. CASE i # 1
        <5>1. i - 1 \in 1..L
          BY <1>1, <4>3
        <5>2. h[i - 1] = g[i - 1]
          BY <5>1
        <5> QED BY <4>1, <4>3, <5>2
      <4> QED BY <4>2, <4>3
    <3>2. h = [i \in 1..L |-> h[i]]
      OBVIOUS
    <3> HIDE DEF h, L
    <3> QED BY <3>1, <3>2
  <2>2. flatten = body(flatten)
    <3> HIDE DEF body, h
    <3> QED BY <2>1
  <2>3. FlattenSeq(seqs) = flatten[L]
    BY <1>6 DEF FlattenSeq
  <2> DEFINE P == {n \in Nat : n + 1 <= L => flatten[n + 1] = g[n + 1]}
  <2> HIDE DEF flatten, h
  <2>4. 0 \in P
    <3>1. 1 \in 1..L /\ flatten[1] = seqs[1]
      BY <1>1, <1>6, <2>2
    <3>2. g[1] = g[0] \o seqs[1] /\ g[0] = <<>> /\ seqs[1] \in Seq(S)
      <4>1. 1 - 1 = 0
        OBVIOUS
      <4> QED BY <1>1, <1>4, <3>1, <4>1
    <3>3. g[1] = seqs[1]
      BY <3>2, ConcatEmptySeq
    <3> QED BY <3>1, <3>3
  <2>5. \A n \in Nat : n \in P => n + 1 \in P
    <3> SUFFICES ASSUME NEW n \in Nat, n \in P, n + 2 <= L
                 PROVE  flatten[n + 2] = g[n + 2]
      OBVIOUS
    <3>1. /\ n + 2 \in 1..L /\ (n + 2) - 1 = n + 1 /\ n + 2 # 1
          /\ flatten[n + 1] = g[n + 1]
      BY <1>1
    <3>2. flatten[n + 2] = flatten[n + 1] \o seqs[n + 2]
      <4> HIDE DEF P, L
      <4> QED BY <2>2, <3>1
    <3> HIDE DEF P, L
    <3> QED BY <1>4, <3>1, <3>2
  <2>6. flatten[L] = g[L]
    <3>1. Nat \subseteq P
      <4> HIDE DEF P
      <4> QED BY <2>4, <2>5, SetInduction
    <3>2. L - 1 \in Nat /\ (L - 1) + 1 = L
      BY <1>1, <1>6
    <3>3. L - 1 \in P
      BY <3>1, <3>2
    <3> HIDE DEF L
    <3>4. (L - 1) + 1 <= L => flatten[(L - 1) + 1] = g[(L - 1) + 1]
      BY <3>3
    <3> QED BY <1>1, <3>2, <3>4
  <2> QED BY <1>4, <2>3, <2>6 DEF Flattens
<1> QED BY <1>5, <1>6

LEMMA FlattenMisses ==
  ASSUME NEW S, NEW seqs \in Seq(Seq(S)), NEW M
  PROVE  /\ FlattenSeq(seqs) \in Seq(S)
         /\ Misses(FlattenSeq(seqs), M) => \A i \in DOMAIN seqs : Misses(seqs[i], M)
         /\ \A e : FirstIn(FlattenSeq(seqs), e, M) =>
              \E i \in DOMAIN seqs : /\ FirstIn(seqs[i], e, M)
                                     /\ \A j \in DOMAIN seqs : j < i => Misses(seqs[j], M)
<1> DEFINE L == Len(seqs)
<1>1. L \in Nat /\ DOMAIN seqs = 1..L /\ \A n \in 1..L : seqs[n] \in Seq(S)
  BY LenProperties
<1>2. PICK g : Flattens(g, seqs, S)
  BY FlattenUnfolds
<1>3. /\ g \in [0..L -> Seq(S)] /\ g[0] = <<>> /\ FlattenSeq(seqs) = g[L]
      /\ \A n \in 1..L : g[n] = g[n - 1] \o seqs[n]
  BY <1>2 DEF Flattens
<1> HIDE DEF L
<1> DEFINE missed(n) == \A i \in 1..n : Misses(seqs[i], M)
           first(n, e) == \E i \in 1..n : /\ FirstIn(seqs[i], e, M)
                                          /\ \A j \in 1..n : j < i => Misses(seqs[j], M)
           P == {n \in Nat : n <= L =>
                   /\ Misses(g[n], M) <=> missed(n)
                   /\ \A e : FirstIn(g[n], e, M) => first(n, e)}
<1>4. 0 \in P
  <2>1. Misses(<<>>, M) /\ \A e : ~FirstIn(<<>>, e, M)
    BY DEF Misses, FirstIn
  <2>2. missed(0)
    OBVIOUS
  <2> HIDE DEF missed, first
  <2> QED BY <1>3, <2>1, <2>2
<1>5. \A n \in Nat : n \in P => n + 1 \in P
  <2> HIDE DEF missed, first
  <2> SUFFICES ASSUME NEW n \in Nat, n \in P, n + 1 <= L
               PROVE  /\ Misses(g[n + 1], M) <=> missed(n + 1)
                      /\ \A e : FirstIn(g[n + 1], e, M) => first(n + 1, e)
    OBVIOUS
  <2>1. /\ Misses(g[n], M) <=> missed(n)
        /\ \A e : FirstIn(g[n], e, M) => first(n, e)
    <3>1. n <= L
      BY <1>1
    <3> HIDE DEF missed, first
    <3> QED BY <3>1
  <2> HIDE DEF P
  <2> USE DEF missed, first
  <2>2. /\ n \in 0..L /\ n + 1 \in 1..L /\ (n + 1) - 1 = n
        /\ g[n + 1] = g[n] \o seqs[n + 1] /\ g[n] \in Seq(S) /\ seqs[n + 1] \in Seq(S)
    <3>1. n \in 0..L /\ n + 1 \in 1..L /\ (n + 1) - 1 = n
      BY <1>1
    <3> QED BY <1>1, <1>3, <3>1
  <2>3. missed(n + 1) <=> missed(n) /\ Misses(seqs[n + 1], M)
    <3>1. 1..(n + 1) = 1..n \cup {n + 1}
      OBVIOUS
    <3> QED BY <3>1
  <2>4. Misses(g[n + 1], M) <=> missed(n + 1)
    <3>1. Misses(g[n] \o seqs[n + 1], M) <=> Misses(g[n], M) /\ Misses(seqs[n + 1], M)
      BY <2>2, ConcatMisses
    <3> HIDE DEF missed
    <3> QED BY <2>1, <2>2, <2>3, <3>1
  <2>5. ASSUME NEW e, FirstIn(g[n + 1], e, M)
        PROVE  first(n + 1, e)
    <3>1. FirstIn(g[n], e, M) \/ (Misses(g[n], M) /\ FirstIn(seqs[n + 1], e, M))
      <4>1. FirstIn(g[n] \o seqs[n + 1], e, M)
        BY <2>2, <2>5
      <4> QED BY <2>2, <4>1, ConcatFirst
    <3>2. CASE FirstIn(g[n], e, M)
      <4>1. PICK i \in 1..n : /\ FirstIn(seqs[i], e, M)
                              /\ \A j \in 1..n : j < i => Misses(seqs[j], M)
        BY <2>1, <3>2
      <4>2. i \in 1..(n + 1) /\ \A j \in 1..(n + 1) : j < i => j \in 1..n
        OBVIOUS
      <4> QED BY <4>1, <4>2
    <3>3. CASE Misses(g[n], M) /\ FirstIn(seqs[n + 1], e, M)
      <4>1. n + 1 \in 1..(n + 1) /\ \A j \in 1..(n + 1) : j < n + 1 => j \in 1..n
        OBVIOUS
      <4> QED BY <2>1, <3>3, <4>1
    <3> QED BY <3>1, <3>2, <3>3
  <2> HIDE DEF missed, first
  <2> QED BY <2>4, <2>5
<1>6. L \in P
  <2> HIDE DEF P
  <2>1. Nat \subseteq P
    BY <1>4, <1>5, SetInduction
  <2> QED BY <1>1, <2>1
<1>7. FlattenSeq(seqs) \in Seq(S)
  BY <1>1, <1>3
<1>8. (Misses(g[L], M) <=> missed(L)) /\ \A e : FirstIn(g[L], e, M) => first(L, e)
  <2> HIDE DEF missed, first
  <2> QED BY <1>1, <1>6
<1> QED BY <1>1, <1>3, <1>7, <1>8

----------------------------------------------------------------------------
(* Hosts and paths.                                                        *)

LEMMA PrefixIs ==
  ASSUME NEW s \in Path, NEW t \in Path
  PROVE  IsPrefix(s, t) <=> Len(s) <= Len(t) /\ \A i \in 1..Len(s) : s[i] = t[i]
<1>1. Len(s) \in Nat /\ Len(t) \in Nat
  BY LenProperties DEF Path
<1>2. ASSUME Len(s) <= Len(t)
      PROVE  /\ SubSeq(s, 1, Len(s)) = [i \in 1..Len(s) |-> s[i]]
             /\ SubSeq(t, 1, Len(s)) = [i \in 1..Len(s) |-> t[i]]
  BY <1>1, <1>2 DEF Path
<1> QED BY <1>1, <1>2 DEF IsPrefix

LEMMA PrefixesComparable ==
  ASSUME NEW s \in Path, NEW t \in Path, NEW u \in Path,
         IsPrefix(s, u), IsPrefix(t, u), Len(s) <= Len(t)
  PROVE  IsPrefix(s, t)
<1>1. Len(s) \in Nat /\ Len(t) \in Nat /\ Len(u) \in Nat
  BY LenProperties DEF Path
<1>2. \A i \in 1..Len(s) : s[i] = u[i]
  BY PrefixIs
<1>3. \A i \in 1..Len(t) : t[i] = u[i]
  BY PrefixIs
<1>4. \A i \in 1..Len(s) : s[i] = t[i]
  BY <1>1, <1>2, <1>3
<1> QED BY <1>4, PrefixIs

(* Hosts that match one host are equal if both or none has a wildcard.     *)
LEMMA HostsEqual ==
  ASSUME NEW g \in Host, NEW h \in Host, NEW host \in Host,
         HostMatches(g, host), HostMatches(h, host), Wildcard(g) = Wildcard(h)
  PROVE  g = h
<1>1. /\ g \in Seq(STRING) /\ h \in Seq(STRING) /\ host \in Seq(STRING)
      /\ g # <<>> /\ h # <<>> /\ host # <<>>
  BY DEF Host
<1>2. Wildcard(g) \in BOOLEAN /\ Wildcard(h) \in BOOLEAN
  BY DEF Wildcard
<1>3. CASE ~Wildcard(g)
  BY <1>3 DEF HostMatches
<1>4. CASE Wildcard(g)
  <2>1. /\ Wildcard(h) /\ Len(g) = Len(h) /\ Tail(g) = Tail(h)
        /\ Head(g) = Head(h)
    BY <1>2, <1>4 DEF HostMatches, Wildcard
  <2>2. Len(g) \in Nat /\ Len(g) # 0 /\ Len(Tail(g)) = Len(g) - 1
    BY <1>1, LenProperties, EmptySeq, HeadTailProperties
  <2>3. ASSUME NEW i \in 1..Len(g)
        PROVE  g[i] = h[i]
    <3>1. CASE i = 1
      <4>1. Head(g) = g[1] /\ Head(h) = h[1]
        BY <1>1
      <4> QED BY <2>1, <3>1, <4>1
    <3>2. CASE i # 1
      <4>1. i - 1 \in 1..Len(Tail(g)) /\ (i - 1) + 1 = i
        BY <2>2, <3>2
      <4>2. Tail(g)[i - 1] = g[i] /\ Tail(h)[i - 1] = h[i]
        BY <1>1, <2>1, <4>1, HeadTailProperties
      <4> QED BY <2>1, <4>2
    <3> QED BY <3>1, <3>2
  <2> QED BY <1>1, <2>1, <2>3, SeqEqual
<1> QED BY <1>3, <1>4

----------------------------------------------------------------------------
(* The entries of a route.                                                 *)

Names == STRING \cup {"Authorization", "X-Admin-Token", "X-Custom", "custom"}
Headers == [name : Names, value : Names]

Match == [host : Host, paths : SUBSET Path, port : Nat, protocol : {"", "http", "https"},
          sources : SUBSET Sources, methods : SUBSET Methods, headers : SUBSET Headers]

Entries == [match : Match, kind : {"proxy", "status", "redirect"}, route : Listed,
            status : Nat, strip : SUBSET Names, set : SUBSET Headers, port : Nat]

Hits(l, q) == {e \in Entries : EntryMatches(e.match, l, q)}

LEMMA SettingFields ==
  ASSUME NEW c \in Setting
  PROVE  /\ c.httpListen \in ListenAddress /\ c.httpsListen \in ListenAddress
         /\ c.managementHost \in Host \cup {<<>>} /\ c.tokens \in SUBSET STRING
         /\ c.allowBearer \in BOOLEAN /\ c.allowAdminHeader \in BOOLEAN
         /\ c.customHeader \in BOOLEAN /\ c.securityEnabled \in BOOLEAN
         /\ c.internalSources \in SUBSET Sources /\ c.blocked \in SUBSET Sources
         /\ c.allowed \in SUBSET Sources /\ c.methods \in SUBSET Methods
         /\ c.paths \in SUBSET Path
BY DEF Setting

LEMMA MatchType ==
  ASSUME NEW h \in Host, NEW paths \in SUBSET Path, NEW port \in Nat,
         NEW protocol \in {"", "http", "https"}, NEW sources \in SUBSET Sources,
         NEW methods \in SUBSET Methods, NEW headers \in SUBSET Headers
  PROVE  [host |-> h, paths |-> paths, port |-> port, protocol |-> protocol,
          sources |-> sources, methods |-> methods, headers |-> headers] \in Match
<1> HIDE DEF Host, Path, Headers
<1> QED BY DEF Match

LEMMA RouteMatchType ==
  ASSUME NEW r \in Listed
  PROVE  routeMatch(r) \in Match
<1> HIDE DEF Path, Host, Listed
<1> QED BY ListedFields DEF routeMatch, Match

LEMMA EntryType ==
  ASSUME NEW m \in Match, NEW kind \in {"proxy", "status", "redirect"}, NEW r \in Listed, NEW status \in Nat
  PROVE  /\ Entry(m, kind, r, status) \in Entries
         /\ Entry(m, kind, r, status).match = m /\ Entry(m, kind, r, status).kind = kind
         /\ Entry(m, kind, r, status).route = r
<1> QED BY DEF Entry, Entries

LEMMA OneEntry ==
  ASSUME NEW e \in Entries
  PROVE  /\ <<e>> \in Seq(Entries) /\ DOMAIN <<e>> = {1} /\ <<e>>[1] = e
         /\ \A M : Misses(<<e>>, M) <=> e \notin M
         /\ \A M, x : FirstIn(<<e>>, x, M) => x = e /\ e \in M
<1> HIDE DEF Entries
<1>1. <<e>> \in Seq(Entries) /\ DOMAIN <<e>> = {1} /\ <<e>>[1] = e
  <2>1. DOMAIN <<e>> = 1..1 /\ 1..1 = {1}
    OBVIOUS
  <2> QED BY <2>1
<1> QED BY <1>1 DEF Misses, FirstIn

LEMMA PoliciesType ==
  ASSUME NEW c \in Setting
  PROVE  protectedHeaderPolicies(c) \in SUBSET Headers
<1>1. c.tokens \in SUBSET Names
  BY SettingFields DEF Names
<1> DEFINE tokens(name) == {[name |-> name, value |-> t] : t \in authTokens(c)}
<1>2. ASSUME NEW name \in Names
      PROVE  tokens(name) \in SUBSET Headers
  BY <1>1 DEF authTokens, Headers
<1>3. ASSUME NEW name \in Names, NEW value \in Names
      PROVE  {[name |-> name, value |-> value]} \in SUBSET Headers
  BY DEF Headers
<1>4. {[name |-> "X-Custom", value |-> "custom"]} \in SUBSET Headers
  <2>1. "X-Custom" \in Names /\ "custom" \in Names
    BY DEF Names
  <2> HIDE DEF Headers
  <2> QED BY <1>3, <2>1, Zenon
<1> HIDE DEF tokens
<1>5. tokens("Authorization") \in SUBSET Headers /\ tokens("X-Admin-Token") \in SUBSET Headers
  <2>1. "Authorization" \in Names /\ "X-Admin-Token" \in Names
    BY DEF Names
  <2> QED BY <1>2, <2>1, Zenon
<1>6. protectedHeaderPolicies(c) \subseteq
        tokens("Authorization") \cup tokens("X-Admin-Token")
          \cup {[name |-> "X-Custom", value |-> "custom"]}
  BY Zenon DEF protectedHeaderPolicies, tokens
<1> QED BY <1>5, <1>4, <1>6, Zenon

(* A rejection: one entry for some values of a field, or none.             *)
Reject(r, m, values, status) ==
  IF values = {} THEN <<>> ELSE <<Entry(m, "status", r, status)>>

BySource(r, values) == [routeMatch(r) EXCEPT !["sources"] = values]
ByMethod(r, values) == [routeMatch(r) EXCEPT !["methods"] = values]
ByPath(r, values) == [routeMatch(r) EXCEPT !["paths"] = values]

LEMMA ByType ==
  ASSUME NEW r \in Listed
  PROVE  /\ \A v \in SUBSET Sources :
              /\ BySource(r, v) \in Match /\ BySource(r, v).host = r.host
              /\ BySource(r, v).paths = {r.path} /\ BySource(r, v).port = r.port
              /\ BySource(r, v).protocol = r.protocol /\ BySource(r, v).sources = v
              /\ BySource(r, v).methods = Methods /\ BySource(r, v).headers = {}
         /\ \A v \in SUBSET Methods :
              /\ ByMethod(r, v) \in Match /\ ByMethod(r, v).host = r.host
              /\ ByMethod(r, v).paths = {r.path} /\ ByMethod(r, v).port = r.port
              /\ ByMethod(r, v).protocol = r.protocol /\ ByMethod(r, v).sources = Sources
              /\ ByMethod(r, v).methods = v /\ ByMethod(r, v).headers = {}
         /\ \A v \in SUBSET Path :
              /\ ByPath(r, v) \in Match /\ ByPath(r, v).host = r.host
              /\ ByPath(r, v).paths = v /\ ByPath(r, v).port = r.port
              /\ ByPath(r, v).protocol = r.protocol /\ ByPath(r, v).sources = Sources
              /\ ByPath(r, v).methods = Methods /\ ByPath(r, v).headers = {}
<1> HIDE DEF Path, Host, Listed
<1>1. routeMatch(r) \in Match
  BY RouteMatchType
<1>2. /\ r.host \in Host /\ r.path \in Path /\ r.port \in Nat
      /\ r.protocol \in {"", "http", "https"}
  BY ListedFields
<1> QED BY <1>2 DEF routeMatch, Match, BySource, ByMethod, ByPath

LEMMA Rejecting ==
  ASSUME NEW r \in Listed, NEW m \in Match, NEW values, NEW status \in Nat
  PROVE  /\ Reject(r, m, values, status) \in Seq(Entries)
         /\ \A e, M : FirstIn(Reject(r, m, values, status), e, M) =>
                        e.kind = "status" /\ e.route = r
         /\ \A l, q : Misses(Reject(r, m, values, status), Hits(l, q)) =>
                        values = {} \/ ~EntryMatches(m, l, q)
<1>1. CASE values = {}
  <2>1. Reject(r, m, values, status) = <<>>
    BY <1>1 DEF Reject
  <2>2. \A e, M : ~FirstIn(<<>>, e, M)
    BY DEF FirstIn
  <2> QED BY <1>1, <2>1, <2>2, EmptySeq
<1>2. CASE values # {}
  <2> DEFINE x == Entry(m, "status", r, status)
  <2>1. Reject(r, m, values, status) = <<x>>
    BY <1>2 DEF Reject
  <2>2. x \in Entries /\ x.match = m /\ x.kind = "status" /\ x.route = r
    BY EntryType
  <2> HIDE DEF x
  <2>3. /\ <<x>> \in Seq(Entries) /\ \A M : Misses(<<x>>, M) <=> x \notin M
        /\ \A M, e : FirstIn(<<x>>, e, M) => e = x /\ x \in M
    BY <2>2, OneEntry
  <2>4. ASSUME NEW l, NEW q, x \notin Hits(l, q)
        PROVE  ~EntryMatches(m, l, q)
    BY <2>2, <2>4 DEF Hits
  <2> QED BY <2>1, <2>2, <2>3, <2>4
<1> QED BY <1>1, <1>2

(* The request is one the route is for, on its listener.                   *)
Suits(r, l, q) ==
  /\ q.host \in Host /\ q.path \in Path
  /\ HostMatches(r.host, q.host) /\ IsPrefix(r.path, q.path)
  /\ r.port \in {0, l.address.port} /\ r.protocol \in {"", l.protocol}
  /\ q.source \in Sources /\ q.method \in Methods

(* What the security policy asks of a request.                             *)
Permitted(r, c, q) ==
  /\ q.source \notin c.blocked \cup r.blocked
  /\ \A allowed \in {c.allowed, r.allowed} \ {{}} : q.source \in allowed
  /\ q.method \notin c.methods \cup r.methods
  /\ ~\E p \in c.paths \cup r.paths : IsPrefix(p, q.path)

(* The prefix two prefixes of a path have in common is one of that path.   *)
LEMMA IntersectionPrefix ==
  ASSUME NEW s \in Path, NEW t \in Path, NEW u \in Path,
         IsPrefix(s, u), IsPrefix(t, u)
  PROVE  \E p \in intersectPathPrefixes(s, t) : IsPrefix(p, u)
<1>1. Len(s) \in Nat /\ Len(t) \in Nat
  BY LenProperties DEF Path
<1>2. CASE IsPrefix(t, s)
  <2>1. intersectPathPrefixes(s, t) = {s}
    <3>1. IsPrefix(s, t) => s = t
      BY <1>1, <1>2, PrefixIs, SeqEqual DEF Path
    <3> QED BY <1>2, <3>1 DEF intersectPathPrefixes
  <2> QED BY <2>1
<1>3. CASE ~IsPrefix(t, s)
  <2>1. IsPrefix(s, t)
    BY <1>1, <1>3, PrefixesComparable
  <2>2. intersectPathPrefixes(s, t) = {t}
    BY <1>3, <2>1 DEF intersectPathPrefixes
  <2> QED BY <2>2
<1> QED BY <1>2, <1>3

LEMMA SecurityEntries ==
  ASSUME NEW r \in Listed, NEW c \in Setting
  PROVE  /\ renderSecurityEntries(r, c) \in Seq(Entries)
         /\ \A e, M : FirstIn(renderSecurityEntries(r, c), e, M) =>
                        e.kind = "status" /\ e.route = r
         /\ \A l, q : /\ Suits(r, l, q) /\ c.securityEnabled /\ ~r.disabled
                      /\ Misses(renderSecurityEntries(r, c), Hits(l, q))
                      => Permitted(r, c, q)
<1> DEFINE outside(allowed) == IF allowed = {} THEN {} ELSE Sources \ allowed
           denied == UNION {intersectPathPrefixes(r.path, p) : p \in c.paths \cup r.paths}
           v1 == c.blocked \cup r.blocked
           v2 == outside(c.allowed)
           v3 == outside(r.allowed)
           v4 == c.methods \cup r.methods
           s1 == Reject(r, BySource(r, v1), v1, 403)
           s2 == Reject(r, BySource(r, v2), v2, 403)
           s3 == Reject(r, BySource(r, v3), v3, 403)
           s4 == Reject(r, ByMethod(r, v4), v4, 405)
           s5 == Reject(r, ByPath(r, denied), denied, 403)
           all == s1 \o s2 \o s3 \o s4 \o s5
<1>1. renderSecurityEntries(r, c) = IF ~c.securityEnabled \/ r.disabled THEN <<>> ELSE all
  BY Zenon DEF renderSecurityEntries, Reject, BySource, ByMethod, ByPath
<1>2. /\ v1 \in SUBSET Sources /\ v2 \in SUBSET Sources /\ v3 \in SUBSET Sources
      /\ v4 \in SUBSET Methods
  BY ListedFields, SettingFields
<1>3. denied \in SUBSET Path
  <2>1. ASSUME NEW p \in c.paths \cup r.paths
        PROVE  intersectPathPrefixes(r.path, p) \in SUBSET Path
    BY ListedFields, SettingFields DEF intersectPathPrefixes
  <2> QED BY <2>1
<1> HIDE DEF outside, denied, v1, v2, v3, v4
<1>4. /\ BySource(r, v1) \in Match /\ BySource(r, v2) \in Match /\ BySource(r, v3) \in Match
      /\ ByMethod(r, v4) \in Match /\ ByPath(r, denied) \in Match
  BY <1>2, <1>3, ByType
<1> DEFINE Fine(s) == s \in Seq(Entries) /\ \A e, M : FirstIn(s, e, M) =>
                                                       e.kind = "status" /\ e.route = r
<1>5. Fine(s1) /\ Fine(s2) /\ Fine(s3) /\ Fine(s4) /\ Fine(s5)
  BY <1>4, Rejecting
<1>6. ASSUME NEW s, NEW t, Fine(s), Fine(t)
      PROVE  Fine(s \o t) /\ \A M : Misses(s \o t, M) => Misses(s, M) /\ Misses(t, M)
  BY <1>6, ConcatProperties, ConcatMisses, ConcatFirst
<1> HIDE DEF Fine, s1, s2, s3, s4, s5
<1>7. Fine(all) /\ \A M : Misses(all, M) => /\ Misses(s1, M) /\ Misses(s2, M) /\ Misses(s3, M)
                                           /\ Misses(s4, M) /\ Misses(s5, M)
  <2>1. /\ Fine(s1 \o s2)
        /\ \A M : Misses(s1 \o s2, M) => Misses(s1, M) /\ Misses(s2, M)
    BY <1>5, <1>6
  <2>2. /\ Fine(s1 \o s2 \o s3)
        /\ \A M : Misses(s1 \o s2 \o s3, M) => Misses(s1 \o s2, M) /\ Misses(s3, M)
    BY <1>5, <1>6, <2>1
  <2>3. /\ Fine(s1 \o s2 \o s3 \o s4)
        /\ \A M : Misses(s1 \o s2 \o s3 \o s4, M) =>
                    Misses(s1 \o s2 \o s3, M) /\ Misses(s4, M)
    BY <1>5, <1>6, <2>2
  <2>4. /\ Fine(all)
        /\ \A M : Misses(all, M) => Misses(s1 \o s2 \o s3 \o s4, M) /\ Misses(s5, M)
    BY <1>5, <1>6, <2>3
  <2> QED BY <2>1, <2>2, <2>3, <2>4
<1> HIDE DEF all
<1>8. Fine(<<>>)
  BY EmptySeq DEF Fine, FirstIn
<1>9. ASSUME NEW l, NEW q, Suits(r, l, q), c.securityEnabled, ~r.disabled,
             Misses(renderSecurityEntries(r, c), Hits(l, q))
      PROVE  Permitted(r, c, q)
  <2>1. /\ Misses(s1, Hits(l, q)) /\ Misses(s2, Hits(l, q)) /\ Misses(s3, Hits(l, q))
        /\ Misses(s4, Hits(l, q)) /\ Misses(s5, Hits(l, q))
    BY <1>1, <1>7, <1>9
  <2>2. /\ v1 = {} \/ ~EntryMatches(BySource(r, v1), l, q)
        /\ v2 = {} \/ ~EntryMatches(BySource(r, v2), l, q)
        /\ v3 = {} \/ ~EntryMatches(BySource(r, v3), l, q)
        /\ v4 = {} \/ ~EntryMatches(ByMethod(r, v4), l, q)
        /\ denied = {} \/ ~EntryMatches(ByPath(r, denied), l, q)
    BY <1>4, <2>1, Rejecting DEF s1, s2, s3, s4, s5
  <2>3. ASSUME NEW v \in SUBSET Sources, v = {} \/ ~EntryMatches(BySource(r, v), l, q)
        PROVE  q.source \notin v
    <3> DEFINE m == BySource(r, v)
    <3>1. /\ m.host = r.host /\ m.paths = {r.path} /\ m.port = r.port
          /\ m.protocol = r.protocol /\ m.sources = v /\ m.methods = Methods
          /\ m.headers = {}
      BY ByType
    <3> HIDE DEF m
    <3>2. q.source \in v => EntryMatches(m, l, q)
      BY <1>9, <3>1 DEF EntryMatches, Suits
    <3> QED BY <2>3, <3>2 DEF m
  <2>4. q.method \notin v4
    <3> DEFINE m == ByMethod(r, v4)
    <3>1. /\ m.host = r.host /\ m.paths = {r.path} /\ m.port = r.port
          /\ m.protocol = r.protocol /\ m.sources = Sources /\ m.methods = v4
          /\ m.headers = {}
      BY <1>2, ByType
    <3> HIDE DEF m
    <3>2. q.method \in v4 => EntryMatches(m, l, q)
      BY <1>9, <3>1 DEF EntryMatches, Suits
    <3> QED BY <2>2, <3>2 DEF m
  <2>5. ASSUME NEW p \in denied
        PROVE  ~IsPrefix(p, q.path)
    <3> DEFINE m == ByPath(r, denied)
    <3>1. /\ m.host = r.host /\ m.paths = denied /\ m.port = r.port
          /\ m.protocol = r.protocol /\ m.sources = Sources /\ m.methods = Methods
          /\ m.headers = {}
      BY <1>3, ByType
    <3> HIDE DEF m
    <3>2. IsPrefix(p, q.path) => EntryMatches(m, l, q)
      BY <1>9, <3>1 DEF EntryMatches, Suits
    <3> QED BY <2>2, <3>2 DEF m
  <2>6. q.source \notin v1 /\ q.source \notin v2 /\ q.source \notin v3
    BY <1>2, <2>2, <2>3
  <2>7. ASSUME NEW p \in c.paths \cup r.paths, IsPrefix(p, q.path)
        PROVE  FALSE
    <3>1. p \in Path /\ r.path \in Path /\ q.path \in Path /\ IsPrefix(r.path, q.path)
      BY <1>9, ListedFields, SettingFields DEF Suits
    <3>2. PICK x \in intersectPathPrefixes(r.path, p) : IsPrefix(x, q.path)
      BY <2>7, <3>1, IntersectionPrefix
    <3>3. x \in denied
      BY DEF denied
    <3> QED BY <2>5, <3>2, <3>3
  <2>8. \A allowed \in {c.allowed, r.allowed} \ {{}} : q.source \in allowed
    BY <1>9, <2>6 DEF v2, v3, outside, Suits
  <2> QED BY <2>4, <2>6, <2>7, <2>8 DEF Permitted, v1, v4
<1> QED BY <1>1, <1>7, <1>8, <1>9 DEF Fine

LEMMA TwoEntries ==
  ASSUME NEW x \in Entries, NEW y \in Entries
  PROVE  /\ <<x, y>> \in Seq(Entries)
         /\ \A M : Misses(<<x, y>>, M) => y \notin M
         /\ \A M, e : FirstIn(<<x, y>>, e, M) => e \in {x, y} /\ e \in M
<1> HIDE DEF Entries
<1> DEFINE s == <<x, y>>
<1>1. s \in Seq(Entries) /\ DOMAIN s = {1, 2} /\ s[1] = x /\ s[2] = y
  <2>1. DOMAIN s = 1..2 /\ 1..2 = {1, 2}
    OBVIOUS
  <2> QED BY <2>1
<1> HIDE DEF s
<1>2. /\ \A M : Misses(s, M) => y \notin M
      /\ \A M, e : FirstIn(s, e, M) => e \in {x, y} /\ e \in M
  BY <1>1 DEF Misses, FirstIn
<1> QED BY <1>1, <1>2 DEF s

(* An entry that matches whatever the route serves.                        *)
RouteMatch(r, c) == IF r.internal THEN [routeMatch(r) EXCEPT !.sources = c.internalSources]
                    ELSE routeMatch(r)

LEMMA RouteMatchFields ==
  ASSUME NEW r \in Listed, NEW c \in Setting
  PROVE  LET m == RouteMatch(r, c)
         IN  /\ m \in Match /\ m.host = r.host /\ m.paths = {r.path} /\ m.port = r.port
             /\ m.protocol = r.protocol /\ m.methods = Methods /\ m.headers = {}
             /\ m.sources = IF r.internal THEN c.internalSources ELSE Sources
<1> HIDE DEF Listed, Host, Path
<1>1. /\ r.host \in Host /\ r.path \in Path /\ r.port \in Nat
      /\ r.protocol \in {"", "http", "https"} /\ r.internal \in BOOLEAN
  BY ListedFields
<1>2. c.internalSources \in SUBSET Sources
  BY SettingFields
<1>3. CASE r.internal
  <2>1. RouteMatch(r, c) =
          [host |-> r.host, paths |-> {r.path}, port |-> r.port,
           protocol |-> r.protocol, sources |-> c.internalSources,
           methods |-> Methods, headers |-> {}]
    BY <1>3 DEF RouteMatch, routeMatch
  <2>2. RouteMatch(r, c) \in Match
    <3>1. {r.path} \in SUBSET Path /\ Methods \in SUBSET Methods /\ {} \in SUBSET Headers
      BY <1>1
    <3>2. [host |-> r.host, paths |-> {r.path}, port |-> r.port,
           protocol |-> r.protocol, sources |-> c.internalSources,
           methods |-> Methods, headers |-> {}] \in Match
      BY <1>1, <1>2, <3>1, MatchType, Zenon
    <3> QED BY <2>1, <3>2, Zenon
  <2> QED BY <1>3, <2>1, <2>2
<1>4. CASE ~r.internal
  BY <1>1, <1>4 DEF RouteMatch, routeMatch, Match
<1> QED BY <1>1, <1>3, <1>4

LEMMA HeaderMatchFields ==
  ASSUME NEW m \in Match, NEW headers \in SUBSET Headers
  PROVE  LET n == [m EXCEPT !.headers = headers]
         IN  /\ n \in Match /\ n.host = m.host /\ n.paths = m.paths /\ n.port = m.port
             /\ n.protocol = m.protocol /\ n.methods = m.methods /\ n.headers = headers
             /\ n.sources = m.sources
<1> HIDE DEF Headers, Host, Path
<1> QED BY DEF Match

Proxy(r, m, strip) ==
  [Entry(m, "proxy", r, 200) EXCEPT !.strip = strip, !.set = SetHeaders(r, strip)]

LEMMA ProxyType ==
  ASSUME NEW r \in Listed, NEW m \in Match, NEW strip \in SUBSET Names
  PROVE  /\ Proxy(r, m, strip) \in Entries /\ Proxy(r, m, strip).match = m
         /\ Proxy(r, m, strip).kind = "proxy" /\ Proxy(r, m, strip).route = r
         /\ Proxy(r, m, strip).strip = strip
         /\ Proxy(r, m, strip).set = SetHeaders(r, strip)
<1> HIDE DEF Listed
<1>1. SetHeaders(r, strip) \in SUBSET Headers
  BY ListedFields DEF SetHeaders, Headers, Names
<1> DEFINE h == SetHeaders(r, strip)
<1> HIDE DEF h, Match, Headers, Names
<1>2. Proxy(r, m, strip) = [match |-> m, kind |-> "proxy", route |-> r, status |-> 200,
                            strip |-> strip, set |-> h, port |-> 0]
  <2>1. Proxy(r, m, strip) = [Entry(m, "proxy", r, 200) EXCEPT !.strip = strip, !.set = h]
    BY Zenon DEF Proxy, h
  <2> DEFINE plain == [match |-> m, kind |-> "proxy", route |-> r, status |-> 200,
                       strip |-> {}, set |-> {}, port |-> 0]
             bare == [match |-> m, kind |-> "proxy", route |-> r, status |-> 200,
                      strip |-> strip, set |-> {}, port |-> 0]
  <2>2. Entry(m, "proxy", r, 200) = plain
    BY DEF Entry
  <2>3. [plain EXCEPT !.strip = strip] = bare
    OBVIOUS
  <2>4. [bare EXCEPT !.set = h]
          = [match |-> m, kind |-> "proxy", route |-> r, status |-> 200,
             strip |-> strip, set |-> h, port |-> 0]
    OBVIOUS
  <2>5. Proxy(r, m, strip) = [bare EXCEPT !.set = h]
    <3> HIDE DEF plain, bare
    <3>1. Proxy(r, m, strip) = [[plain EXCEPT !.strip = strip] EXCEPT !.set = h]
      BY <2>1, <2>2, Zenon
    <3> QED BY <2>3, <3>1, Zenon
  <2> HIDE DEF bare
  <2> QED BY <2>4, <2>5, Zenon
<1> QED BY <1>1, <1>2 DEF Entries, h

(* What a request that reaches the backend of a route has been through.    *)
Passed(r, c, q, e) ==
  /\ HostMatches(r.host, q.host) /\ IsPrefix(r.path, q.path)
  /\ r.internal => q.source \in c.internalSources
  /\ c.securityEnabled /\ ~r.disabled => Permitted(r, c, q)
  /\ r.protected =>
       /\ protectedHeaderPolicies(c) \cap q.headers # {}
       /\ e.strip = {p.name : p \in protectedHeaderPolicies(c)}
       /\ e.set = SetHeaders(r, e.strip)

LEMMA RouteEntries ==
  ASSUME NEW r \in Listed, NEW c \in Setting
  PROVE  /\ renderRoute(r, c) \in Seq(Entries)
         /\ \A l, q, e :
              /\ q.host \in Host /\ q.path \in Path /\ q.source \in Sources
              /\ q.method \in Methods /\ FirstIn(renderRoute(r, c), e, Hits(l, q))
              => /\ e.route = r /\ e.kind \in {"proxy", "status"}
                 /\ e.kind = "proxy" => Passed(r, c, q, e)
         /\ \A l, q : Suits(r, l, q) /\ (r.internal => q.source \in c.internalSources)
                      => ~Misses(renderRoute(r, c), Hits(l, q))
<1> DEFINE m == RouteMatch(r, c)
           policies == protectedHeaderPolicies(c)
           n == [m EXCEPT !.headers = policies]
           strip == {p.name : p \in policies}
           sec == renderSecurityEntries(r, c)
           rest == CASE ~r.protected -> <<Proxy(r, m, {})>>
                     [] r.protected /\ policies = {} -> <<Entry(m, "status", r, 503)>>
                     [] r.protected /\ policies # {} ->
                          <<Proxy(r, n, strip), Entry(m, "status", r, 401)>>
<1>1. renderRoute(r, c) = sec \o rest
  BY Zenon DEF renderRoute, Proxy, RouteMatch
<1>2. policies \in SUBSET Headers /\ strip \in SUBSET Names /\ {} \in SUBSET Names
  <2>1. policies \in SUBSET Headers
    BY PoliciesType
  <2> HIDE DEF policies
  <2> QED BY <2>1 DEF Headers
<1>3. /\ m \in Match /\ m.host = r.host /\ m.paths = {r.path} /\ m.port = r.port
      /\ m.protocol = r.protocol /\ m.methods = Methods /\ m.headers = {}
      /\ m.sources = IF r.internal THEN c.internalSources ELSE Sources
      /\ n \in Match /\ n.host = r.host /\ n.paths = {r.path} /\ n.port = r.port
      /\ n.protocol = r.protocol /\ n.methods = Methods /\ n.headers = policies
      /\ n.sources = m.sources
  <2> HIDE DEF policies
  <2>1. /\ m \in Match /\ m.host = r.host /\ m.paths = {r.path} /\ m.port = r.port
        /\ m.protocol = r.protocol /\ m.methods = Methods /\ m.headers = {}
        /\ m.sources = IF r.internal THEN c.internalSources ELSE Sources
    BY RouteMatchFields
  <2> HIDE DEF m
  <2> QED BY <1>2, <2>1, HeaderMatchFields
<1> DEFINE p1 == Proxy(r, m, {})
           p2 == Proxy(r, n, strip)
           f503 == Entry(m, "status", r, 503)
           f401 == Entry(m, "status", r, 401)
<1> HIDE DEF m, n, policies, strip, sec
<1>4. /\ p1 \in Entries /\ p1.match = m /\ p1.kind = "proxy" /\ p1.route = r
      /\ p2 \in Entries /\ p2.match = n /\ p2.kind = "proxy" /\ p2.route = r
      /\ p2.strip = strip /\ p2.set = SetHeaders(r, strip)
  BY <1>2, <1>3, ProxyType
<1>5. /\ f503 \in Entries /\ f503.match = m /\ f503.kind = "status" /\ f503.route = r
      /\ f401 \in Entries /\ f401.match = m /\ f401.kind = "status" /\ f401.route = r
  BY <1>3, EntryType
<1>6. r.protected \in BOOLEAN /\ r.internal \in BOOLEAN
  BY ListedFields
<1>7. /\ ~r.protected => rest = <<p1>>
      /\ r.protected /\ policies = {} => rest = <<f503>>
      /\ r.protected /\ policies # {} => rest = <<p2, f401>>
  OBVIOUS
<1> HIDE DEF rest, p1, p2, f503, f401
<1>8. /\ rest \in Seq(Entries)
      /\ \A M : Misses(rest, M) =>
           \E e \in Entries : e.match = m /\ e \notin M
      /\ \A M, e : FirstIn(rest, e, M) =>
           /\ e \in M /\ e.route = r /\ e.kind \in {"proxy", "status"}
           /\ e.kind = "proxy" => \/ ~r.protected /\ e = p1
                                  \/ r.protected /\ e = p2
  <2>1. CASE ~r.protected
    <3>1. rest = <<p1>>
      BY <1>7, <2>1
    <3>2. /\ <<p1>> \in Seq(Entries) /\ \A M : Misses(<<p1>>, M) <=> p1 \notin M
          /\ \A M, e : FirstIn(<<p1>>, e, M) => e = p1 /\ p1 \in M
      BY <1>4, OneEntry
    <3> QED BY <1>4, <2>1, <3>1, <3>2
  <2>2. CASE r.protected /\ policies = {}
    <3>1. rest = <<f503>>
      BY <1>7, <2>2
    <3>2. /\ <<f503>> \in Seq(Entries) /\ \A M : Misses(<<f503>>, M) <=> f503 \notin M
          /\ \A M, e : FirstIn(<<f503>>, e, M) => e = f503 /\ f503 \in M
      BY <1>5, OneEntry
    <3> QED BY <1>5, <2>2, <3>1, <3>2
  <2>3. CASE r.protected /\ policies # {}
    <3>1. rest = <<p2, f401>>
      BY <1>7, <2>3
    <3>2. /\ <<p2, f401>> \in Seq(Entries)
          /\ \A M : Misses(<<p2, f401>>, M) => f401 \notin M
          /\ \A M, e : FirstIn(<<p2, f401>>, e, M) => e \in {p2, f401} /\ e \in M
      BY <1>4, <1>5, TwoEntries
    <3> QED BY <1>4, <1>5, <2>3, <3>1, <3>2
  <2> QED BY <1>6, <2>1, <2>2, <2>3
<1>9. /\ sec \in Seq(Entries)
      /\ \A e, M : FirstIn(sec, e, M) => e.kind = "status" /\ e.route = r
      /\ \A l, q : /\ Suits(r, l, q) /\ c.securityEnabled /\ ~r.disabled
                   /\ Misses(sec, Hits(l, q))
                   => Permitted(r, c, q)
  BY SecurityEntries DEF sec
<1>10. renderRoute(r, c) \in Seq(Entries)
  BY <1>1, <1>8, <1>9, ConcatProperties
<1>11. ASSUME NEW l, NEW q, NEW e, q.host \in Host, q.path \in Path,
              q.source \in Sources, q.method \in Methods,
              FirstIn(renderRoute(r, c), e, Hits(l, q))
       PROVE  /\ e.route = r /\ e.kind \in {"proxy", "status"}
              /\ e.kind = "proxy" => Passed(r, c, q, e)
  <2>1. \/ FirstIn(sec, e, Hits(l, q))
        \/ Misses(sec, Hits(l, q)) /\ FirstIn(rest, e, Hits(l, q))
    BY <1>1, <1>8, <1>9, <1>11, ConcatFirst
  <2>2. CASE FirstIn(sec, e, Hits(l, q))
    BY <1>9, <2>2
  <2>3. CASE Misses(sec, Hits(l, q)) /\ FirstIn(rest, e, Hits(l, q))
    <3>1. /\ e \in Hits(l, q) /\ e.route = r /\ e.kind \in {"proxy", "status"}
          /\ e.kind = "proxy" => \/ ~r.protected /\ e = p1
                                 \/ r.protected /\ e = p2
      BY <1>8, <2>3
    <3>2. ASSUME e.kind = "proxy"
          PROVE  Passed(r, c, q, e)
      <4>1. EntryMatches(e.match, l, q)
        BY <3>1 DEF Hits
      <4>2. /\ e.match.host = r.host /\ e.match.paths = {r.path}
            /\ e.match.port = r.port /\ e.match.protocol = r.protocol
            /\ e.match.sources = m.sources
            /\ r.protected => /\ e.match.headers = policies /\ policies # {}
                              /\ e.strip = strip /\ e.set = SetHeaders(r, strip)
        <5>1. r.protected => policies # {}
          <6>1. CASE r.protected /\ policies = {}
            <7>1. e = f503
              BY <1>5, <1>7, <2>3, <6>1, OneEntry
            <7> QED BY <1>5, <3>2, <7>1
          <6> QED BY <6>1
        <5> QED BY <1>3, <1>4, <3>1, <3>2, <5>1
      <4>3. /\ HostMatches(r.host, q.host) /\ IsPrefix(r.path, q.path)
            /\ r.port \in {0, l.address.port} /\ r.protocol \in {"", l.protocol}
            /\ r.internal => q.source \in c.internalSources
        BY <1>3, <4>1, <4>2 DEF EntryMatches
      <4>4. r.protected => policies \cap q.headers # {}
        BY <4>1, <4>2 DEF EntryMatches
      <4>5. c.securityEnabled /\ ~r.disabled => Permitted(r, c, q)
        BY <1>9, <1>11, <2>3, <4>3 DEF Suits
      <4> QED BY <4>2, <4>3, <4>4, <4>5 DEF Passed, policies, strip
    <3> QED BY <3>1, <3>2
  <2> QED BY <2>1, <2>2, <2>3
<1>12. ASSUME NEW l, NEW q, Suits(r, l, q), r.internal => q.source \in c.internalSources,
              Misses(renderRoute(r, c), Hits(l, q))
       PROVE  FALSE
  <2>1. Misses(rest, Hits(l, q))
    BY <1>1, <1>8, <1>9, <1>12, ConcatMisses
  <2>2. PICK e \in Entries : e.match = m /\ e \notin Hits(l, q)
    BY <1>8, <2>1
  <2>3. EntryMatches(m, l, q)
    BY <1>3, <1>6, <1>12 DEF EntryMatches, Suits
  <2> QED BY <2>2, <2>3 DEF Hits
<1> QED BY <1>10, <1>11, <1>12

----------------------------------------------------------------------------
(* The entries of a listener.                                              *)

LEMMA OwnEntriesFirst ==
  ASSUME NEW list \in Seq(Listed), NEW c \in Setting, NEW l, NEW M
  PROVE  /\ OwnEntries(list, l, c) \in Seq(Entries)
         /\ Misses(OwnEntries(list, l, c), M) =>
              \A i \in DOMAIN list : list[i].enabled /\ Listener(list[i], c) = l =>
                Misses(renderRoute(list[i], c), M)
         /\ \A e : FirstIn(OwnEntries(list, l, c), e, M) =>
              \E i \in DOMAIN list :
                /\ list[i].enabled /\ Listener(list[i], c) = l
                /\ FirstIn(renderRoute(list[i], c), e, M)
                /\ \A j \in DOMAIN list :
                     j < i /\ list[j].enabled /\ Listener(list[j], c) = l =>
                       Misses(renderRoute(list[j], c), M)
<1> DEFINE on(i) == list[i].enabled /\ Listener(list[i], c) = l
           seqs == [i \in DOMAIN list |->
                      IF list[i].enabled /\ Listener(list[i], c) = l
                      THEN renderRoute(list[i], c) ELSE <<>>]
<1>1. Len(list) \in Nat /\ DOMAIN list = 1..Len(list)
      /\ \A i \in DOMAIN list : list[i] \in Listed
  BY LenProperties
<1>2. \A i \in DOMAIN list : renderRoute(list[i], c) \in Seq(Entries)
  BY <1>1, RouteEntries
<1>3. DOMAIN seqs = DOMAIN list /\ \A i \in DOMAIN list :
        /\ on(i) => seqs[i] = renderRoute(list[i], c)
        /\ ~on(i) => seqs[i] = <<>>
  OBVIOUS
<1>4. seqs \in Seq(Seq(Entries))
  <2>1. \A i \in DOMAIN list : seqs[i] \in Seq(Entries)
    BY <1>2, <1>3, EmptySeq
  <2>2. seqs \in [1..Len(list) -> Seq(Entries)]
    <3> HIDE DEF Entries
    <3> QED BY <1>1, <2>1
  <2> HIDE DEF seqs
  <2> QED BY <1>1, <2>2
<1>5. OwnEntries(list, l, c) = FlattenSeq(seqs)
  BY Zenon DEF OwnEntries
<1> HIDE DEF seqs
<1>6. /\ FlattenSeq(seqs) \in Seq(Entries)
      /\ Misses(FlattenSeq(seqs), M) => \A i \in DOMAIN seqs : Misses(seqs[i], M)
      /\ \A e : FirstIn(FlattenSeq(seqs), e, M) =>
           \E i \in DOMAIN seqs : /\ FirstIn(seqs[i], e, M)
                                  /\ \A j \in DOMAIN seqs : j < i => Misses(seqs[j], M)
  BY <1>4, FlattenMisses
<1>7. \A e : ~FirstIn(<<>>, e, M)
  BY DEF FirstIn
<1> HIDE DEF on
<1>8. Misses(FlattenSeq(seqs), M) =>
        \A i \in DOMAIN list : on(i) => Misses(renderRoute(list[i], c), M)
  BY <1>3, <1>6
<1>9. ASSUME NEW e, FirstIn(FlattenSeq(seqs), e, M)
      PROVE  \E i \in DOMAIN list :
               /\ on(i) /\ FirstIn(renderRoute(list[i], c), e, M)
               /\ \A j \in DOMAIN list : j < i /\ on(j) => Misses(renderRoute(list[j], c), M)
  <2>1. PICK i \in DOMAIN list : /\ FirstIn(seqs[i], e, M)
                                 /\ \A j \in DOMAIN list : j < i => Misses(seqs[j], M)
    BY <1>3, <1>6, <1>9
  <2>2. on(i) /\ FirstIn(renderRoute(list[i], c), e, M)
    BY <1>3, <1>7, <2>1
  <2>3. \A j \in DOMAIN list : j < i /\ on(j) => Misses(renderRoute(list[j], c), M)
    BY <1>3, <2>1
  <2> QED BY <2>2, <2>3
<1> QED BY <1>5, <1>6, <1>8, <1>9 DEF on

LEMMA RedirectFields ==
  ASSUME NEW r \in Listed, NEW c \in Setting
  PROVE  LET e == Redirect(r, c)
         IN  /\ e.kind = "redirect" /\ e.route = r /\ e.port = Address(r, c).port
             /\ e.match.host = r.host /\ e.match.paths = {r.path}
             /\ Address(r, c).port \in Nat => e \in Entries
<1> DEFINE port == Address(r, c).port
           m == [routeMatch(r) EXCEPT !.port = 0, !.protocol = ""]
<1>1. m = [host |-> r.host, paths |-> {r.path}, port |-> 0, protocol |-> "",
           sources |-> Sources, methods |-> Methods, headers |-> {}]
  <2> DEFINE h == r.host
             paths == {r.path}
             p == r.port
             protocol == r.protocol
  <2>1. routeMatch(r) = [host |-> h, paths |-> paths, port |-> p, protocol |-> protocol,
                         sources |-> Sources, methods |-> Methods, headers |-> {}]
    BY DEF routeMatch
  <2> HIDE DEF h, paths, p, protocol
  <2>2. m = [host |-> h, paths |-> paths, port |-> 0, protocol |-> "",
             sources |-> Sources, methods |-> Methods, headers |-> {}]
    <3>1. m = [[host |-> h, paths |-> paths, port |-> p, protocol |-> protocol,
                sources |-> Sources, methods |-> Methods, headers |-> {}]
                 EXCEPT !.port = 0, !.protocol = ""]
      BY <2>1, Zenon
    <3> HIDE DEF m
    <3> QED BY <3>1
  <2> QED BY <2>2 DEF h, paths
<1>2. m \in Match /\ m.host = r.host /\ m.paths = {r.path}
  <2>1. r.host \in Host /\ {r.path} \in SUBSET Path /\ 0 \in Nat
        /\ "" \in {"", "http", "https"} /\ {} \in SUBSET Headers
    BY ListedFields
  <2>2. [host |-> r.host, paths |-> {r.path}, port |-> 0, protocol |-> "",
         sources |-> Sources, methods |-> Methods, headers |-> {}] \in Match
    BY <2>1, MatchType, Zenon
  <2>3. m \in Match
    <3> HIDE DEF m
    <3> QED BY <1>1, <2>2, Zenon
  <2> QED BY <1>1, <2>3
<1>3. Redirect(r, c) = [Entry(m, "redirect", r, 308) EXCEPT !.port = port]
  BY Zenon DEF Redirect
<1> HIDE DEF m, port
<1>4. Redirect(r, c) = [match |-> m, kind |-> "redirect", route |-> r, status |-> 308,
                        strip |-> {}, set |-> {}, port |-> port]
  BY <1>3 DEF Entry
<1> HIDE DEF Listed, Match, Headers, Names
<1>5. port \in Nat => Redirect(r, c) \in Entries
  BY <1>2, <1>4 DEF Entries
<1> QED BY <1>2, <1>4, <1>5 DEF port

LEMMA AddressPort ==
  ASSUME NEW r \in Listed, NEW c \in Setting
  PROVE  /\ Address(r, c).port \in Nat
         /\ r.port \in {0, Listener(r, c).address.port}
         /\ r.protocol \in {"", Listener(r, c).protocol}
<1>1. Default(Protocol(r), c) \in ListenAddress
  BY SettingFields DEF Default
<1>2. r.port \in Nat
  BY ListedFields
<1>3. Address(r, c).port = IF r.port = 0 THEN Default(Protocol(r), c).port ELSE r.port
  BY DEF Address
<1> QED BY <1>1, <1>2, <1>3 DEF Listener, Protocol, ListenAddress

LEMMA RedirectsFirstIn ==
  ASSUME NEW list \in Seq(Listed), NEW c \in Setting, NEW M
  PROVE  /\ RedirectEntries(list, c) \in Seq(Entries)
         /\ \A e : FirstIn(RedirectEntries(list, c), e, M) =>
              \E i \in DOMAIN list :
                /\ list[i].enabled /\ Protocol(list[i]) = "https"
                /\ e = Redirect(list[i], c) /\ e \in M
<1> DEFINE on(i) == list[i].enabled /\ Protocol(list[i]) = "https"
           seqs == [i \in DOMAIN list |->
                      IF list[i].enabled /\ Protocol(list[i]) = "https"
                      THEN <<Redirect(list[i], c)>> ELSE <<>>]
<1>1. Len(list) \in Nat /\ DOMAIN list = 1..Len(list)
      /\ \A i \in DOMAIN list : list[i] \in Listed
  BY LenProperties
<1>2. \A i \in DOMAIN list : Redirect(list[i], c) \in Entries
  BY <1>1, RedirectFields, AddressPort
<1>3. DOMAIN seqs = DOMAIN list /\ \A i \in DOMAIN list :
        /\ on(i) => seqs[i] = <<Redirect(list[i], c)>>
        /\ ~on(i) => seqs[i] = <<>>
  OBVIOUS
<1>4. seqs \in Seq(Seq(Entries))
  <2>1. \A i \in DOMAIN list : seqs[i] \in Seq(Entries)
    BY <1>2, <1>3, EmptySeq, OneEntry
  <2>2. seqs \in [1..Len(list) -> Seq(Entries)]
    <3> HIDE DEF Entries
    <3> QED BY <1>1, <2>1
  <2> HIDE DEF seqs
  <2> QED BY <1>1, <2>2
<1>5. RedirectEntries(list, c) = FlattenSeq(seqs)
  BY Zenon DEF RedirectEntries
<1> HIDE DEF seqs
<1>6. /\ FlattenSeq(seqs) \in Seq(Entries)
      /\ \A e : FirstIn(FlattenSeq(seqs), e, M) =>
           \E i \in DOMAIN seqs : FirstIn(seqs[i], e, M)
  BY <1>4, FlattenMisses
<1>7. \A e : ~FirstIn(<<>>, e, M)
  BY DEF FirstIn
<1> HIDE DEF on
<1>8. ASSUME NEW e, FirstIn(FlattenSeq(seqs), e, M)
      PROVE  \E i \in DOMAIN list : on(i) /\ e = Redirect(list[i], c) /\ e \in M
  <2>1. PICK i \in DOMAIN list : FirstIn(seqs[i], e, M)
    BY <1>3, <1>6, <1>8
  <2>2. on(i) /\ FirstIn(<<Redirect(list[i], c)>>, e, M)
    BY <1>3, <1>7, <2>1
  <2> QED BY <1>2, <2>2, OneEntry
<1> QED BY <1>5, <1>6, <1>8 DEF on

LEMMA Responds ==
  ASSUME NEW servers, NEW l, NEW q, servers[l] \in Seq(Entries)
  PROVE  \/ Respond(servers, l, q) = Unhandled /\ Misses(servers[l], Hits(l, q))
         \/ FirstIn(servers[l], Respond(servers, l, q), Hits(l, q))
<1> DEFINE s == servers[l]
           matching == {i \in DOMAIN servers[l] : EntryMatches(servers[l][i].match, l, q)}
           least == CHOOSE i \in matching : \A j \in matching : i <= j
<1>1. Len(s) \in Nat /\ DOMAIN s = 1..Len(s) /\ \A i \in DOMAIN s : s[i] \in Entries
  BY LenProperties
<1>2. \A i \in DOMAIN s : i \in matching <=> s[i] \in Hits(l, q)
  BY <1>1 DEF Hits
<1>3. Respond(servers, l, q) = IF matching = {} THEN Unhandled ELSE s[least]
  BY Zenon DEF Respond
<1>4. CASE matching = {}
  BY <1>2, <1>3, <1>4 DEF Misses
<1>5. CASE matching # {}
  <2>1. matching \subseteq DOMAIN s /\ matching \subseteq Nat
    BY <1>1
  <2> HIDE DEF matching
  <2>2. \E i \in matching : \A j \in matching : i <= j
    BY <1>5, <2>1, LeastExists
  <2>3. least \in matching /\ \A j \in matching : least <= j
    BY <2>2, Zenon
  <2> HIDE DEF least, s
  <2>4. /\ least \in DOMAIN s /\ s[least] \in Hits(l, q)
        /\ \A j \in DOMAIN s : j < least => s[j] \notin Hits(l, q)
    BY <1>1, <1>2, <2>1, <2>3
  <2>5. FirstIn(s, s[least], Hits(l, q))
    BY <2>4 DEF FirstIn
  <2> QED BY <1>3, <1>5, <2>5 DEF s
<1> QED BY <1>4, <1>5

----------------------------------------------------------------------------
(* The answer to a request.                                                *)

Definable == {r \in Route : r.host \in Hosts /\ r.path \in Paths}

(* What is loaded was rendered, from routes made of those of RouteSet.     *)
IInv ==
  /\ routes \in Seq(Definable) /\ settings \in Settings
  /\ Renderable(routes, settings)

LEMMA Lists ==
  ASSUME NEW rs \in Seq(Definable), NEW c \in Settings
  PROVE  /\ c \in Setting /\ AllRoutes(rs, c) \in Seq(Listed)
         /\ RouteList(rs, c) \in Seq(Listed)
         /\ ToSet(RouteList(rs, c)) = ToSet(AllRoutes(rs, c))
         /\ \A i, j \in DOMAIN RouteList(rs, c) :
              i < j => ~Less(RouteList(rs, c)[j], RouteList(rs, c)[i])
<1>1. c \in Setting
  BY TypeAssumption
<1>2. Definable \subseteq Listed
  BY DEF Definable, Listed
<1>3. rs \in Seq(Listed)
  BY <1>2, SeqMonotonic
<1>4. AllRoutes(rs, c) \in Seq(Listed)
  <2>1. CASE c.managementHost = <<>>
    BY <1>3, <2>1 DEF AllRoutes
  <2>2. CASE c.managementHost # <<>>
    <3>1. ManagementRoute(c) \in Listed
      BY <2>2 DEF Listed
    <3> HIDE DEF Listed
    <3>2. AllRoutes(rs, c) = Append(rs, ManagementRoute(c))
      BY <2>2 DEF AllRoutes
    <3> QED BY <1>3, <3>1, <3>2, AppendProperties
  <2> QED BY <2>1, <2>2
<1> QED BY <1>1, <1>4, StableSorted DEF RouteList

(* The three ways a request can be answered.                               *)
Nothing(l, q, answer) == answer = Unhandled /\ \A r \in Defined : ~Serves(r, l, q)

ByRoute(l, q, answer) ==
  \E r \in Defined :
    /\ r \in Listed /\ r.enabled /\ Listener(r, Conf) = l
    /\ answer.route = r /\ answer.kind \in {"proxy", "status"}
    /\ answer.kind = "proxy" => Passed(r, Conf, q, answer)
    /\ \A s \in Defined : s \in Listed /\ (Less(s, r) => ~Serves(s, l, q))

ByRedirection(l, q, answer) ==
  \E r \in Defined :
    /\ r \in Listed /\ r.enabled /\ Protocol(r) = "https"
    /\ answer.kind = "redirect" /\ answer.port = Address(r, Conf).port
    /\ HostMatches(r.host, q.host) /\ IsPrefix(r.path, q.path)
    /\ \A s \in Defined : ~Serves(s, l, q)

LEMMA Answered ==
  ASSUME IInv, NEW l \in DOMAIN Running, NEW q \in Requests
  PROVE  \/ Nothing(l, q, Respond(Running, l, q))
         \/ ByRoute(l, q, Respond(Running, l, q))
         \/ ByRedirection(l, q, Respond(Running, l, q))
<1> DEFINE list == RouteList(routes, settings)
           c == settings
           own == OwnEntries(list, l, c)
           redirects == RedirectEntries(list, c)
           answer == Respond(Running, l, q)
           M == Hits(l, q)
<1>1. /\ c \in Setting /\ list \in Seq(Listed) /\ ToSet(list) = Defined
      /\ \A i, j \in DOMAIN list : i < j => ~Less(list[j], list[i])
  BY Lists DEF IInv, Defined, Conf
<1>2. /\ Running[l] = own \/ Running[l] = own \o redirects
  BY DEF Running, Render, EntriesOf
<1>3. /\ q.host \in Host /\ q.path \in Path /\ q.source \in Sources /\ q.method \in Methods
  BY TypeAssumption DEF Requests
<1> HIDE DEF list, c
<1>4. \A i \in DOMAIN list : list[i] \in Listed /\ list[i] \in Defined
  <2>1. \A i \in DOMAIN list : list[i] \in Listed
    BY <1>1, LenProperties
  <2>2. \A i \in DOMAIN list : list[i] \in ToSet(list)
    BY DEF ToSet
  <2> QED BY <1>1, <2>1, <2>2
<1>5. \A r \in Defined : \E i \in DOMAIN list : list[i] = r
  BY <1>1 DEF ToSet
<1>6. /\ own \in Seq(Entries)
      /\ Misses(own, M) =>
           \A i \in DOMAIN list : list[i].enabled /\ Listener(list[i], c) = l =>
             Misses(renderRoute(list[i], c), M)
      /\ \A e : FirstIn(own, e, M) =>
           \E i \in DOMAIN list :
             /\ list[i].enabled /\ Listener(list[i], c) = l
             /\ FirstIn(renderRoute(list[i], c), e, M)
             /\ \A j \in DOMAIN list :
                  j < i /\ list[j].enabled /\ Listener(list[j], c) = l =>
                    Misses(renderRoute(list[j], c), M)
  <2> HIDE DEF M
  <2> QED BY <1>1, OwnEntriesFirst
<1>7. /\ redirects \in Seq(Entries)
      /\ \A e : FirstIn(redirects, e, M) =>
           \E i \in DOMAIN list :
             /\ list[i].enabled /\ Protocol(list[i]) = "https"
             /\ e = Redirect(list[i], c) /\ e \in M
  <2> HIDE DEF M
  <2> QED BY <1>1, RedirectsFirstIn
<1>8. ASSUME NEW r \in Listed, r.enabled, Listener(r, c) = l,
             Misses(renderRoute(r, c), M)
      PROVE  ~Serves(r, l, q)
  <2> SUFFICES ASSUME Serves(r, l, q) PROVE FALSE
    OBVIOUS
  <2>1. r.internal => q.source \in c.internalSources
    BY DEF Serves, Conf, c
  <2>2. Suits(r, l, q)
    BY <1>1, <1>3, <1>8, AddressPort DEF Suits, Serves, For
  <2> QED BY <1>1, <1>8, <2>1, <2>2, RouteEntries
<1>9. \A r : Serves(r, l, q) => r.enabled /\ Listener(r, c) = l
  BY DEF Serves, For, Conf, c
<1>10. ASSUME Misses(own, M)
       PROVE  \A r \in Defined : ~Serves(r, l, q)
  <2> SUFFICES ASSUME NEW r \in Defined, Serves(r, l, q) PROVE FALSE
    OBVIOUS
  <2>1. PICK i \in DOMAIN list : list[i] = r
    BY <1>5
  <2> HIDE DEF own, M
  <2>2. r \in Listed /\ r.enabled /\ Listener(r, c) = l /\ Misses(renderRoute(r, c), M)
    BY <1>4, <1>6, <1>9, <1>10, <2>1
  <2> QED BY <1>8, <2>2
<1>11. ASSUME FirstIn(own, answer, M)
       PROVE  ByRoute(l, q, answer)
  <2>1. PICK i \in DOMAIN list :
          /\ list[i].enabled /\ Listener(list[i], c) = l
          /\ FirstIn(renderRoute(list[i], c), answer, M)
          /\ \A j \in DOMAIN list :
               j < i /\ list[j].enabled /\ Listener(list[j], c) = l =>
                 Misses(renderRoute(list[j], c), M)
    <3> HIDE DEF own, M, answer
    <3> QED BY <1>6, <1>11
  <2> DEFINE r == list[i]
  <2>2. r \in Listed /\ r \in Defined
    BY <1>4
  <2>3. /\ answer.route = r /\ answer.kind \in {"proxy", "status"}
        /\ answer.kind = "proxy" => Passed(r, c, q, answer)
    <3> HIDE DEF answer, r
    <3>1. FirstIn(renderRoute(r, c), answer, Hits(l, q))
      BY <2>1 DEF r
    <3> QED BY <1>1, <1>3, <2>2, <3>1, RouteEntries
  <2>4. ASSUME NEW s \in Defined
        PROVE  s \in Listed /\ (Less(s, r) => ~Serves(s, l, q))
    <3>1. PICK j \in DOMAIN list : list[j] = s
      BY <1>5
    <3>2. s \in Listed
      BY <1>4, <3>1
    <3>3. ASSUME Less(s, r), Serves(s, l, q)
          PROVE  FALSE
      <4>1. ~(i < j) /\ i # j
        <5>1. ~Less(r, r)
          BY <2>2, LessOrders
        <5> QED BY <1>1, <3>1, <3>3, <5>1
      <4>2. i \in Int /\ j \in Int
        BY <1>1, LenProperties
      <4>3. j < i
        BY <4>1, <4>2
      <4>4. s.enabled /\ Listener(s, c) = l
        BY <1>9, <3>3
      <4>5. Misses(renderRoute(s, c), M)
        <5> HIDE DEF M
        <5> QED BY <2>1, <3>1, <4>3, <4>4
      <4> QED BY <1>8, <3>2, <3>3, <4>4, <4>5
    <3> QED BY <3>2, <3>3
  <2> HIDE DEF answer, r
  <2> QED BY <2>1, <2>2, <2>3, <2>4 DEF ByRoute, Conf, c, r
<1>12. ASSUME Misses(own, M), FirstIn(redirects, answer, M)
       PROVE  ByRedirection(l, q, answer)
  <2>1. PICK i \in DOMAIN list :
          /\ list[i].enabled /\ Protocol(list[i]) = "https"
          /\ answer = Redirect(list[i], c) /\ answer \in M
    <3> HIDE DEF M, answer, redirects
    <3> QED BY <1>7, <1>12
  <2> DEFINE r == list[i]
  <2>2. r \in Listed /\ r \in Defined
    BY <1>4
  <2> HIDE DEF answer, r
  <2>3. /\ answer.kind = "redirect" /\ answer.port = Address(r, c).port
        /\ answer.match.host = r.host /\ answer.match.paths = {r.path}
    BY <1>1, <2>1, <2>2, RedirectFields DEF r
  <2>4. EntryMatches(answer.match, l, q)
    BY <2>1 DEF Hits
  <2>5. HostMatches(r.host, q.host) /\ IsPrefix(r.path, q.path)
    BY <2>3, <2>4 DEF EntryMatches
  <2>6. r.enabled /\ Protocol(r) = "https"
    BY <2>1 DEF r
  <2>7. \A s \in Defined : ~Serves(s, l, q)
    BY <1>10, <1>12
  <2> QED BY <2>2, <2>3, <2>5, <2>6, <2>7 DEF ByRedirection, Conf, c
<1>13. Running[l] \in Seq(Entries)
  BY <1>2, <1>6, <1>7, ConcatProperties
<1>14. \/ answer = Unhandled /\ Misses(Running[l], M)
       \/ FirstIn(Running[l], answer, M)
  BY <1>13, Responds
<1> HIDE DEF own, redirects, answer, M
<1>15. CASE answer = Unhandled /\ Misses(Running[l], M)
  <2>1. Misses(own, M)
    BY <1>2, <1>6, <1>7, <1>15, ConcatMisses
  <2> QED BY <1>10, <1>15, <2>1 DEF Nothing, answer
<1>16. CASE FirstIn(Running[l], answer, M)
  <2>1. FirstIn(own, answer, M) \/ (Misses(own, M) /\ FirstIn(redirects, answer, M))
    BY <1>2, <1>6, <1>7, <1>16, ConcatFirst
  <2> QED BY <1>11, <1>12, <2>1 DEF answer
<1> QED BY <1>14, <1>15, <1>16

----------------------------------------------------------------------------
(* The theorems.                                                           *)

(* RouteSet is made of definable routes, and the operations on the list    *)
(* keep it so.                                                             *)
LEMMA RoutesDefinable ==
  /\ RouteSet \subseteq Definable
  /\ \A r \in Definable : [r EXCEPT !.enabled = ~@] \in Definable
<1>1. RouteSet \subseteq Definable
  BY TypeAssumption DEF Definable, Hosts, Paths
<1>2. ASSUME NEW r \in Definable
      PROVE  [r EXCEPT !.enabled = ~@] \in Definable
  <2> DEFINE x == [r EXCEPT !.enabled = ~@]
  <2>1. r \in Route /\ r.host \in Hosts /\ r.path \in Paths
    BY DEF Definable
  <2>2. x \in Route
    <3> HIDE DEF Host, Path
    <3> QED BY <2>1 DEF Route
  <2>3. x.host = r.host /\ x.path = r.path
    BY <2>1 DEF Route
  <2> HIDE DEF x
  <2>4. x \in Definable
    BY <2>1, <2>2, <2>3 DEF Definable
  <2> QED BY <2>4 DEF x
<1> QED BY <1>1, <1>2

LEMMA IInvInductive == Init /\ [][Next]_vars => []IInv
<1>1. Init => IInv
  BY EmptySeq DEF Init, IInv
<1>2. IInv /\ [Next]_vars => IInv'
  <2> SUFFICES ASSUME IInv, [Next]_vars PROVE IInv'
    OBVIOUS
  <2>1. routes \in Seq(Definable) /\ settings \in Settings
    BY DEF IInv
  <2>2. ASSUME NEW rs \in Seq(Definable), NEW c \in Settings, Load(rs, c)
        PROVE  IInv'
    BY <2>2 DEF Load, IInv
  <2>3. ASSUME NEW r \in RouteSet, AddRoute(r)
        PROVE  IInv'
    <3>1. Append(routes, r) \in Seq(Definable)
      BY <2>1, RoutesDefinable, AppendProperties
    <3> QED BY <2>1, <2>2, <2>3, <3>1 DEF AddRoute
  <2>4. ASSUME NEW i \in DOMAIN routes, DeleteRoute(i)
        PROVE  IInv'
    <3>1. /\ Len(routes) \in Nat /\ i \in 1..Len(routes)
          /\ \A j \in 1..Len(routes) : routes[j] \in Definable
      BY <2>1, LenProperties
    <3>2. /\ SubSeq(routes, 1, i - 1) \in Seq(Definable)
          /\ SubSeq(routes, i + 1, Len(routes)) \in Seq(Definable)
      BY <3>1, SubSeqProperties
    <3>3. RemoveAt(routes, i) \in Seq(Definable)
      BY <3>2, ConcatProperties DEF RemoveAt
    <3> QED BY <2>1, <2>2, <2>4, <3>3 DEF DeleteRoute
  <2>5. ASSUME NEW i \in DOMAIN routes, EnableRoute(i)
        PROVE  IInv'
    <3>1. i \in 1..Len(routes) /\ routes[i] \in Definable
      BY <2>1, LenProperties
    <3> DEFINE x == [routes[i] EXCEPT !.enabled = ~@]
    <3>2. x \in Definable
      BY <3>1, RoutesDefinable
    <3>3. [routes EXCEPT ![i].enabled = ~@] = [routes EXCEPT ![i] = x]
      BY <2>1, <3>1, LenProperties
    <3> HIDE DEF x
    <3>4. [routes EXCEPT ![i] = x] \in Seq(Definable)
      BY <2>1, <3>1, <3>2, ExceptSeq
    <3> QED BY <2>1, <2>2, <2>5, <3>3, <3>4 DEF EnableRoute
  <2>6. ASSUME NEW c \in Settings, ChangeSettings(c)
        PROVE  IInv'
    BY <2>1, <2>2, <2>6 DEF ChangeSettings
  <2>7. CASE UNCHANGED vars
    BY <2>7 DEF vars, IInv
  <2> QED BY <2>3, <2>4, <2>5, <2>6, <2>7 DEF Next
<1> QED BY <1>1, <1>2, PTL

(* A route that serves a request and does not come in front of another is  *)
(* not more specific.                                                      *)
LEMMA SpecificFirst ==
  ASSUME NEW r \in Listed, NEW s \in Listed, NEW q, q.host \in Host, q.path \in Path,
         HostMatches(r.host, q.host), HostMatches(s.host, q.host),
         IsPrefix(r.path, q.path), IsPrefix(s.path, q.path), MoreSpecific(s, r)
  PROVE  Less(s, r)
<1>1. /\ r.host \in Host /\ s.host \in Host /\ r.path \in Path /\ s.path \in Path
      /\ r.path \in Paths /\ s.path \in Paths
  BY ListedFields
<1>2. CASE Wildcard(s.host) # Wildcard(r.host)
  BY <1>2 DEF MoreSpecific, Less
<1>3. CASE Wildcard(s.host) = Wildcard(r.host)
  <2>1. s.host = r.host
    BY <1>1, <1>3, HostsEqual
  <2>2. Len(s.path) > Len(r.path) /\ Len(s.path) \in Nat /\ Len(r.path) \in Nat
    BY <1>1, <1>3, LenProperties DEF MoreSpecific, Path
  <2>3. IsPrefix(r.path, s.path) /\ r.path # s.path
    BY <1>1, <2>2, PrefixesComparable
  <2>4. PathLength[r.path] < PathLength[s.path]
    BY <1>1, <2>3, OrderAssumption
  <2>5. PathLength[r.path] \in Nat /\ PathLength[s.path] \in Nat
    BY <1>1, OrderAssumption
  <2> QED BY <1>3, <2>1, <2>4, <2>5 DEF Less
<1> QED BY <1>2, <1>3

LEMMA UnhandledKind == Unhandled.kind = "unhandled"
BY DEF Unhandled

LEMMA MostSpecific == IInv => MostSpecificRoute
<1> SUFFICES ASSUME IInv, NEW l \in DOMAIN Running, NEW q \in Requests
             PROVE  LET answer == Respond(Running, l, q)
                    IN  /\ answer.kind = "proxy" =>
                             /\ answer.route \in Defined /\ Serves(answer.route, l, q)
                             /\ \A r \in Defined :
                                  Serves(r, l, q) => ~MoreSpecific(r, answer.route)
                        /\ answer.kind = "unhandled" => \A r \in Defined : ~Serves(r, l, q)
  BY Zenon DEF MostSpecificRoute, ForEveryRequest
<1> DEFINE answer == Respond(Running, l, q)
<1>1. Nothing(l, q, answer) \/ ByRoute(l, q, answer) \/ ByRedirection(l, q, answer)
  BY Answered
<1>2. q.host \in Host /\ q.path \in Path
  BY TypeAssumption DEF Requests
<1> HIDE DEF answer
<1>3. CASE Nothing(l, q, answer)
  BY <1>3, UnhandledKind DEF Nothing, answer
<1>4. CASE ByRedirection(l, q, answer)
  BY <1>4 DEF ByRedirection, answer
<1>5. CASE ByRoute(l, q, answer)
  <2>1. PICK r \in Defined :
          /\ r \in Listed /\ r.enabled /\ Listener(r, Conf) = l
          /\ answer.route = r /\ answer.kind \in {"proxy", "status"}
          /\ answer.kind = "proxy" => Passed(r, Conf, q, answer)
          /\ \A s \in Defined : s \in Listed /\ (Less(s, r) => ~Serves(s, l, q))
    BY <1>5 DEF ByRoute
  <2>2. ASSUME answer.kind = "proxy"
        PROVE  /\ Serves(r, l, q)
               /\ \A s \in Defined : Serves(s, l, q) => ~MoreSpecific(s, r)
    <3>1. Serves(r, l, q)
      BY <2>1, <2>2 DEF Passed, Serves, For
    <3>2. ASSUME NEW s \in Defined, Serves(s, l, q), MoreSpecific(s, r)
          PROVE  FALSE
      <4>1. /\ HostMatches(r.host, q.host) /\ HostMatches(s.host, q.host)
            /\ IsPrefix(r.path, q.path) /\ IsPrefix(s.path, q.path)
        BY <3>1, <3>2 DEF Serves, For
      <4>2. Less(s, r)
        BY <1>2, <2>1, <3>2, <4>1, SpecificFirst
      <4> QED BY <2>1, <3>2, <4>2
    <3> QED BY <3>1, <3>2
  <2> QED BY <2>1, <2>2 DEF answer
<1> QED BY <1>1, <1>3, <1>4, <1>5

(* The order Render gives the entries: a request reaches the backend of    *)
(* the most specific enabled route for it, whatever the routes, their      *)
(* number and the order in which they were defined, and is left without an *)
(* answer only if no route serves it.                                      *)
THEOREM RouteMostSpecific == Spec => []MostSpecificRoute
<1>1. Spec => []IInv
  BY IInvInductive DEF Spec
<1> QED BY <1>1, MostSpecific, PTL

LEMMA Policy == IInv => PolicyEnforced
<1> SUFFICES ASSUME IInv PROVE SecurityEnforced /\ CredentialsStayHere
  BY DEF PolicyEnforced
<1>1. ASSUME NEW l \in DOMAIN Running, NEW q \in Requests, NEW answer,
             answer = Respond(Running, l, q), answer.kind = "proxy"
      PROVE  Passed(answer.route, Conf, q, answer)
  <2>1. Nothing(l, q, answer) \/ ByRoute(l, q, answer) \/ ByRedirection(l, q, answer)
    BY <1>1, Answered
  <2>2. ~Nothing(l, q, answer)
    BY <1>1, UnhandledKind DEF Nothing
  <2>3. ~ByRedirection(l, q, answer)
    BY <1>1 DEF ByRedirection
  <2>4. ByRoute(l, q, answer)
    BY <2>1, <2>2, <2>3
  <2> QED BY <1>1, <2>4 DEF ByRoute
<1>2. SecurityEnforced
  <2> SUFFICES ASSUME NEW l \in DOMAIN Running, NEW q \in Requests
               PROVE  LET answer == Respond(Running, l, q) IN
                 answer.kind = "proxy" /\ Conf.securityEnabled /\ ~answer.route.disabled =>
                   LET r == answer.route
                   IN  /\ q.source \notin Conf.blocked \cup r.blocked
                       /\ \A allowed \in {Conf.allowed, r.allowed} \ {{}} : q.source \in allowed
                       /\ q.method \notin Conf.methods \cup r.methods
                       /\ ~\E p \in Conf.paths \cup r.paths : IsPrefix(p, q.path)
    BY Zenon DEF SecurityEnforced, ForEveryRequest
  <2> DEFINE answer == Respond(Running, l, q)
  <2>1. answer.kind = "proxy" => Passed(answer.route, Conf, q, answer)
    BY <1>1
  <2> HIDE DEF answer
  <2> QED BY <2>1 DEF Passed, Permitted, answer
<1>3. CredentialsStayHere
  <2> SUFFICES ASSUME NEW l \in DOMAIN Running, NEW q \in Requests
               PROVE  LET answer == Respond(Running, l, q) IN
                 answer.kind = "proxy" /\ answer.route.protected =>
                   LET accepted == protectedHeaderPolicies(Conf)
                       forwarded == {h \in q.headers : h.name \notin answer.strip}
                                      \cup answer.set
                   IN  /\ accepted \cap q.headers # {}
                       /\ \A h \in forwarded : h.name \notin {a.name : a \in accepted}
    BY Zenon DEF CredentialsStayHere, ForEveryRequest
  <2> DEFINE answer == Respond(Running, l, q)
  <2>1. answer.kind = "proxy" => Passed(answer.route, Conf, q, answer)
    BY <1>1
  <2> HIDE DEF answer
  <2> QED BY <2>1 DEF Passed, SetHeaders, answer
<1> QED BY <1>2, <1>3

(* securityEntries and the authentication of protected routes: no request  *)
(* reaches a backend that the policy denies by source, method or path, and *)
(* no backend of a protected route sees a request without a credential, or *)
(* the credential itself.                                                  *)
THEOREM RoutePolicyEnforced == Spec => []PolicyEnforced
<1>1. Spec => []IInv
  BY IInvInductive DEF Spec
<1> QED BY <1>1, Policy, PTL

LEMMA Landing == IInv => RedirectsLand
<1> SUFFICES ASSUME IInv PROVE RedirectsServed /\ ListenersCompatible
  BY DEF RedirectsLand
<1>1. RedirectsServed
  <2> SUFFICES ASSUME NEW l \in DOMAIN Running, NEW q \in Requests
               PROVE  LET answer == Respond(Running, l, q) IN
                 answer.kind = "redirect" =>
                   /\ \A r \in Defined : ~Serves(r, l, q)
                   /\ \E k \in Listeners(routes, settings), r \in Defined :
                        /\ k.protocol = "https" /\ k.address.port = answer.port
                        /\ For(r, k, q)
    BY Zenon DEF RedirectsServed, ForEveryRequest
  <2> DEFINE answer == Respond(Running, l, q)
  <2>1. Nothing(l, q, answer) \/ ByRoute(l, q, answer) \/ ByRedirection(l, q, answer)
    BY Answered
  <2> HIDE DEF answer
  <2>2. ASSUME answer.kind = "redirect"
        PROVE  /\ \A r \in Defined : ~Serves(r, l, q)
               /\ \E k \in Listeners(routes, settings), r \in Defined :
                    /\ k.protocol = "https" /\ k.address.port = answer.port
                    /\ For(r, k, q)
    <3>1. ~Nothing(l, q, answer) /\ ~ByRoute(l, q, answer)
      BY <2>2, UnhandledKind DEF Nothing, ByRoute
    <3>2. PICK r \in Defined :
            /\ r \in Listed /\ r.enabled /\ Protocol(r) = "https"
            /\ answer.kind = "redirect" /\ answer.port = Address(r, Conf).port
            /\ HostMatches(r.host, q.host) /\ IsPrefix(r.path, q.path)
            /\ \A s \in Defined : ~Serves(s, l, q)
      BY <2>1, <3>1 DEF ByRedirection
    <3> DEFINE k == Listener(r, Conf)
    <3>3. r \in Enabled(routes, settings)
      BY <3>2, Lists DEF Enabled, IInv, Defined, Conf
    <3>4. k \in Listeners(routes, settings)
      BY <3>3 DEF Listeners, Conf
    <3>5. k.protocol = "https" /\ k.address.port = answer.port
      BY <3>2 DEF Listener
    <3>6. For(r, k, q)
      BY <3>2 DEF For
    <3> HIDE DEF k
    <3> QED BY <3>2, <3>4, <3>5, <3>6
  <2> QED BY <2>2 DEF answer
<1>2. ListenersCompatible
  <2>1. \A k, l \in Listeners(routes, settings) : ~Conflicting(k, l)
    BY DEF IInv, Renderable
  <2> HIDE DEF Listeners
  <2> QED BY <2>1 DEF ListenersCompatible, Conflicting, listenerAddressesOverlap
<1> QED BY <1>1, <1>2

(* The redirections Render adds to the HTTP listener: a request is         *)
(* redirected only if no route of that listener serves it, to a port where *)
(* a listener has a route for it, and no two listeners of one loaded       *)
(* configuration claim the same port for different protocols.              *)
THEOREM RouteRedirectsLand == Spec => []RedirectsLand
<1>1. Spec => []IInv
  BY IInvInductive DEF Spec
<1> QED BY <1>1, Landing, PTL
=============================================================================
