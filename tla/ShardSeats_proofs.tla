-------------------------- MODULE ShardSeats_proofs --------------------------
(***************************************************************************)
(* Proofs about the seats and address cache of a shard, for any sources,   *)
(* routes, epochs and connections and every limit of the cache: ListsAgree,*)
(* AuthenticationEarned and AuthenticatedKept; and WaitingForTaken.        *)
(***************************************************************************)
EXTENDS ShardSeats, FiniteSetTheorems, WellFoundedInduction, TLAPS

-----------------------------------------------------------------------------
(* Lists.                                                                  *)

\* The list p is q without x.
Dropped(q, x, p) ==
  /\ p \in Seq(Sources) /\ IsInjective(p)
  /\ \A y \in Sources : y \in Range(p) <=> y \in Range(q) /\ y # x
  /\ Len(p) = IF x \in Range(q) THEN Len(q) - 1 ELSE Len(q)
  /\ \A y, z \in Sources : Before(p, y, z) <=> Before(q, y, z) /\ y # x /\ z # x

\* The list p is q with x in front.
Fronted(q, x, p) ==
  /\ p \in Seq(Sources) /\ IsInjective(p)
  /\ \A y \in Sources : y \in Range(p) <=> y \in Range(q) \/ y = x
  /\ Len(p) = Len(q) + 1
  /\ \A y, z \in Sources : Before(p, y, z) <=> Before(q, y, z) \/ (y = x /\ z \in Range(q))

\* The members of a list, and what comes before what in it, by their indices.
LEMMA ListFacts ==
  ASSUME NEW q \in Seq(Sources)
  PROVE  /\ Len(q) \in Nat /\ DOMAIN q = 1 .. Len(q)
         /\ \A y : y \in Range(q) <=> \E i \in 1 .. Len(q) : q[i] = y
         /\ \A i \in 1 .. Len(q) : q[i] \in Sources
         /\ \A y, z : Before(q, y, z) <=> \E i, j \in 1 .. Len(q) : i < j /\ q[i] = y /\ q[j] = z
<1>1. Len(q) \in Nat /\ DOMAIN q = 1 .. Len(q) /\ \A i \in 1 .. Len(q) : q[i] \in Sources
  OBVIOUS
<1>2. \A y : y \in Range(q) <=> \E i \in 1 .. Len(q) : q[i] = y
  BY <1>1, Zenon DEF Range
<1> QED BY <1>1, <1>2, Zenon DEF Before

\* A list that does not have x is left alone.
LEMMA NotDropped ==
  ASSUME NEW q \in Seq(Sources), IsInjective(q), NEW x, x \notin Range(q)
  PROVE  Dropped(q, x, q)
<1>1. \A y, z \in Sources : Before(q, y, z) => y # x /\ z # x
  BY ListFacts
<1> QED BY <1>1 DEF Dropped

\* RemoveFirst takes x out of a list.
LEMMA RemoveFirstDrops ==
  ASSUME NEW q \in Seq(Sources), IsInjective(q), NEW x
  PROVE  Dropped(q, x, RemoveFirst(q, x))
<1> DEFINE n == Len(q)  p == RemoveFirst(q, x)
<1>0. n \in Nat /\ DOMAIN q = 1 .. n /\ \A i \in 1 .. n : q[i] \in Sources
  BY ListFacts
<1>1. CASE x \notin Range(q)
  <2>1. p = q
    BY <1>1, ListFacts, Zenon DEF RemoveFirst
  <2> HIDE DEF p
  <2> QED BY <1>1, <2>1, NotDropped DEF p
<1>2. CASE x \in Range(q)
  <2>1. PICK k \in 1 .. n : q[k] = x
    BY <1>2, ListFacts
  <2>2. \A i \in 1 .. n : q[i] = x => i = k
    BY <1>0, <2>1 DEF IsInjective
  <2>3. {i \in 1 .. n : q[i] = x} = {k}
    BY <2>1, <2>2
  <2>4. Min({k}) = k
    BY DEF Min
  <2>5. SelectInSeq(q, LAMBDA v : v = x) = k
    BY <2>3, <2>4, ZenonT(40) DEF SelectInSeq
  <2>6. p = SubSeq(q, 1, k - 1) \o SubSeq(q, k + 1, n)
    BY <2>1, <2>5, Zenon DEF RemoveFirst, RemoveAt
  <2> HIDE DEF p, n
  <2>7. /\ p \in Seq(Sources) /\ Len(p) = n - 1
        /\ \A i \in 1 .. (n - 1) : p[i] = IF i < k THEN q[i] ELSE q[i + 1]
    <3> DEFINE a == SubSeq(q, 1, k - 1)  b == SubSeq(q, k + 1, n)
    <3>1. /\ a \in Seq(Sources) /\ Len(a) = k - 1 /\ \A i \in 1 .. (k - 1) : a[i] = q[i]
      BY <1>0, <2>1 DEF n
    <3>2. /\ b \in Seq(Sources) /\ Len(b) = n - k /\ \A i \in 1 .. (n - k) : b[i] = q[k + i]
      <4>1. n \in Nat /\ k \in 1 .. n /\ n = Len(q)
        BY <1>0, <2>1 DEF n
      <4>2. \A i \in (k + 1) .. n : q[i] \in Sources
        BY <4>1
      <4>3. b \in Seq(Sources)
        BY <4>1, <4>2
      <4>4. Len(b) = n - k
        BY <4>1
      <4>5. \A i \in 1 .. (n - k) : b[i] = q[k + i]
        BY <4>1
      <4> QED BY <4>3, <4>4, <4>5, Zenon
    <3> HIDE DEF a, b
    <3>3. p = a \o b
      BY <2>6 DEF a, b
    <3>7. a \in Seq(Sources) /\ b \in Seq(Sources)
      BY <3>1, <3>2
    <3>4. p \in Seq(Sources) /\ Len(p) = Len(a) + Len(b)
      BY <3>3, <3>7
    <3>6. Len(p) = n - 1
      BY <1>0, <2>1, <3>1, <3>2, <3>4
    <3>5. ASSUME NEW i \in 1 .. (n - 1) PROVE p[i] = IF i < k THEN q[i] ELSE q[i + 1]
      <4>1. CASE i < k
        BY <1>0, <2>1, <3>1, <3>2, <3>3, <4>1
      <4>2. CASE ~(i < k)
        <5>1. p[i] = b[i - (k - 1)]
          BY <1>0, <2>1, <3>1, <3>2, <3>3, <4>2
        <5>2. i - (k - 1) \in 1 .. (n - k) /\ k + (i - (k - 1)) = i + 1
          BY <1>0, <2>1, <4>2
        <5> QED BY <3>2, <4>2, <5>1, <5>2
      <4> QED BY <4>1, <4>2
    <3> QED BY <3>4, <3>5, <3>6
  <2>8. /\ DOMAIN p = 1 .. (n - 1)
        /\ \A y : y \in Range(p) <=> \E i \in 1 .. (n - 1) : p[i] = y
        /\ \A y, z : Before(p, y, z) <=> \E i, j \in 1 .. (n - 1) : i < j /\ p[i] = y /\ p[j] = z
    BY <2>7, ListFacts
  <2>9. /\ \A y : y \in Range(q) <=> \E i \in 1 .. n : q[i] = y
        /\ \A y, z : Before(q, y, z) <=> \E i, j \in 1 .. n : i < j /\ q[i] = y /\ q[j] = z
    BY ListFacts DEF n
  <2>10. IsInjective(p)
    <3> SUFFICES ASSUME NEW i \in 1 .. (n - 1), NEW j \in 1 .. (n - 1), p[i] = p[j]
                 PROVE  i = j
      BY <2>8 DEF IsInjective
    <3>1. \A a, b \in 1 .. n : q[a] = q[b] => a = b
      BY <1>0, Zenon DEF IsInjective
    <3>2. /\ (IF i < k THEN i ELSE i + 1) \in 1 .. n
          /\ (IF j < k THEN j ELSE j + 1) \in 1 .. n
      BY <1>0, <2>1
    <3>3. /\ p[i] = q[IF i < k THEN i ELSE i + 1]
          /\ p[j] = q[IF j < k THEN j ELSE j + 1]
      BY <2>7
    <3>4. (IF i < k THEN i ELSE i + 1) = (IF j < k THEN j ELSE j + 1)
      BY <3>1, <3>2, <3>3, Zenon
    <3> QED BY <1>0, <2>1, <3>4
  \* an index of q other than k, in p
  <2>11. ASSUME NEW i \in 1 .. n, i # k
         PROVE  (IF i < k THEN i ELSE i - 1) \in 1 .. (n - 1)
                /\ p[IF i < k THEN i ELSE i - 1] = q[i]
    BY <1>0, <2>1, <2>7, <2>11
  <2>12. ASSUME NEW y PROVE y \in Range(p) <=> y \in Range(q) /\ y # x
    <3>1. ASSUME y \in Range(p) PROVE y \in Range(q) /\ y # x
      <4>1. PICK i \in 1 .. (n - 1) : p[i] = y
        BY <2>8, <3>1
      <4>2. PICK j \in 1 .. n : q[j] = y /\ j # k
        BY <1>0, <2>1, <2>7, <4>1
      <4> QED BY <2>2, <2>9, <4>2
    <3>2. ASSUME y \in Range(q), y # x PROVE y \in Range(p)
      <4>1. PICK i \in 1 .. n : q[i] = y
        BY <2>9, <3>2
      <4>2. i # k
        BY <2>1, <3>2, <4>1
      <4> QED BY <2>8, <2>11, <4>1, <4>2, Zenon
    <3> QED BY <3>1, <3>2
  <2>13. ASSUME NEW y, NEW z PROVE Before(p, y, z) <=> Before(q, y, z) /\ y # x /\ z # x
    <3>1. ASSUME Before(p, y, z) PROVE Before(q, y, z) /\ y # x /\ z # x
      <4>1. PICK i \in 1 .. (n - 1), j \in 1 .. (n - 1) : i < j /\ p[i] = y /\ p[j] = z
        BY <2>8, <3>1
      <4>2. PICK a \in 1 .. n, b \in 1 .. n : a < b /\ q[a] = y /\ q[b] = z /\ a # k /\ b # k
        <5>1. /\ (IF i < k THEN i ELSE i + 1) \in 1 .. n
              /\ (IF j < k THEN j ELSE j + 1) \in 1 .. n
              /\ (IF i < k THEN i ELSE i + 1) < (IF j < k THEN j ELSE j + 1)
          BY <1>0, <2>1, <4>1
        <5> QED BY <1>0, <2>1, <2>7, <4>1, <5>1
      <4> QED BY <2>2, <2>9, <4>2, Zenon
    <3>2. ASSUME Before(q, y, z), y # x, z # x PROVE Before(p, y, z)
      <4>1. PICK a \in 1 .. n, b \in 1 .. n : a < b /\ q[a] = y /\ q[b] = z
        BY <2>9, <3>2
      <4>2. a # k /\ b # k
        BY <2>1, <3>2, <4>1, Zenon
      <4>3. (IF a < k THEN a ELSE a - 1) < (IF b < k THEN b ELSE b - 1)
        BY <1>0, <2>1, <4>1, <4>2
      <4> QED BY <2>8, <2>11, <4>1, <4>2, <4>3
    <3> QED BY <3>1, <3>2
  <2> QED BY <1>2, <2>7, <2>10, <2>12, <2>13, Zenon DEF Dropped, n, p
<1> QED BY <1>1, <1>2

\* A new source goes in front.
LEMMA FrontAdds ==
  ASSUME NEW q \in Seq(Sources), IsInjective(q), NEW x \in Sources, x \notin Range(q)
  PROVE  Fronted(q, x, <<x>> \o q)
<1> DEFINE n == Len(q)  p == <<x>> \o q
<1>0. n \in Nat /\ DOMAIN q = 1 .. n /\ \A i \in 1 .. n : q[i] \in Sources
  BY ListFacts
<1>1. /\ p \in Seq(Sources) /\ Len(p) = n + 1 /\ p[1] = x
      /\ \A i \in 2 .. (n + 1) : p[i] = q[i - 1]
  BY <1>0
<1> HIDE DEF p, n
<1>2. /\ DOMAIN p = 1 .. (n + 1)
      /\ \A y : y \in Range(p) <=> \E i \in 1 .. (n + 1) : p[i] = y
      /\ \A y, z : Before(p, y, z) <=> \E i, j \in 1 .. (n + 1) : i < j /\ p[i] = y /\ p[j] = z
  <2>1. p \in Seq(Sources) /\ Len(p) = n + 1
    BY <1>1
  <2>2. /\ DOMAIN p = 1 .. Len(p)
        /\ \A y : y \in Range(p) <=> \E i \in 1 .. Len(p) : p[i] = y
        /\ \A y, z : Before(p, y, z) <=> \E i, j \in 1 .. Len(p) : i < j /\ p[i] = y /\ p[j] = z
    BY <2>1, ListFacts, Zenon
  <2> QED BY <2>1, <2>2
<1>3. /\ \A y : y \in Range(q) <=> \E i \in 1 .. n : q[i] = y
      /\ \A y, z : Before(q, y, z) <=> \E i, j \in 1 .. n : i < j /\ q[i] = y /\ q[j] = z
  BY ListFacts DEF n
<1>4. ASSUME NEW i \in 1 .. n PROVE i + 1 \in 1 .. (n + 1) /\ p[i + 1] = q[i]
  BY <1>0, <1>1
<1>5. ASSUME NEW i \in 1 .. (n + 1) PROVE i = 1 \/ (i - 1 \in 1 .. n /\ p[i] = q[i - 1])
  BY <1>0, <1>1
<1>6. IsInjective(p)
  <2> SUFFICES ASSUME NEW i \in 1 .. (n + 1), NEW j \in 1 .. (n + 1), p[i] = p[j]
               PROVE  i = j
    BY <1>2 DEF IsInjective
  <2>1. \A a, b \in 1 .. n : q[a] = q[b] => a = b
    BY <1>0, Zenon DEF IsInjective
  <2>2. CASE i = 1 \/ j = 1
    BY <1>1, <1>3, <1>5, <2>2
  <2>3. CASE i # 1 /\ j # 1
    BY <1>0, <1>5, <2>1, <2>3
  <2> QED BY <2>2, <2>3
<1>7. ASSUME NEW y PROVE y \in Range(p) <=> y \in Range(q) \/ y = x
  <2>1. ASSUME y \in Range(p) PROVE y \in Range(q) \/ y = x
    BY <1>1, <1>2, <1>3, <1>5, <2>1
  <2>2. ASSUME y \in Range(q) PROVE y \in Range(p)
    BY <1>2, <1>3, <1>4, <2>2
  <2>3. x \in Range(p)
    BY <1>0, <1>1, <1>2
  <2> QED BY <2>1, <2>2, <2>3
<1>8. ASSUME NEW y, NEW z PROVE Before(p, y, z) <=> Before(q, y, z) \/ (y = x /\ z \in Range(q))
  <2>1. ASSUME Before(p, y, z) PROVE Before(q, y, z) \/ (y = x /\ z \in Range(q))
    <3>1. PICK i \in 1 .. (n + 1), j \in 1 .. (n + 1) : i < j /\ p[i] = y /\ p[j] = z
      BY <1>2, <2>1
    <3>2. j - 1 \in 1 .. n /\ z = q[j - 1]
      BY <1>0, <1>1, <3>1
    <3>3. CASE i = 1
      BY <1>1, <1>3, <3>1, <3>2, <3>3, Zenon
    <3>4. CASE i # 1
      <4>1. i - 1 \in 1 .. n /\ y = q[i - 1] /\ i - 1 < j - 1
        BY <1>0, <1>1, <3>1, <3>4
      <4> QED BY <1>3, <3>2, <4>1, Zenon
    <3> QED BY <3>3, <3>4
  <2>2. ASSUME Before(q, y, z) PROVE Before(p, y, z)
    <3>1. PICK i \in 1 .. n, j \in 1 .. n : i < j /\ q[i] = y /\ q[j] = z
      BY <1>3, <2>2
    <3> QED BY <1>0, <1>2, <1>4, <3>1
  <2>3. ASSUME z \in Range(q) PROVE Before(p, x, z)
    <3>1. PICK j \in 1 .. n : q[j] = z
      BY <1>3, <2>3
    <3>2. 1 \in 1 .. (n + 1) /\ 1 < j + 1
      BY <1>0
    <3> QED BY <1>1, <1>2, <1>4, <3>1, <3>2, Zenon
  <2> QED BY <2>1, <2>2, <2>3, Zenon
<1> QED BY <1>1, <1>6, <1>7, <1>8 DEF Fronted, n, p

-----------------------------------------------------------------------------
(* The cache.                                                              *)

CacheType ==
  [bound  : [Sources -> Address \cup {Unbound}], authed : [Sources -> BOOLEAN],
   global : [BOOLEAN -> Seq(Sources)], local : [Routes -> [BOOLEAN -> Seq(Sources)]]]

\* The lists hold the cached sources, except those of U.
Listed(C, U) ==
  /\ \A f \in BOOLEAN :
       /\ IsInjective(C.global[f])
       /\ \A y \in Sources :
            y \in Range(C.global[f]) <=> y \notin U /\ C.bound[y] # Unbound /\ C.authed[y] = f
  /\ \A r \in Routes, f \in BOOLEAN :
       /\ IsInjective(C.local[r][f])
       /\ \A y \in Sources :
            y \in Range(C.local[r][f]) <=> y \notin U /\ C.bound[y].route = r /\ C.authed[y] = f
       /\ \A y, z \in Sources : Before(C.local[r][f], y, z) => Before(C.global[f], y, z)

\* D has the bindings of C, except for the source x.
SameBut(C, D, x) ==
  \A y \in Sources : y # x => D.bound[y] = C.bound[y] /\ D.authed[y] = C.authed[y]

\* One if the entry of x is one of route r.
One(C, x, r) == IF C.bound[x].route = r THEN 1 ELSE 0

\* A cached source has an address; the record of an uncached one names no route.
LEMMA Routed ==
  ASSUME NEW C \in CacheType, NEW x \in Sources
  PROVE  /\ C.bound[x] # Unbound => C.bound[x] \in Address /\ C.bound[x].route \in Routes
         /\ C.bound[x] = Unbound => C.bound[x].route \notin Routes
         /\ C.authed[x] \in BOOLEAN
<1>1. C.bound[x] \in Address \cup {Unbound} /\ C.authed[x] \in BOOLEAN
  BY DEF CacheType
<1>2. \A a \in Address : a.route \in Routes
  BY DEF Address
<1>3. Unbound.route \notin Routes
  BY CacheAssumption DEF Unbound
<1> QED BY <1>1, <1>2, <1>3, Zenon

\* The lists of a cache are lists of sources.
LEMMA CacheLists ==
  ASSUME NEW C \in CacheType, NEW f \in BOOLEAN
  PROVE  /\ C.global[f] \in Seq(Sources)
         /\ \A r \in Routes : C.local[r][f] \in Seq(Sources)
BY DEF CacheType

\* The cache with another list for a flag and another one for a route and a flag.
Relisted(C, D, t, a, g, l) ==
  /\ D = [bound |-> C.bound, authed |-> C.authed, global |-> D.global, local |-> D.local]
  /\ D.global = [f \in BOOLEAN |-> IF f = a THEN g ELSE C.global[f]]
  /\ D.local = [r \in Routes |-> [f \in BOOLEAN |-> IF r = t /\ f = a THEN l ELSE C.local[r][f]]]

\* What Unlink and LinkFront change.
LEMMA RelistedFacts ==
  ASSUME NEW C \in CacheType, NEW t \in Routes, NEW a \in BOOLEAN, NEW g, NEW l
  PROVE  Relisted(C, [C EXCEPT !.global[a] = g, !.local[t][a] = l], t, a, g, l)
<1> DEFINE G == [C.global EXCEPT ![a] = g]
           L == [C.local EXCEPT ![t] = [C.local[t] EXCEPT ![a] = l]]
           D == [C EXCEPT !.global[a] = g, !.local[t][a] = l]
<1>1. D = [C EXCEPT !.global = G, !.local = L]
  OBVIOUS
<1>2. D = [bound |-> C.bound, authed |-> C.authed, global |-> G, local |-> L]
  <2>1. C = [bound |-> C.bound, authed |-> C.authed, global |-> C.global, local |-> C.local]
    BY DEF CacheType
  <2> HIDE DEF D, G, L
  <2> QED BY <1>1, <2>1
<1>3. DOMAIN C.global = BOOLEAN /\ DOMAIN C.local = Routes /\ \A r \in Routes : DOMAIN C.local[r] = BOOLEAN
  BY DEF CacheType
<1> HIDE DEF D
<1>4. G = [f \in BOOLEAN |-> IF f = a THEN g ELSE C.global[f]]
  BY <1>3, Zenon
<1>5. L = [r \in Routes |-> [f \in BOOLEAN |-> IF r = t /\ f = a THEN l ELSE C.local[r][f]]]
  <2> DEFINE M == [r \in Routes |-> [f \in BOOLEAN |-> IF r = t /\ f = a THEN l ELSE C.local[r][f]]]
  <2>1. ASSUME NEW r \in Routes PROVE L[r] = M[r]
    <3>1. C.local[r] = [f \in BOOLEAN |-> C.local[r][f]]
      BY DEF CacheType
    <3>2. CASE r = t
      <4>1. L[r] = [C.local[t] EXCEPT ![a] = l]
        BY <1>3, <3>2, Zenon
      <4>2. L[r] = [f \in BOOLEAN |-> IF f = a THEN l ELSE C.local[t][f]]
        BY <1>3, <4>1, Zenon
      <4> QED BY <3>2, <4>2, Zenon
    <3>3. CASE r # t
      <4>1. L[r] = C.local[r]
        BY <1>3, <3>3, Zenon
      <4>2. M[r] = [f \in BOOLEAN |-> C.local[r][f]]
        BY <3>3, Zenon
      <4> QED BY <3>1, <4>1, <4>2, Zenon
    <3> QED BY <3>2, <3>3
  <2>2. L = [r \in Routes |-> L[r]]
    BY <1>3, Zenon
  <2>3. M = [r \in Routes |-> M[r]]
    BY Zenon
  <2> QED BY <2>1, <2>2, <2>3, Zenon
<1>6. D.global = G /\ D.local = L
  <2> HIDE DEF G, L
  <2> QED BY <1>2
<1> HIDE DEF G, L
<1> QED BY <1>2, <1>4, <1>5, <1>6, Zenon DEF Relisted, D

\* The same, list by list.
ListByList(C, D, t, a, g, l) ==
  /\ D \in CacheType /\ D.bound = C.bound /\ D.authed = C.authed
  /\ D.global[a] = g /\ D.local[t][a] = l
  /\ \A f \in BOOLEAN : f # a => D.global[f] = C.global[f]
  /\ \A r \in Routes, f \in BOOLEAN : r # t \/ f # a => D.local[r][f] = C.local[r][f]

\* The lists of a relisted cache, one by one.
LEMMA RelistedLists ==
  ASSUME NEW C \in CacheType, NEW D, NEW t \in Routes, NEW a \in BOOLEAN,
         NEW g \in Seq(Sources), NEW l \in Seq(Sources), Relisted(C, D, t, a, g, l)
  PROVE  ListByList(C, D, t, a, g, l)
<1>1. /\ D = [bound |-> C.bound, authed |-> C.authed, global |-> D.global, local |-> D.local]
      /\ D.global = [f \in BOOLEAN |-> IF f = a THEN g ELSE C.global[f]]
      /\ D.local = [r \in Routes |-> [f \in BOOLEAN |-> IF r = t /\ f = a THEN l ELSE C.local[r][f]]]
  BY Zenon DEF Relisted
<1>2. D.bound = C.bound /\ D.authed = C.authed
  BY <1>1
<1>3. D.global[a] = g /\ \A f \in BOOLEAN : f # a => D.global[f] = C.global[f]
  BY <1>1, ZenonT(60)
<1>4. ASSUME NEW r \in Routes
      PROVE  D.local[r] = [f \in BOOLEAN |-> IF r = t /\ f = a THEN l ELSE C.local[r][f]]
  BY <1>1, Zenon
<1>5. D.local[t][a] = l
  BY <1>4, Zenon
<1>6. \A r \in Routes, f \in BOOLEAN : r # t \/ f # a => D.local[r][f] = C.local[r][f]
  BY <1>4, ZenonT(60)
<1>7. D.global \in [BOOLEAN -> Seq(Sources)]
  BY <1>1, CacheLists, Zenon
<1>8. D.local \in [Routes -> [BOOLEAN -> Seq(Sources)]]
  <2>1. \A r \in Routes, f \in BOOLEAN : (IF r = t /\ f = a THEN l ELSE C.local[r][f]) \in Seq(Sources)
    BY CacheLists, Zenon
  <2>2. ASSUME NEW r \in Routes PROVE D.local[r] \in [BOOLEAN -> Seq(Sources)]
    <3>1. D.local[r] = [f \in BOOLEAN |-> IF r = t /\ f = a THEN l ELSE C.local[r][f]]
      BY <1>4, Zenon
    <3>2. ASSUME NEW f \in BOOLEAN PROVE D.local[r][f] \in Seq(Sources)
      BY <2>1, <3>1, Zenon
    <3>3. D.local[r] = [f \in BOOLEAN |-> D.local[r][f]]
      BY <3>1, Zenon
    <3> QED BY <3>2, <3>3, Zenon
  <2>3. D.local = [r \in Routes |-> D.local[r]]
    BY <1>1, Zenon
  <2> QED BY <2>2, <2>3, Zenon
<1>9. D \in CacheType
  <2> DEFINE G == D.global  L == D.local
  <2>1. C.bound \in [Sources -> Address \cup {Unbound}] /\ C.authed \in [Sources -> BOOLEAN]
    BY DEF CacheType
  <2>2. /\ D = [bound |-> C.bound, authed |-> C.authed, global |-> G, local |-> L]
        /\ G \in [BOOLEAN -> Seq(Sources)] /\ L \in [Routes -> [BOOLEAN -> Seq(Sources)]]
    BY <1>1, <1>7, <1>8, Zenon
  <2> HIDE DEF G, L
  <2> QED BY <2>1, <2>2 DEF CacheType
<1> QED BY <1>2, <1>3, <1>5, <1>6, <1>9, Zenon DEF ListByList

\* Unlink takes the source out of every list.
LEMMA UnlinkDrops ==
  ASSUME NEW C \in CacheType, NEW x \in Sources, C.bound[x] # Unbound, Listed(C, {})
  PROVE  LET D == Unlink(C, x)
         IN  /\ D \in CacheType /\ D.bound = C.bound /\ D.authed = C.authed
             /\ \A f \in BOOLEAN : Dropped(C.global[f], x, D.global[f])
             /\ \A r \in Routes, f \in BOOLEAN : Dropped(C.local[r][f], x, D.local[r][f])
<1> DEFINE a == C.authed[x]  t == C.bound[x].route  D == Unlink(C, x)
           g == RemoveFirst(C.global[a], x)  l == RemoveFirst(C.local[t][a], x)
<1>1. t \in Routes /\ a \in BOOLEAN
  BY Routed
<1>2. /\ \A f \in BOOLEAN : C.global[f] \in Seq(Sources) /\ IsInjective(C.global[f])
      /\ \A r \in Routes, f \in BOOLEAN : C.local[r][f] \in Seq(Sources) /\ IsInjective(C.local[r][f])
  BY CacheLists, Zenon DEF Listed
<1>3. Dropped(C.global[a], x, g) /\ Dropped(C.local[t][a], x, l)
  BY <1>1, <1>2, RemoveFirstDrops, Zenon
<1>4. g \in Seq(Sources) /\ l \in Seq(Sources)
  BY <1>3, Zenon DEF Dropped
<1>5. D = [C EXCEPT !.global[a] = g, !.local[t][a] = l]
  BY DEF Unlink
<1> HIDE DEF D, g, l
<1>6. Relisted(C, D, t, a, g, l)
  BY <1>1, <1>5, RelistedFacts, Zenon
<1>7. /\ D \in CacheType /\ D.bound = C.bound /\ D.authed = C.authed
      /\ D.global[a] = g /\ D.local[t][a] = l
      /\ \A f \in BOOLEAN : f # a => D.global[f] = C.global[f]
      /\ \A r \in Routes, f \in BOOLEAN : r # t \/ f # a => D.local[r][f] = C.local[r][f]
  <2>1. ListByList(C, D, t, a, g, l)
    BY <1>1, <1>4, <1>6, RelistedLists, Zenon
  <2> QED BY <2>1, Zenon DEF ListByList
<1>8. ASSUME NEW f \in BOOLEAN PROVE Dropped(C.global[f], x, D.global[f])
  <2>1. CASE f = a
    BY <1>3, <1>7, <2>1, Zenon
  <2>2. CASE f # a
    <3>1. x \notin Range(C.global[f])
      BY <2>2, Zenon DEF Listed
    <3> QED BY <1>2, <1>7, <2>2, <3>1, NotDropped, Zenon
  <2> QED BY <2>1, <2>2
<1>9. ASSUME NEW r \in Routes, NEW f \in BOOLEAN PROVE Dropped(C.local[r][f], x, D.local[r][f])
  <2>1. CASE r = t /\ f = a
    BY <1>3, <1>7, <2>1, Zenon
  <2>2. CASE r # t \/ f # a
    <3>1. x \notin Range(C.local[r][f])
      BY <2>2, Zenon DEF Listed
    <3> QED BY <1>2, <1>7, <2>2, <3>1, NotDropped, Zenon
  <2> QED BY <2>1, <2>2, Zenon
<1> QED BY <1>7, <1>8, <1>9, Zenon DEF D

\* Unlink takes the source out of the cache's lists; its entry stays.
LEMMA UnlinkListed ==
  ASSUME NEW C \in CacheType, NEW x \in Sources, C.bound[x] # Unbound, Listed(C, {})
  PROVE  LET D == Unlink(C, x)
         IN  /\ D \in CacheType /\ D.bound = C.bound /\ D.authed = C.authed
             /\ Listed(D, {x})
             /\ \A r \in Routes : RouteLen(D, r) = RouteLen(C, r) - One(C, x, r)
<1> DEFINE D == Unlink(C, x)
<1>1. /\ D \in CacheType /\ D.bound = C.bound /\ D.authed = C.authed
      /\ \A f \in BOOLEAN : Dropped(C.global[f], x, D.global[f])
      /\ \A r \in Routes, f \in BOOLEAN : Dropped(C.local[r][f], x, D.local[r][f])
  BY UnlinkDrops, Zenon
<1> HIDE DEF D
<1>2. ASSUME NEW f \in BOOLEAN
      PROVE  /\ IsInjective(D.global[f])
             /\ \A y \in Sources : y \in Range(D.global[f]) <=>
                   y \notin {x} /\ D.bound[y] # Unbound /\ D.authed[y] = f
  <2>1. Dropped(C.global[f], x, D.global[f])
    BY <1>1, Zenon
  <2>2. \A y \in Sources : y \in Range(C.global[f]) <=> C.bound[y] # Unbound /\ C.authed[y] = f
    BY Zenon DEF Listed
  <2> QED BY <1>1, <2>1, <2>2, Zenon DEF Dropped
<1>3. ASSUME NEW r \in Routes, NEW f \in BOOLEAN
      PROVE  /\ IsInjective(D.local[r][f])
             /\ \A y \in Sources : y \in Range(D.local[r][f]) <=>
                   y \notin {x} /\ D.bound[y].route = r /\ D.authed[y] = f
             /\ \A y, z \in Sources : Before(D.local[r][f], y, z) => Before(D.global[f], y, z)
  <2>1. Dropped(C.global[f], x, D.global[f]) /\ Dropped(C.local[r][f], x, D.local[r][f])
    BY <1>1, Zenon
  <2>2. /\ \A y \in Sources : y \in Range(C.local[r][f]) <=> C.bound[y].route = r /\ C.authed[y] = f
        /\ \A y, z \in Sources : Before(C.local[r][f], y, z) => Before(C.global[f], y, z)
    BY Zenon DEF Listed
  <2>3. \A y \in Sources : y \in Range(D.local[r][f]) <=>
                   y \notin {x} /\ D.bound[y].route = r /\ D.authed[y] = f
    BY <1>1, <2>1, <2>2, ZenonT(60) DEF Dropped
  <2> QED BY <2>1, <2>2, <2>3, Zenon DEF Dropped
<1>4. Listed(D, {x})
  BY <1>2, <1>3, Zenon DEF Listed
<1>5. ASSUME NEW r \in Routes PROVE RouteLen(D, r) = RouteLen(C, r) - One(C, x, r)
  <2> DEFINE ct == C.local[r][TRUE]  cf == C.local[r][FALSE]
             dt == D.local[r][TRUE]  df == D.local[r][FALSE]
  <2>1. /\ ct \in Seq(Sources) /\ cf \in Seq(Sources)
        /\ Dropped(ct, x, dt) /\ Dropped(cf, x, df)
    BY <1>1, CacheLists, Zenon
  <2>2. /\ x \in Range(ct) <=> C.bound[x].route = r /\ C.authed[x] = TRUE
        /\ x \in Range(cf) <=> C.bound[x].route = r /\ C.authed[x] = FALSE
    BY Zenon DEF Listed
  <2>3. C.authed[x] = TRUE \/ C.authed[x] = FALSE
    BY Routed, Zenon
  <2>4. RouteLen(D, r) = Len(dt) + Len(df) /\ RouteLen(C, r) = Len(ct) + Len(cf)
    BY Zenon DEF RouteLen
  <2> HIDE DEF ct, cf, dt, df
  <2>5. /\ Len(dt) = IF x \in Range(ct) THEN Len(ct) - 1 ELSE Len(ct)
        /\ Len(df) = IF x \in Range(cf) THEN Len(cf) - 1 ELSE Len(cf)
        /\ Len(ct) \in Nat /\ Len(cf) \in Nat
    BY <2>1, ListFacts DEF Dropped
  <2>6. CASE C.bound[x].route = r
    <3>1. (x \in Range(ct) /\ x \notin Range(cf)) \/ (x \in Range(cf) /\ x \notin Range(ct))
      BY <2>2, <2>3, <2>6, Zenon
    <3>2. One(C, x, r) = 1
      BY <2>6, Zenon DEF One
    <3> DEFINE m == Len(ct)  n == Len(cf)  i == Len(dt)  j == Len(df)
    <3>3. m \in Nat /\ n \in Nat /\ ((i = m - 1 /\ j = n) \/ (i = m /\ j = n - 1))
      BY <2>5, <3>1, Zenon
    <3>4. RouteLen(D, r) = i + j /\ RouteLen(C, r) = m + n
      BY <2>4, Zenon
    <3> HIDE DEF m, n, i, j
    <3> QED BY <3>2, <3>3, <3>4
  <2>7. CASE C.bound[x].route # r
    <3>1. x \notin Range(ct) /\ x \notin Range(cf)
      BY <2>2, <2>7, Zenon
    <3>2. One(C, x, r) = 0
      BY <2>7, Zenon DEF One
    <3> QED BY <2>4, <2>5, <3>1, <3>2
  <2> QED BY <2>6, <2>7
<1> QED BY <1>1, <1>4, <1>5, Zenon DEF D

\* An entry that is in no list may change.
LEMMA Retagged ==
  ASSUME NEW C \in CacheType, NEW D \in CacheType, NEW x, Listed(C, {x}),
         D.global = C.global, D.local = C.local, SameBut(C, D, x)
  PROVE  Listed(D, {x}) /\ \A r \in Routes : RouteLen(D, r) = RouteLen(C, r)
<1>1. ASSUME NEW f \in BOOLEAN
      PROVE  /\ IsInjective(D.global[f])
             /\ \A y \in Sources : y \in Range(D.global[f]) <=>
                   y \notin {x} /\ D.bound[y] # Unbound /\ D.authed[y] = f
  BY Zenon DEF Listed, SameBut
<1>2. ASSUME NEW r \in Routes, NEW f \in BOOLEAN
      PROVE  /\ IsInjective(D.local[r][f])
             /\ \A y \in Sources : y \in Range(D.local[r][f]) <=>
                   y \notin {x} /\ D.bound[y].route = r /\ D.authed[y] = f
             /\ \A y, z \in Sources : Before(D.local[r][f], y, z) => Before(D.global[f], y, z)
  <2>1. /\ IsInjective(C.local[r][f])
        /\ \A y \in Sources : y \in Range(C.local[r][f]) <=>
              y \notin {x} /\ C.bound[y].route = r /\ C.authed[y] = f
        /\ \A y, z \in Sources : Before(C.local[r][f], y, z) => Before(C.global[f], y, z)
    BY ZenonT(60) DEF Listed
  <2>2. \A y \in Sources : y \in Range(D.local[r][f]) <=>
              y \notin {x} /\ D.bound[y].route = r /\ D.authed[y] = f
    BY <2>1, Zenon DEF SameBut
  <2> QED BY <2>1, <2>2, Zenon
<1>3. Listed(D, {x})
  BY <1>1, <1>2, Zenon DEF Listed
<1> QED BY <1>3, Zenon DEF RouteLen

\* An uncached source is in no list.
LEMMA UncachedListed ==
  ASSUME NEW C \in CacheType, NEW x \in Sources, C.bound[x] = Unbound
  PROVE  Listed(C, {}) <=> Listed(C, {x})
<1>1. \A r \in Routes : C.bound[x].route # r
  BY Routed, Zenon
<1>2. ASSUME NEW y \in Sources, NEW f
      PROVE  (y \notin {} /\ C.bound[y] # Unbound /\ C.authed[y] = f)
               <=> (y \notin {x} /\ C.bound[y] # Unbound /\ C.authed[y] = f)
  BY Zenon
<1>3. ASSUME NEW y \in Sources, NEW r \in Routes, NEW f
      PROVE  (y \notin {} /\ C.bound[y].route = r /\ C.authed[y] = f)
               <=> (y \notin {x} /\ C.bound[y].route = r /\ C.authed[y] = f)
  BY <1>1, Zenon
<1>4. ASSUME Listed(C, {}) PROVE Listed(C, {x})
  <2>1. ASSUME NEW f \in BOOLEAN
        PROVE  /\ IsInjective(C.global[f])
               /\ \A y \in Sources : y \in Range(C.global[f]) <=>
                     y \notin {x} /\ C.bound[y] # Unbound /\ C.authed[y] = f
    BY <1>2, <1>4, Zenon DEF Listed
  <2>2. ASSUME NEW r \in Routes, NEW f \in BOOLEAN
        PROVE  /\ IsInjective(C.local[r][f])
               /\ \A y \in Sources : y \in Range(C.local[r][f]) <=>
                     y \notin {x} /\ C.bound[y].route = r /\ C.authed[y] = f
               /\ \A y, z \in Sources : Before(C.local[r][f], y, z) => Before(C.global[f], y, z)
    <3>1. /\ IsInjective(C.local[r][f])
          /\ \A y \in Sources : y \in Range(C.local[r][f]) <=>
                y \notin {} /\ C.bound[y].route = r /\ C.authed[y] = f
          /\ \A y, z \in Sources : Before(C.local[r][f], y, z) => Before(C.global[f], y, z)
      BY <1>4, Zenon DEF Listed
    <3>2. \A y \in Sources : y \in Range(C.local[r][f]) <=>
                y \notin {x} /\ C.bound[y].route = r /\ C.authed[y] = f
      BY <1>3, <3>1, Zenon
    <3> QED BY <3>1, <3>2, Zenon
  <2> QED BY <2>1, <2>2, Zenon DEF Listed
<1>5. ASSUME Listed(C, {x}) PROVE Listed(C, {})
  <2>1. ASSUME NEW f \in BOOLEAN
        PROVE  /\ IsInjective(C.global[f])
               /\ \A y \in Sources : y \in Range(C.global[f]) <=>
                     y \notin {} /\ C.bound[y] # Unbound /\ C.authed[y] = f
    BY <1>2, <1>5, Zenon DEF Listed
  <2>2. ASSUME NEW r \in Routes, NEW f \in BOOLEAN
        PROVE  /\ IsInjective(C.local[r][f])
               /\ \A y \in Sources : y \in Range(C.local[r][f]) <=>
                     y \notin {} /\ C.bound[y].route = r /\ C.authed[y] = f
               /\ \A y, z \in Sources : Before(C.local[r][f], y, z) => Before(C.global[f], y, z)
    <3>1. /\ IsInjective(C.local[r][f])
          /\ \A y \in Sources : y \in Range(C.local[r][f]) <=>
                y \notin {x} /\ C.bound[y].route = r /\ C.authed[y] = f
          /\ \A y, z \in Sources : Before(C.local[r][f], y, z) => Before(C.global[f], y, z)
      BY <1>5, Zenon DEF Listed
    <3>2. \A y \in Sources : y \in Range(C.local[r][f]) <=>
                y \notin {} /\ C.bound[y].route = r /\ C.authed[y] = f
      BY <1>3, <3>1, Zenon
    <3> QED BY <3>1, <3>2, Zenon
  <2> QED BY <2>1, <2>2, Zenon DEF Listed
<1> QED BY <1>4, <1>5

\* LinkFront puts the source into the lists of its entry.
LEMMA LinkListed ==
  ASSUME NEW C \in CacheType, NEW x \in Sources, C.bound[x] # Unbound, Listed(C, {x})
  PROVE  LET D == LinkFront(C, x)
         IN  /\ D \in CacheType /\ D.bound = C.bound /\ D.authed = C.authed
             /\ Listed(D, {})
             /\ \A r \in Routes : RouteLen(D, r) = RouteLen(C, r) + One(C, x, r)
<1> DEFINE a == C.authed[x]  t == C.bound[x].route  D == LinkFront(C, x)
           g == <<x>> \o C.global[a]  l == <<x>> \o C.local[t][a]
<1>1. t \in Routes /\ a \in BOOLEAN
  BY Routed
<1>2. /\ \A f \in BOOLEAN : C.global[f] \in Seq(Sources) /\ IsInjective(C.global[f])
                            /\ x \notin Range(C.global[f])
      /\ \A r \in Routes, f \in BOOLEAN : C.local[r][f] \in Seq(Sources) /\ IsInjective(C.local[r][f])
                                          /\ x \notin Range(C.local[r][f])
  BY CacheLists, Zenon DEF Listed
<1>3. Fronted(C.global[a], x, g) /\ Fronted(C.local[t][a], x, l)
  BY <1>1, <1>2, FrontAdds, Zenon
<1>4. g \in Seq(Sources) /\ l \in Seq(Sources)
  BY <1>3, Zenon DEF Fronted
<1>5. D = [C EXCEPT !.global[a] = g, !.local[t][a] = l]
  BY DEF LinkFront
<1> HIDE DEF D, g, l
<1>6. Relisted(C, D, t, a, g, l)
  BY <1>1, <1>5, RelistedFacts, Zenon
<1>7. ListByList(C, D, t, a, g, l)
  BY <1>1, <1>4, <1>6, RelistedLists, Zenon
<1>8. /\ D \in CacheType /\ D.bound = C.bound /\ D.authed = C.authed
      /\ D.global[a] = g /\ D.local[t][a] = l
      /\ \A f \in BOOLEAN : f # a => D.global[f] = C.global[f]
      /\ \A r \in Routes, f \in BOOLEAN : r # t \/ f # a => D.local[r][f] = C.local[r][f]
  BY <1>7, Zenon DEF ListByList
<1>9. ASSUME NEW f \in BOOLEAN
      PROVE  /\ IsInjective(D.global[f])
             /\ \A y \in Sources : y \in Range(D.global[f]) <=>
                   y \notin {} /\ D.bound[y] # Unbound /\ D.authed[y] = f
             /\ \A y, z \in Sources : Before(C.global[f], y, z) => Before(D.global[f], y, z)
  <2>1. \A y \in Sources : y \in Range(C.global[f]) <=>
                             y \notin {x} /\ C.bound[y] # Unbound /\ C.authed[y] = f
    BY Zenon DEF Listed
  <2>2. CASE f = a
    <3>1. Fronted(C.global[f], x, D.global[f])
      BY <1>3, <1>8, <2>2, Zenon
    <3>2. \A y \in Sources : y \in Range(D.global[f]) <=> D.bound[y] # Unbound /\ D.authed[y] = f
      BY <1>8, <2>1, <2>2, <3>1, Zenon DEF Fronted
    <3> QED BY <3>1, <3>2, Zenon DEF Fronted
  <2>3. CASE f # a
    <3>1. D.global[f] = C.global[f]
      BY <1>8, <2>3, Zenon
    <3>2. \A y \in Sources : y \in Range(D.global[f]) <=> D.bound[y] # Unbound /\ D.authed[y] = f
      BY <1>8, <2>1, <2>3, <3>1, Zenon
    <3> QED BY <1>2, <3>1, <3>2, Zenon
  <2> QED BY <2>2, <2>3, Zenon
<1>10. ASSUME NEW r \in Routes, NEW f \in BOOLEAN
      PROVE  /\ IsInjective(D.local[r][f])
             /\ \A y \in Sources : y \in Range(D.local[r][f]) <=>
                   y \notin {} /\ D.bound[y].route = r /\ D.authed[y] = f
             /\ \A y, z \in Sources : Before(D.local[r][f], y, z) => Before(D.global[f], y, z)
  <2>1. /\ \A y \in Sources : y \in Range(C.local[r][f]) <=>
                             y \notin {x} /\ C.bound[y].route = r /\ C.authed[y] = f
        /\ \A y, z \in Sources : Before(C.local[r][f], y, z) => Before(C.global[f], y, z)
    BY Zenon DEF Listed
  <2>2. CASE r = t /\ f = a
    <3>1. Fronted(C.local[r][f], x, D.local[r][f]) /\ Fronted(C.global[f], x, D.global[f])
      BY <1>3, <1>8, <2>2, Zenon
    <3>2. \A y \in Sources : y \in Range(D.local[r][f]) <=> D.bound[y].route = r /\ D.authed[y] = f
      BY <1>8, <2>1, <2>2, <3>1, ZenonT(60) DEF Fronted
    <3>3. \A z \in Sources : z \in Range(C.local[r][f]) => z \in Range(C.global[f])
      <4>1. \A z \in Sources : C.bound[z].route = r => C.bound[z] # Unbound
        BY Routed, Zenon
      <4>2. \A y \in Sources : y \in Range(C.global[f]) <=>
                             y \notin {x} /\ C.bound[y] # Unbound /\ C.authed[y] = f
        BY Zenon DEF Listed
      <4> QED BY <2>1, <4>1, <4>2, Zenon
    <3>4. \A y, z \in Sources : Before(D.local[r][f], y, z) => Before(D.global[f], y, z)
      BY <2>1, <3>1, <3>3, Zenon DEF Fronted
    <3>5. IsInjective(D.local[r][f])
      BY <3>1, Zenon DEF Fronted
    <3> QED BY <3>2, <3>4, <3>5, Zenon
  <2>3. CASE r # t \/ f # a
    <3>1. D.local[r][f] = C.local[r][f]
      BY <1>8, <2>3, Zenon
    <3>2. \A y \in Sources : y \in Range(D.local[r][f]) <=> D.bound[y].route = r /\ D.authed[y] = f
      BY <1>8, <2>1, <2>3, <3>1, Zenon
    <3>3. \A y, z \in Sources : Before(D.local[r][f], y, z) => Before(D.global[f], y, z)
      BY <1>9, <2>1, <3>1, Zenon
    <3> QED BY <1>2, <3>1, <3>2, <3>3, Zenon
  <2> QED BY <2>2, <2>3, Zenon
<1>11. Listed(D, {})
  BY <1>9, <1>10, Zenon DEF Listed
<1>12. ASSUME NEW r \in Routes PROVE RouteLen(D, r) = RouteLen(C, r) + One(C, x, r)
  <2> DEFINE ct == C.local[r][TRUE]  cf == C.local[r][FALSE]
             dt == D.local[r][TRUE]  df == D.local[r][FALSE]
  <2>1. Len(ct) \in Nat /\ Len(cf) \in Nat
    <3>1. ct \in Seq(Sources) /\ cf \in Seq(Sources)
      BY CacheLists, Zenon
    <3> HIDE DEF ct, cf
    <3> QED BY <3>1
  <2>2. RouteLen(D, r) = Len(dt) + Len(df) /\ RouteLen(C, r) = Len(ct) + Len(cf)
    BY Zenon DEF RouteLen
  <2>3. CASE r = t
    <3>1. One(C, x, r) = 1
      BY <2>3, Zenon DEF One
    <3>2. CASE a = TRUE
      <4>1. Fronted(ct, x, dt) /\ df = cf
        BY <1>3, <1>8, <2>3, <3>2, Zenon
      <4> HIDE DEF ct, cf, dt, df
      <4>2. Len(dt) = Len(ct) + 1
        BY <4>1, Zenon DEF Fronted
      <4> QED BY <2>1, <2>2, <3>1, <4>1, <4>2
    <3>3. CASE a = FALSE
      <4>1. Fronted(cf, x, df) /\ dt = ct
        BY <1>3, <1>8, <2>3, <3>3, Zenon
      <4> HIDE DEF ct, cf, dt, df
      <4>2. Len(df) = Len(cf) + 1
        BY <4>1, Zenon DEF Fronted
      <4> QED BY <2>1, <2>2, <3>1, <4>1, <4>2
    <3> QED BY <1>1, <3>2, <3>3, Zenon
  <2>4. CASE r # t
    <3>1. One(C, x, r) = 0
      BY <2>4, Zenon DEF One
    <3>2. dt = ct /\ df = cf
      BY <1>8, <2>4, Zenon
    <3> HIDE DEF ct, cf, dt, df
    <3> QED BY <2>1, <2>2, <3>1, <3>2
  <2> QED BY <2>3, <2>4
<1> QED BY <1>8, <1>11, <1>12, Zenon DEF D

-----------------------------------------------------------------------------
(* The operations.                                                         *)

\* The inductive invariant of the cache but for its limits.
Sane(C) ==
  /\ C \in CacheType /\ Listed(C, {}) /\ IsFiniteSet(Cached(C))
  /\ \A y \in Sources : C.bound[y] = Unbound => ~C.authed[y]

\* Its limits.
Bounded(C) ==
  /\ Size(C) <= MaxEntries
  /\ \A r \in Routes : RouteLen(C, r) <= MaxPerRoute

\* A cache with other entries in the same lists.
Tagged(U, E, x) ==
  /\ E \in CacheType /\ E.global = U.global /\ E.local = U.local /\ SameBut(U, E, x)

\* The entry of x is the address a with flag b.
Retag(U, E, x, a, b) == Tagged(U, E, x) /\ E.bound[x] = a /\ E.authed[x] = b

\* D caches the sources of C, with as many for each route.
Alike(C, D) ==
  /\ Sane(D) /\ Cached(D) = Cached(C)
  /\ \A r \in Routes : RouteLen(D, r) = RouteLen(C, r)

\* D is C without the entry of x.
Gone(C, D, x) ==
  /\ Sane(D) /\ SameBut(C, D, x) /\ D.bound[x] = Unbound
  /\ \A r \in Routes : RouteLen(D, r) = RouteLen(C, r) - One(C, x, r)

\* The length of a route's lists is a number.
LEMMA RouteLenNat ==
  ASSUME NEW C \in CacheType, NEW r \in Routes
  PROVE  RouteLen(C, r) \in Nat
<1> DEFINE ct == C.local[r][TRUE]  cf == C.local[r][FALSE]
<1>1. ct \in Seq(Sources) /\ cf \in Seq(Sources) /\ RouteLen(C, r) = Len(ct) + Len(cf)
  BY CacheLists, Zenon DEF RouteLen
<1> HIDE DEF ct, cf
<1> QED BY <1>1

\* A source that is unlinked, given another entry of its route and linked again.
LEMMA Relinked ==
  ASSUME NEW C, Sane(C), NEW x \in Sources, C.bound[x] # Unbound,
         NEW E, Tagged(Unlink(C, x), E, x),
         E.bound[x] # Unbound, E.bound[x].route = C.bound[x].route
  PROVE  LET D == LinkFront(E, x)
         IN  Alike(C, D) /\ D.bound = E.bound /\ D.authed = E.authed
<1> DEFINE U == Unlink(C, x)  D == LinkFront(E, x)
<1>1. C \in CacheType /\ Listed(C, {})
  BY Zenon DEF Sane
<1>2. /\ U \in CacheType /\ U.bound = C.bound /\ U.authed = C.authed /\ Listed(U, {x})
      /\ \A r \in Routes : RouteLen(U, r) = RouteLen(C, r) - One(C, x, r)
  BY <1>1, UnlinkListed, Zenon
<1> HIDE DEF U
<1>3. E \in CacheType /\ E.global = U.global /\ E.local = U.local /\ SameBut(U, E, x)
  BY Zenon DEF Tagged, U
<1>4. Listed(E, {x}) /\ \A r \in Routes : RouteLen(E, r) = RouteLen(U, r)
  BY <1>2, <1>3, Retagged, Zenon
<1>5. /\ D \in CacheType /\ D.bound = E.bound /\ D.authed = E.authed /\ Listed(D, {})
      /\ \A r \in Routes : RouteLen(D, r) = RouteLen(E, r) + One(E, x, r)
  BY <1>3, <1>4, LinkListed, Zenon
<1> HIDE DEF D
<1>6. \A y \in Sources : D.bound[y] = Unbound <=> C.bound[y] = Unbound
  BY <1>2, <1>3, <1>5, Zenon DEF SameBut
<1>7. Cached(D) = Cached(C)
  BY <1>6, Zenon DEF Cached
<1>8. \A y \in Sources : D.bound[y] = Unbound => ~D.authed[y]
  <2>1. \A y \in Sources : y # x => D.authed[y] = C.authed[y]
    BY <1>2, <1>3, <1>5, Zenon DEF SameBut
  <2> QED BY <1>5, <1>6, <2>1, Zenon DEF Sane
<1>9. ASSUME NEW r \in Routes PROVE RouteLen(D, r) = RouteLen(C, r)
  <2>1. One(E, x, r) = One(C, x, r)
    BY Zenon DEF One
  <2>2. One(C, x, r) \in Nat /\ RouteLen(C, r) \in Nat
    BY <1>1, RouteLenNat DEF One
  <2>3. RouteLen(D, r) = (RouteLen(C, r) - One(C, x, r)) + One(C, x, r)
    BY <1>2, <1>4, <1>5, <2>1, Zenon
  <2> QED BY <2>2, <2>3
<1> QED BY <1>5, <1>7, <1>8, <1>9, Zenon DEF Alike, Sane, D

\* The fields of a cache with another entry for a source.
LEMMA Entry ==
  ASSUME NEW U \in CacheType, NEW x \in Sources,
         NEW a \in Address \cup {Unbound}, NEW b \in BOOLEAN
  PROVE  Retag(U, [U EXCEPT !.bound[x] = a, !.authed[x] = b], x, a, b)
<1> DEFINE B == [U.bound EXCEPT ![x] = a]  A == [U.authed EXCEPT ![x] = b]
           E == [U EXCEPT !.bound[x] = a, !.authed[x] = b]
<1>1. /\ U.bound \in [Sources -> Address \cup {Unbound}] /\ U.authed \in [Sources -> BOOLEAN]
      /\ U.global \in [BOOLEAN -> Seq(Sources)] /\ U.local \in [Routes -> [BOOLEAN -> Seq(Sources)]]
      /\ U = [bound |-> U.bound, authed |-> U.authed, global |-> U.global, local |-> U.local]
  BY DEF CacheType
<1>2. E = [U EXCEPT !.bound = B, !.authed = A]
  OBVIOUS
<1> HIDE DEF E
<1>3. /\ B \in [Sources -> Address \cup {Unbound}] /\ B[x] = a
      /\ \A y \in Sources : y # x => B[y] = U.bound[y]
  BY <1>1, Zenon
<1>4. /\ A \in [Sources -> BOOLEAN] /\ A[x] = b
      /\ \A y \in Sources : y # x => A[y] = U.authed[y]
  BY <1>1, Zenon
<1> HIDE DEF A, B
<1>5. E = [bound |-> B, authed |-> A, global |-> U.global, local |-> U.local]
  BY <1>1, <1>2
<1>6. E.bound = B /\ E.authed = A /\ E.global = U.global /\ E.local = U.local
  BY <1>5
<1>7. E \in CacheType
  BY <1>1, <1>3, <1>4, <1>5 DEF CacheType
<1> QED BY <1>3, <1>4, <1>6, <1>7, Zenon DEF Retag, Tagged, SameBut, E

\* RemoveEntry removes the entry, and nothing else.
LEMMA RemoveEntryFacts ==
  ASSUME NEW C, Sane(C), NEW x \in Sources
  PROVE  Gone(C, RemoveEntry(C, x), x)
<1>0. C \in CacheType /\ Listed(C, {})
  BY Zenon DEF Sane
<1>1. CASE C.bound[x] = Unbound
  <2>1. RemoveEntry(C, x) = C
    BY <1>1, Zenon DEF RemoveEntry
  <2>4. C.bound[x].route \notin Routes
    BY <1>0, <1>1, Routed, Zenon
  <2>2. \A r \in Routes : One(C, x, r) = 0
    BY <2>4, Zenon DEF One
  <2>3. \A r \in Routes : RouteLen(C, r) = RouteLen(C, r) - One(C, x, r)
    BY <1>0, <2>2, RouteLenNat
  <2> QED BY <1>1, <2>1, <2>3, Zenon DEF Gone, SameBut
<1>2. CASE C.bound[x] # Unbound
  <2> DEFINE U == Unlink(C, x)  E == [U EXCEPT !.bound[x] = Unbound, !.authed[x] = FALSE]
  <2>1. RemoveEntry(C, x) = E
    BY <1>2, Zenon DEF RemoveEntry
  <2>2. /\ U \in CacheType /\ U.bound = C.bound /\ U.authed = C.authed /\ Listed(U, {x})
        /\ \A r \in Routes : RouteLen(U, r) = RouteLen(C, r) - One(C, x, r)
    BY <1>0, <1>2, UnlinkListed, Zenon
  <2> HIDE DEF U
  <2>3. Unbound \in Address \cup {Unbound} /\ FALSE \in BOOLEAN
    OBVIOUS
  <2>4. Tagged(U, E, x) /\ E.bound[x] = Unbound /\ E.authed[x] = FALSE
    <3>1. Retag(U, E, x, Unbound, FALSE)
      BY <2>2, <2>3, Entry
    <3> QED BY <3>1, ZenonT(60) DEF Retag
  <2> HIDE DEF E
  <2>5. E \in CacheType /\ E.global = U.global /\ E.local = U.local /\ SameBut(U, E, x)
    BY <2>4, Zenon DEF Tagged
  <2>6. Listed(E, {x}) /\ \A r \in Routes : RouteLen(E, r) = RouteLen(U, r)
    BY <2>2, <2>5, Retagged, Zenon
  <2>7. Listed(E, {})
    BY <2>4, <2>5, <2>6, UncachedListed, Zenon
  <2>8. SameBut(C, E, x)
    BY <2>2, <2>5, Zenon DEF SameBut
  <2>9. \A y \in Sources : E.bound[y] = Unbound => ~E.authed[y]
    BY <2>4, <2>8, Zenon DEF SameBut, Sane
  <2>10. Cached(E) \subseteq Cached(C)
    BY <2>4, <2>8, Zenon DEF SameBut, Cached
  <2>11. IsFiniteSet(Cached(E))
    BY <2>10, FS_Subset, Zenon DEF Sane
  <2>12. \A r \in Routes : RouteLen(E, r) = RouteLen(C, r) - One(C, x, r)
    BY <2>2, <2>6, Zenon
  <2>13. Sane(E)
    BY <2>5, <2>7, <2>9, <2>11, Zenon DEF Sane
  <2> QED BY <2>1, <2>4, <2>8, <2>12, <2>13, Zenon DEF Gone
<1> QED BY <1>1, <1>2

\* An entry less.
LEMMA GoneSize ==
  ASSUME NEW C, Sane(C), NEW x \in Cached(C), NEW D, Gone(C, D, x)
  PROVE  Size(D) = Size(C) - 1 /\ Size(C) \in Nat
<1>1. Cached(D) = Cached(C) \ {x}
  BY Zenon DEF Gone, SameBut, Cached
<1>2. IsFiniteSet(Cached(C))
  BY Zenon DEF Sane
<1>3. Cardinality(Cached(C) \ {x}) = Cardinality(Cached(C)) - 1 /\ Cardinality(Cached(C)) \in Nat
  BY <1>2, FS_RemoveElement, FS_CardinalityType
<1> QED BY <1>1, <1>3, Zenon DEF Size

\* Without an entry there is no more room needed.
LEMMA GoneBounded ==
  ASSUME NEW C, Sane(C), Bounded(C), NEW x \in Sources, NEW D, Gone(C, D, x)
  PROVE  Bounded(D)
<1>1. CASE x \in Cached(C)
  <2>1. Size(D) = Size(C) - 1 /\ Size(C) \in Nat
    BY <1>1, GoneSize, Zenon
  <2>2. Size(D) <= MaxEntries
    BY <2>1, CacheAssumption DEF Bounded
  <2>3. ASSUME NEW r \in Routes PROVE RouteLen(D, r) <= MaxPerRoute
    <3>1. RouteLen(D, r) = RouteLen(C, r) - One(C, x, r) /\ RouteLen(C, r) \in Nat
          /\ RouteLen(C, r) <= MaxPerRoute
      BY RouteLenNat, Zenon DEF Gone, Bounded, Sane
    <3>2. One(C, x, r) \in Nat
      BY DEF One
    <3> QED BY <3>1, <3>2, CacheAssumption
  <2> QED BY <2>2, <2>3, Zenon DEF Bounded
<1>2. CASE x \notin Cached(C)
  <2>1. C.bound[x] = Unbound
    BY <1>2, Zenon DEF Cached
  <2>2. Cached(D) = Cached(C)
    BY <2>1, Zenon DEF Gone, SameBut, Cached
  <2>3. ASSUME NEW r \in Routes PROVE RouteLen(D, r) <= MaxPerRoute
    <3>1. RouteLen(D, r) = RouteLen(C, r) - One(C, x, r) /\ RouteLen(C, r) \in Nat
          /\ RouteLen(C, r) <= MaxPerRoute
      BY RouteLenNat, Zenon DEF Gone, Bounded, Sane
    <3>2. One(C, x, r) \in Nat
      BY DEF One
    <3> QED BY <3>1, <3>2, CacheAssumption
  <2> QED BY <2>2, <2>3, Zenon DEF Bounded, Size
<1> QED BY <1>1, <1>2

\* The last member of a list is a member.
LEMMA LastIn ==
  ASSUME NEW q \in Seq(Sources), q # <<>>
  PROVE  Last(q) \in Sources /\ Last(q) \in Range(q)
<1>1. Len(q) \in 1 .. Len(q)
  OBVIOUS
<1>2. Last(q) = q[Len(q)]
  BY Zenon DEF Last
<1> QED BY <1>1, <1>2, ListFacts

\* The victim is the least recent source without authentication, if there is one.
LEMMA VictimFacts ==
  ASSUME NEW q, q[TRUE] \in Seq(Sources), q[FALSE] \in Seq(Sources),
         q[TRUE] # <<>> \/ q[FALSE] # <<>>
  PROVE  /\ Victim(q) \in Sources
         /\ \/ Victim(q) \in Range(q[FALSE])
            \/ Victim(q) \in Range(q[TRUE]) /\ q[FALSE] = <<>>
<1>1. CASE q[FALSE] # <<>>
  <2>1. Victim(q) = Last(q[FALSE])
    BY <1>1, Zenon DEF Victim
  <2> QED BY <1>1, <2>1, LastIn, Zenon
<1>2. CASE q[FALSE] = <<>>
  <2>1. Victim(q) = Last(q[TRUE]) /\ q[TRUE] # <<>>
    BY <1>2, Zenon DEF Victim
  <2> QED BY <1>2, <2>1, LastIn, Zenon
<1> QED BY <1>1, <1>2, Zenon

\* An empty list has no members.
LEMMA EmptyRange == ASSUME NEW y PROVE y \notin Range(<<>>)
<1>1. DOMAIN <<>> = {}
  OBVIOUS
<1> QED BY <1>1, Zenon DEF Range

\* What an eviction among the sources of S does.
Evicted(C, D, S) ==
  \/ D = C
  \/ \E v \in Cached(C) \cap S :
       Gone(C, D, v) /\ (C.authed[v] => \A y \in Cached(C) \cap S : C.authed[y])

\* evict_global makes room for an entry.
LEMMA EvictGlobalFacts ==
  ASSUME NEW C, Sane(C), Bounded(C)
  PROVE  Evicted(C, EvictGlobal(C), Sources) /\ Size(EvictGlobal(C)) < MaxEntries
<1>1. C \in CacheType /\ Listed(C, {}) /\ IsFiniteSet(Cached(C))
  BY Zenon DEF Sane
<1>2. Size(C) \in Nat /\ Size(C) <= MaxEntries
  BY <1>1, FS_CardinalityType, Zenon DEF Size, Bounded
<1>3. CASE ~(Size(C) >= MaxEntries)
  <2>1. EvictGlobal(C) = C
    BY <1>3, Zenon DEF EvictGlobal
  <2>2. Size(C) < MaxEntries
    BY <1>2, <1>3, CacheAssumption
  <2> QED BY <2>1, <2>2, Zenon DEF Evicted
<1>4. CASE Size(C) >= MaxEntries
  <2> DEFINE v == Victim(C.global)
  <2>1. EvictGlobal(C) = RemoveEntry(C, v)
    BY <1>4, Zenon DEF EvictGlobal
  <2>2. C.global[TRUE] \in Seq(Sources) /\ C.global[FALSE] \in Seq(Sources)
    BY <1>1, CacheLists, Zenon
  <2>3. /\ \A y \in Sources : y \in Range(C.global[TRUE]) <=> C.bound[y] # Unbound /\ C.authed[y] = TRUE
        /\ \A y \in Sources : y \in Range(C.global[FALSE]) <=> C.bound[y] # Unbound /\ C.authed[y] = FALSE
    BY <1>1, Zenon DEF Listed
  <2>4. PICK u : u \in Cached(C)
    <3>1. Cardinality(Cached(C)) # 0
      BY <1>2, <1>4, CacheAssumption DEF Size
    <3> QED BY <1>1, <3>1, FS_EmptySet, Zenon
  <2>5. u \in Sources /\ C.bound[u] # Unbound /\ (C.authed[u] = TRUE \/ C.authed[u] = FALSE)
    BY <1>1, <2>4, Routed, Zenon DEF Cached
  <2>6. C.global[TRUE] # <<>> \/ C.global[FALSE] # <<>>
    BY <2>3, <2>5, EmptyRange, Zenon
  <2>7. /\ v \in Sources
        /\ v \in Range(C.global[FALSE]) \/ (v \in Range(C.global[TRUE]) /\ C.global[FALSE] = <<>>)
    BY <2>2, <2>6, VictimFacts, Zenon
  <2> HIDE DEF v
  <2>8. v \in Cached(C)
    BY <2>3, <2>7, Zenon DEF Cached
  <2>9. ASSUME C.authed[v], NEW y \in Cached(C) PROVE C.authed[y]
    <3>1. C.global[FALSE] = <<>>
      BY <2>3, <2>7, <2>9, Zenon
    <3>2. y \in Sources /\ C.bound[y] # Unbound /\ (C.authed[y] = TRUE \/ C.authed[y] = FALSE)
      BY <1>1, <2>9, Routed, Zenon DEF Cached
    <3> QED BY <2>3, <3>1, <3>2, EmptyRange, Zenon
  <2>10. Gone(C, RemoveEntry(C, v), v)
    BY <2>7, RemoveEntryFacts, Zenon
  <2>11. Size(RemoveEntry(C, v)) = Size(C) - 1
    BY <2>8, <2>10, GoneSize, Zenon
  <2>12. Size(RemoveEntry(C, v)) < MaxEntries
    BY <1>2, <2>11, CacheAssumption
  <2> QED BY <2>1, <2>7, <2>8, <2>9, <2>10, <2>12, Zenon DEF Evicted
<1> QED BY <1>3, <1>4

\* evict_route makes room for an entry of the route.
LEMMA EvictRouteFacts ==
  ASSUME NEW C, Sane(C), Bounded(C), NEW r \in Routes
  PROVE  /\ Evicted(C, EvictRoute(C, r), {y \in Sources : C.bound[y].route = r})
         /\ RouteLen(EvictRoute(C, r), r) < MaxPerRoute
<1> DEFINE S == {y \in Sources : C.bound[y].route = r}  q == C.local[r]
<1>1. C \in CacheType /\ Listed(C, {})
  BY Zenon DEF Sane
<1>2. RouteLen(C, r) \in Nat /\ RouteLen(C, r) <= MaxPerRoute
  BY <1>1, RouteLenNat, Zenon DEF Bounded
<1>3. CASE ~(RouteLen(C, r) >= MaxPerRoute)
  <2>1. EvictRoute(C, r) = C
    BY <1>3, Zenon DEF EvictRoute
  <2>2. RouteLen(C, r) < MaxPerRoute
    BY <1>2, <1>3, CacheAssumption
  <2> QED BY <2>1, <2>2, Zenon DEF Evicted
<1>4. CASE RouteLen(C, r) >= MaxPerRoute
  <2> DEFINE v == Victim(q)
  <2>1. EvictRoute(C, r) = RemoveEntry(C, v)
    BY <1>4, Zenon DEF EvictRoute
  <2>2. q[TRUE] \in Seq(Sources) /\ q[FALSE] \in Seq(Sources)
    BY <1>1, CacheLists, Zenon
  <2>3. /\ \A y \in Sources : y \in Range(q[TRUE]) <=> C.bound[y].route = r /\ C.authed[y] = TRUE
        /\ \A y \in Sources : y \in Range(q[FALSE]) <=> C.bound[y].route = r /\ C.authed[y] = FALSE
    BY <1>1, Zenon DEF Listed
  <2>4. RouteLen(C, r) = Len(q[TRUE]) + Len(q[FALSE])
    BY Zenon DEF RouteLen
  <2>5. \A y \in S : y \in Cached(C)
    BY <1>1, Routed, Zenon DEF Cached
  <2> HIDE DEF q
  <2>6. q[TRUE] # <<>> \/ q[FALSE] # <<>>
    <3> SUFFICES ASSUME q[TRUE] = <<>>, q[FALSE] = <<>> PROVE FALSE
      BY Zenon
    <3>1. Len(<<>>) = 0
      OBVIOUS
    <3>2. RouteLen(C, r) = 0 + 0
      BY <2>4, <3>1, Zenon
    <3> QED BY <1>4, <3>2, CacheAssumption
  <2>7. /\ v \in Sources
        /\ v \in Range(q[FALSE]) \/ (v \in Range(q[TRUE]) /\ q[FALSE] = <<>>)
    BY <2>2, <2>6, VictimFacts, Zenon
  <2> HIDE DEF v
  <2>8. v \in S /\ v \in Cached(C)
    BY <2>3, <2>5, <2>7, Zenon
  <2>9. ASSUME C.authed[v], NEW y \in S PROVE C.authed[y]
    <3>1. q[FALSE] = <<>>
      BY <2>3, <2>7, <2>9, Zenon
    <3>2. y \in Sources /\ (C.authed[y] = TRUE \/ C.authed[y] = FALSE)
      BY <1>1, <2>9, Routed, Zenon
    <3> QED BY <2>3, <3>1, <3>2, EmptyRange, Zenon
  <2>10. Gone(C, RemoveEntry(C, v), v)
    BY <2>7, RemoveEntryFacts, Zenon
  <2>11. RouteLen(RemoveEntry(C, v), r) = RouteLen(C, r) - 1
    BY <2>8, <2>10, Zenon DEF Gone, One
  <2>12. RouteLen(RemoveEntry(C, v), r) < MaxPerRoute
    BY <1>2, <2>11, CacheAssumption
  <2>13. Evicted(C, RemoveEntry(C, v), S)
    BY <2>8, <2>9, <2>10, Zenon DEF Evicted
  <2> QED BY <2>1, <2>12, <2>13, Zenon
<1> QED BY <1>3, <1>4

\* No source is authenticated that was not, for the same address.
Earned(C, D) ==
  \A y \in Sources : D.authed[y] => C.authed[y] /\ D.bound[y] = C.bound[y]

\* An authenticated source is not dropped in favour of another one of its route.
Keeps(C, D) ==
  \A x, y \in Sources :
    /\ C.authed[x] /\ y \in Cached(C) /\ ~C.authed[y]
    /\ C.bound[x].route = C.bound[y].route
    /\ x \notin Cached(D)
    => y \notin Cached(D) \/ D.bound[y] # C.bound[y]

\* What is to be shown of every operation.
Fine(C, D) == Sane(D) /\ Bounded(D) /\ Keeps(C, D)

\* Whoever is authenticated is cached.
LEMMA AuthedCached ==
  ASSUME NEW C, Sane(C), NEW x \in Sources, C.authed[x]
  PROVE  x \in Cached(C)
BY Zenon DEF Sane, Cached

\* Where no source is dropped nothing is lost.
LEMMA AlikeFine ==
  ASSUME NEW C, Sane(C), Bounded(C), NEW D, Alike(C, D)
  PROVE  Fine(C, D)
<1>1. Sane(D) /\ Cached(D) = Cached(C) /\ \A r \in Routes : RouteLen(D, r) = RouteLen(C, r)
  BY Zenon DEF Alike
<1>2. Bounded(D)
  BY <1>1, Zenon DEF Bounded, Size
<1>3. Keeps(C, D)
  BY <1>1, AuthedCached, Zenon DEF Keeps
<1> QED BY <1>1, <1>2, <1>3, Zenon DEF Fine

\* touch
LEMMA TouchFacts ==
  ASSUME NEW C, Sane(C), Bounded(C), NEW x \in Sources, C.bound[x] # Unbound
  PROVE  Fine(C, Touch(C, x)) /\ Earned(C, Touch(C, x))
<1> DEFINE U == Unlink(C, x)  D == LinkFront(U, x)
<1>1. U \in CacheType /\ U.bound = C.bound /\ U.authed = C.authed
  BY UnlinkListed, Zenon DEF Sane
<1> HIDE DEF U
<1>2. Tagged(U, U, x)
  BY <1>1, Zenon DEF Tagged, SameBut
<1>3. Alike(C, D) /\ D.bound = U.bound /\ D.authed = U.authed
  BY <1>1, <1>2, Relinked, ZenonT(60) DEF U
<1>4. Touch(C, x) = D
  BY Zenon DEF Touch, U
<1> HIDE DEF D
<1>5. Earned(C, D)
  BY <1>1, <1>3, Zenon DEF Earned
<1> QED BY <1>3, <1>4, <1>5, AlikeFine, Zenon

\* An address of the same route and epoch is the same.
LEMMA SameAddress ==
  ASSUME NEW a \in Address, NEW b \in Address, a.route = b.route, a.epoch = b.epoch
  PROVE  a = b
BY DEF Address

\* learn, of a source that is cached for the route
LEMMA RebindFacts ==
  ASSUME NEW C, Sane(C), Bounded(C), NEW x \in Sources, C.bound[x] # Unbound,
         NEW address \in Address, C.bound[x].route = address.route
  PROVE  Fine(C, Rebind(C, x, address)) /\ Earned(C, Rebind(C, x, address))
<1> DEFINE U == Unlink(C, x)  b == U.authed[x] /\ C.bound[x].epoch = address.epoch
           E == [U EXCEPT !.bound[x] = address, !.authed[x] = b]  D == LinkFront(E, x)
<1>1. C \in CacheType /\ U \in CacheType /\ U.bound = C.bound /\ U.authed = C.authed
  BY UnlinkListed, Zenon DEF Sane
<1>2. Rebind(C, x, address) = D
  BY DEF Rebind
<1> HIDE DEF U
<1>3. b \in BOOLEAN
  OBVIOUS
<1> HIDE DEF b
<1>4. address \in Address \cup {Unbound} /\ address # Unbound
  <2>1. address.route \in Routes
    BY DEF Address
  <2>2. Unbound.route \notin Routes
    BY CacheAssumption, ZenonT(60) DEF Unbound
  <2> QED BY <2>1, <2>2, Zenon
<1>5. Retag(U, E, x, address, b)
  BY <1>1, <1>3, <1>4, Entry
<1> HIDE DEF E
<1>6. Tagged(U, E, x) /\ E.bound[x] = address /\ E.authed[x] = b
  BY <1>5, Zenon DEF Retag
<1>7. Alike(C, D) /\ D.bound = E.bound /\ D.authed = E.authed
  BY <1>4, <1>6, Relinked, Zenon DEF U
<1> HIDE DEF D
<1>8. ASSUME NEW y \in Sources, D.authed[y] PROVE C.authed[y] /\ D.bound[y] = C.bound[y]
  <2>1. CASE y = x
    <3>1. C.authed[x] /\ C.bound[x].epoch = address.epoch
      BY <1>1, <1>6, <1>7, <1>8, <2>1, Zenon DEF b
    <3>2. C.bound[x] \in Address
      BY <1>1, Routed, Zenon
    <3>3. C.bound[x] = address
      BY <3>1, <3>2, SameAddress, Zenon
    <3> QED BY <1>6, <1>7, <2>1, <3>1, <3>3, Zenon
  <2>2. CASE y # x
    BY <1>1, <1>6, <1>7, <1>8, <2>2, Zenon DEF Tagged, SameBut
  <2> QED BY <2>1, <2>2
<1> QED BY <1>2, <1>7, <1>8, AlikeFine, Zenon DEF Earned

\* authenticate; the source is bound to the address, or nothing happens
LEMMA AuthenticatedFacts ==
  ASSUME NEW C, Sane(C), Bounded(C), NEW x \in Sources, NEW address \in Address
  PROVE  LET D == Authenticated(C, x, address)
         IN  /\ Fine(C, D) /\ D.bound = C.bound
             /\ \A y \in Sources : D.authed[y] /\ ~C.authed[y] => y = x /\ C.bound[x] = address
<1> DEFINE D == Authenticated(C, x, address)
<1>1. CASE C.bound[x] # address
  <2>1. D = C
    BY <1>1, Zenon DEF Authenticated
  <2>2. Alike(C, C)
    BY Zenon DEF Alike
  <2> HIDE DEF D
  <2>3. Fine(C, D)
    BY <2>1, <2>2, AlikeFine, Zenon
  <2> QED BY <2>1, <2>3, Zenon DEF D
<1>2. CASE C.bound[x] = address
  <2> DEFINE U == Unlink(C, x)  E == [U EXCEPT !.authed[x] = TRUE]
  <2>1. D = LinkFront(E, x)
    BY <1>2, Zenon DEF Authenticated
  <2>2. address # Unbound
    <3>1. address.route \in Routes
      BY DEF Address
    <3>2. Unbound.route \notin Routes
      BY CacheAssumption DEF Unbound
    <3> QED BY <3>1, <3>2, Zenon
  <2>3. U \in CacheType /\ U.bound = C.bound /\ U.authed = C.authed
    BY <1>2, <2>2, UnlinkListed, Zenon DEF Sane
  <2> HIDE DEF D, U
  <2>4. E = [U EXCEPT !.bound[x] = address, !.authed[x] = TRUE]
    <3>1. [U.bound EXCEPT ![x] = address] = U.bound
      BY <1>2, <2>3 DEF CacheType
    <3>2. U = [bound |-> U.bound, authed |-> U.authed, global |-> U.global, local |-> U.local]
      BY <2>3 DEF CacheType
    <3> QED BY <3>1, <3>2, Zenon
  <2> HIDE DEF E
  <2>5. address \in Address \cup {Unbound} /\ TRUE \in BOOLEAN
    BY Zenon
  <2>6. Retag(U, E, x, address, TRUE)
    BY <2>3, <2>4, <2>5, Entry
  <2>7. Tagged(U, E, x) /\ E.bound[x] = address /\ E.authed[x] = TRUE
    BY <2>6, Zenon DEF Retag
  <2>8. Alike(C, D) /\ D.bound = E.bound /\ D.authed = E.authed
    BY <1>2, <2>1, <2>2, <2>7, Relinked, Zenon DEF U
  <2>9. \A y \in Sources : D.authed[y] /\ ~C.authed[y] => y = x
    BY <2>3, <2>7, <2>8, Zenon DEF Tagged, SameBut
  <2>10. E.bound = C.bound
    <3>1. \A y \in Sources : E.bound[y] = C.bound[y]
      BY <1>2, <2>3, <2>7, Zenon DEF Tagged, SameBut
    <3>2. E.bound = [y \in Sources |-> E.bound[y]] /\ C.bound = [y \in Sources |-> C.bound[y]]
      <4>1. E \in CacheType /\ C \in CacheType
        BY <2>7, Zenon DEF Tagged, Sane
      <4> QED BY <4>1 DEF CacheType
    <3> QED BY <3>1, <3>2, Zenon
  <2>11. Fine(C, D)
    BY <2>8, AlikeFine, Zenon
  <2> QED BY <1>2, <2>8, <2>9, <2>10, <2>11, Zenon DEF D
<1> QED BY <1>1, <1>2

\* D is C without some of its entries.
Shrunk(C, D) ==
  \A y \in Sources :
    (D.bound[y] = C.bound[y] /\ D.authed[y] = C.authed[y]) \/ D.bound[y] = Unbound

\* An eviction leaves a cache with fewer entries.
LEMMA EvictedFacts ==
  ASSUME NEW C, Sane(C), Bounded(C), NEW S, NEW D, Evicted(C, D, S)
  PROVE  /\ Sane(D) /\ Bounded(D) /\ Shrunk(C, D)
         /\ Size(C) \in Nat /\ Size(D) \in Nat /\ Size(D) <= Size(C)
<1>0. Size(C) \in Nat
  BY FS_CardinalityType, Zenon DEF Size, Sane
<1>1. CASE D = C
  <2>1. Size(C) <= Size(C)
    BY <1>0
  <2> QED BY <1>0, <1>1, <2>1, Zenon DEF Shrunk
<1>2. CASE D # C
  <2>1. PICK v \in Cached(C) : Gone(C, D, v)
    BY <1>2, Zenon DEF Evicted
  <2>2. v \in Sources
    BY Zenon DEF Cached
  <2>3. Sane(D) /\ Shrunk(C, D)
    BY <2>1, Zenon DEF Gone, SameBut, Shrunk
  <2>4. Size(D) = Size(C) - 1
    BY <2>1, GoneSize, Zenon
  <2>5. Size(D) \in Nat
    BY <2>3, FS_CardinalityType, Zenon DEF Size, Sane
  <2>6. Size(D) <= Size(C)
    BY <1>0, <2>4
  <2> QED BY <1>0, <2>1, <2>2, <2>3, <2>5, <2>6, GoneBounded, Zenon
<1> QED BY <1>1, <1>2

\* Whoever an eviction drops leaves no unauthenticated source behind, if authenticated.
LEMMA EvictedLast ==
  ASSUME NEW C, NEW S, NEW D, Evicted(C, D, S), NEW x \in Cached(C), C.authed[x],
         x \notin Cached(D), NEW y \in Cached(C), ~C.authed[y]
  PROVE  x \in S /\ y \notin S
<1>1. D # C
  BY Zenon
<1>2. PICK v \in Cached(C) \cap S :
        Gone(C, D, v) /\ (C.authed[v] => \A z \in Cached(C) \cap S : C.authed[z])
  BY <1>1, Zenon DEF Evicted
<1>3. v = x
  BY <1>2, Zenon DEF Gone, SameBut, Cached
<1> QED BY <1>2, <1>3, Zenon

\* A new entry where there is room for it.
LEMMA Placed ==
  ASSUME NEW C, Sane(C), Bounded(C), NEW x \in Sources, C.bound[x] = Unbound,
         NEW address \in Address, Size(C) < MaxEntries, RouteLen(C, address.route) < MaxPerRoute
  PROVE  LET D == LinkFront([C EXCEPT !.bound[x] = address], x)
         IN  Sane(D) /\ Bounded(D) /\ SameBut(C, D, x) /\ D.bound[x] = address /\ ~D.authed[x]
<1> DEFINE E == [C EXCEPT !.bound[x] = address]  D == LinkFront(E, x)
<1>1. C \in CacheType /\ Listed(C, {}) /\ IsFiniteSet(Cached(C)) /\ ~C.authed[x]
  BY Zenon DEF Sane
<1>2. E = [C EXCEPT !.bound[x] = address, !.authed[x] = FALSE]
  <2>1. [C.authed EXCEPT ![x] = FALSE] = C.authed
    <3>1. C.authed[x] = FALSE
      BY <1>1, Routed, Zenon
    <3>2. C.authed \in [Sources -> BOOLEAN]
      BY <1>1 DEF CacheType
    <3> QED BY <3>1, <3>2, Zenon
  <2>2. C = [bound |-> C.bound, authed |-> C.authed, global |-> C.global, local |-> C.local]
    BY <1>1 DEF CacheType
  <2> QED BY <2>1, <2>2
<1> HIDE DEF E
<1>3. address \in Address \cup {Unbound} /\ address # Unbound /\ address.route \in Routes
  <2>1. address.route \in Routes
    BY DEF Address
  <2>2. Unbound.route \notin Routes
    BY CacheAssumption DEF Unbound
  <2> QED BY <2>1, <2>2, Zenon
<1>4. FALSE \in BOOLEAN
  BY ZenonT(60)
<1>5. Retag(C, E, x, address, FALSE)
  BY <1>1, <1>2, <1>3, <1>4, Entry
<1>6. /\ E \in CacheType /\ E.global = C.global /\ E.local = C.local /\ SameBut(C, E, x)
      /\ E.bound[x] = address /\ E.authed[x] = FALSE
  BY <1>5, Zenon DEF Retag, Tagged
<1>7. Listed(C, {x})
  BY <1>1, UncachedListed, Zenon
<1>8. Listed(E, {x}) /\ \A r \in Routes : RouteLen(E, r) = RouteLen(C, r)
  BY <1>1, <1>6, <1>7, Retagged, Zenon
<1>9. /\ D \in CacheType /\ D.bound = E.bound /\ D.authed = E.authed /\ Listed(D, {})
      /\ \A r \in Routes : RouteLen(D, r) = RouteLen(E, r) + One(E, x, r)
  BY <1>3, <1>6, <1>8, LinkListed, Zenon
<1> HIDE DEF D
<1>10. SameBut(C, D, x) /\ D.bound[x] = address /\ ~D.authed[x]
  BY <1>6, <1>9, Zenon DEF SameBut
<1>11. Cached(D) = Cached(C) \cup {x}
  BY <1>3, <1>10, Zenon DEF Cached, SameBut
<1>12. x \notin Cached(C)
  BY Zenon DEF Cached
<1>13. IsFiniteSet(Cached(D)) /\ Size(D) = Size(C) + 1 /\ Size(C) \in Nat
  BY <1>1, <1>11, <1>12, FS_AddElement, FS_CardinalityType DEF Size
<1>14. Sane(D)
  <2>1. \A y \in Sources : D.bound[y] = Unbound => ~D.authed[y]
    BY <1>10, Zenon DEF SameBut, Sane
  <2> QED BY <1>9, <1>13, <2>1, Zenon DEF Sane
<1>15. ASSUME NEW r \in Routes PROVE RouteLen(D, r) <= MaxPerRoute
  <2>1. RouteLen(D, r) = RouteLen(C, r) + One(E, x, r)
    BY <1>8, <1>9, Zenon
  <2>2. RouteLen(C, r) \in Nat /\ RouteLen(C, r) <= MaxPerRoute
    BY <1>1, RouteLenNat, Zenon DEF Bounded
  <2>3. CASE r = address.route
    <3>1. One(E, x, r) = 1 /\ RouteLen(C, r) < MaxPerRoute
      BY <1>6, <2>3, Zenon DEF One
    <3> QED BY <2>1, <2>2, <3>1, CacheAssumption
  <2>4. CASE r # address.route
    <3>1. One(E, x, r) = 0
      BY <1>6, <2>4, Zenon DEF One
    <3> QED BY <2>1, <2>2, <3>1
  <2> QED BY <2>3, <2>4
<1>16. Size(D) <= MaxEntries
  BY <1>13, CacheAssumption
<1> QED BY <1>10, <1>14, <1>15, <1>16, Zenon DEF Bounded, D, E

\* A source that is cached for another address, or not at all, is admitted.
LEMMA AdmitFacts ==
  ASSUME NEW C, Sane(C), Bounded(C), NEW x \in Sources, NEW address \in Address,
         C.bound[x] # address
  PROVE  LET D == Admit(RemoveEntry(C, x), x, address)
         IN  Fine(C, D) /\ Earned(C, D)
<1> DEFINE r == address.route  C1 == RemoveEntry(C, x)  C2 == EvictGlobal(C1)
           C3 == EvictRoute(C2, r)  D == LinkFront([C3 EXCEPT !.bound[x] = address], x)
           S == {y \in Sources : C2.bound[y].route = r}
<1>0. r \in Routes
  BY DEF Address
<1>1. Admit(C1, x, address) = D
  BY Zenon DEF Admit
<1>2. Gone(C, C1, x) /\ Bounded(C1)
  BY RemoveEntryFacts, GoneBounded, Zenon
<1> HIDE DEF C1
<1>3. Sane(C1) /\ SameBut(C, C1, x) /\ C1.bound[x] = Unbound
  BY <1>2, Zenon DEF Gone
<1>4. Evicted(C1, C2, Sources) /\ Size(C2) < MaxEntries
  BY <1>2, <1>3, EvictGlobalFacts, Zenon
<1> HIDE DEF C2
<1>5. Sane(C2) /\ Bounded(C2) /\ Shrunk(C1, C2) /\ Size(C2) \in Nat
  BY <1>2, <1>3, <1>4, EvictedFacts, Zenon
<1>6. Evicted(C2, C3, S) /\ RouteLen(C3, r) < MaxPerRoute
  BY <1>0, <1>5, EvictRouteFacts, Zenon
<1> HIDE DEF C3
<1>7. Sane(C3) /\ Bounded(C3) /\ Shrunk(C2, C3) /\ Size(C3) \in Nat /\ Size(C3) <= Size(C2)
  BY <1>5, <1>6, EvictedFacts, Zenon
<1>8. Size(C3) < MaxEntries
  BY <1>4, <1>5, <1>7, CacheAssumption
<1>9. C3.bound[x] = Unbound
  BY <1>3, <1>5, <1>7, Zenon DEF Shrunk
<1>10. Sane(D) /\ Bounded(D) /\ SameBut(C3, D, x) /\ D.bound[x] = address /\ ~D.authed[x]
  BY <1>6, <1>7, <1>8, <1>9, Placed, Zenon
<1> HIDE DEF D, r
<1>11. ASSUME NEW y \in Sources, D.authed[y] PROVE C.authed[y] /\ D.bound[y] = C.bound[y]
  <2>1. y # x /\ C3.authed[y] /\ C3.bound[y] = D.bound[y]
    BY <1>10, <1>11, Zenon DEF SameBut
  <2>2. C3.bound[y] # Unbound
    BY <1>7, <2>1, Zenon DEF Sane
  <2>3. C2.bound[y] = C3.bound[y] /\ C2.authed[y] = C3.authed[y]
    BY <1>7, <2>2, Zenon DEF Shrunk
  <2>4. C1.bound[y] = C3.bound[y] /\ C1.authed[y] = C3.authed[y]
    BY <1>5, <2>2, <2>3, Zenon DEF Shrunk
  <2> QED BY <1>3, <2>1, <2>4, Zenon DEF SameBut
<1>12. ASSUME NEW u \in Sources, NEW y \in Sources, C.authed[u], y \in Cached(C), ~C.authed[y],
              C.bound[u].route = C.bound[y].route, u \notin Cached(D),
              y \in Cached(D), D.bound[y] = C.bound[y]
       PROVE  FALSE
  <2>1. u # x
    <3>1. address # Unbound
      <4>1. address.route \in Routes
        BY DEF Address
      <4>2. Unbound.route \notin Routes
        BY CacheAssumption DEF Unbound
      <4> QED BY <4>1, <4>2, Zenon
    <3> QED BY <1>10, <1>12, <3>1, Zenon DEF Cached
  <2>2. y # x
    BY <1>10, <1>12, Zenon
  <2>3. u \in Cached(C)
    BY <1>12, AuthedCached, Zenon
  <2>4. /\ C1.bound[u] = C.bound[u] /\ C1.authed[u] = C.authed[u] /\ u \in Cached(C1)
        /\ C1.bound[y] = C.bound[y] /\ C1.authed[y] = C.authed[y] /\ y \in Cached(C1)
    BY <1>3, <1>12, <2>1, <2>2, <2>3, Zenon DEF SameBut, Cached
  <2>5. u \notin Cached(C3) /\ y \in Cached(C3)
    BY <1>10, <1>12, <2>1, <2>2, Zenon DEF SameBut, Cached
  <2>6. y \in Cached(C2) /\ C2.bound[y] = C1.bound[y] /\ C2.authed[y] = C1.authed[y]
    BY <1>5, <1>7, <2>5, Zenon DEF Shrunk, Cached
  <2>7. u \in Cached(C2)
    BY <1>4, <1>12, <2>4, EvictedLast, Zenon
  <2>8. C2.bound[u] = C1.bound[u] /\ C2.authed[u] = C1.authed[u]
    BY <1>5, <2>7, Zenon DEF Shrunk, Cached
  <2>9. u \in S /\ y \notin S
    BY <1>6, <1>12, <2>4, <2>5, <2>6, <2>7, <2>8, EvictedLast, ZenonT(60)
  <2> QED BY <1>12, <2>4, <2>6, <2>8, <2>9, Zenon
<1>13. Keeps(C, D)
  BY <1>12, Zenon DEF Keeps
<1>14. Fine(C, D) /\ Earned(C, D)
  BY <1>10, <1>11, <1>13, Zenon DEF Fine, Earned
<1> QED BY <1>1, <1>14, Zenon DEF C1

-----------------------------------------------------------------------------
(* unregister, which repeats RemoveEntry.                                  *)

\* A set of numbers that is not empty has a least one.
LEMMA LeastExists ==
  ASSUME NEW S, S \subseteq Nat, S # {}
  PROVE  \E m \in S : \A n \in S : m <= n
<1>1. PICK m \in S : \A n \in S : ~(<<n, m>> \in OpToRel(<, Nat))
  BY NatLessThanWellFounded, WFMin, Zenon
<1>2. ASSUME NEW n \in S PROVE m <= n
  <2>1. OpToRel(<, Nat) = {ss \in Nat \X Nat : ss[1] < ss[2]}
    BY Zenon DEF OpToRel
  <2>2. m \in Nat /\ n \in Nat
    BY <1>2
  <2>3. ASSUME n < m PROVE <<n, m>> \in {ss \in Nat \X Nat : ss[1] < ss[2]}
    BY <2>2, <2>3, Zenon
  <2>4. ~(n < m)
    BY <1>1, <1>2, <2>1, <2>3, Zenon
  <2> QED BY <2>2, <2>4
<1> QED BY <1>2

\* g is the series of caches that removing the sources of the list one by one goes through.
Iterates(C, list, n, g) ==
  g = [i \in 0 .. n |-> IF i = 0 THEN C ELSE RemoveEntry(g[i - 1], list[i])]

\* There is one.
LEMMA IterationExists ==
  ASSUME NEW C, NEW list, NEW n \in Nat
  PROVE  \E g : Iterates(C, list, n, g)
<1> DEFINE Bad == {k \in Nat : ~\E g : Iterates(C, list, k, g)}
<1> SUFFICES ASSUME n \in Bad PROVE FALSE
  BY Zenon
<1>1. PICK m \in Bad : \A k \in Bad : m <= k
  BY LeastExists, Zenon
<1>2. m \in Nat /\ ~\E g : Iterates(C, list, m, g)
  BY <1>1, Zenon
<1>3. CASE m = 0
  <2> DEFINE g == [i \in 0 .. 0 |-> C]
  <2>1. \A i \in 0 .. 0 : i = 0
    OBVIOUS
  <2>2. g = [i \in 0 .. 0 |-> IF i = 0 THEN C ELSE RemoveEntry(g[i - 1], list[i])]
    BY <2>1, Zenon
  <2> HIDE DEF g
  <2> QED BY <1>2, <1>3, <2>2, Zenon DEF Iterates
<1>4. CASE m # 0
  <2>1. m - 1 \in Nat /\ ~(m <= m - 1) /\ m - 1 # m /\ m \in 0 .. m /\ m - 1 \in 0 .. m
    BY <1>2, <1>4
  <2>2. PICK g : Iterates(C, list, m - 1, g)
    BY <1>1, <2>1, Zenon
  <2>3. g = [i \in 0 .. (m - 1) |-> IF i = 0 THEN C ELSE RemoveEntry(g[i - 1], list[i])]
    BY <2>2, Zenon DEF Iterates
  <2> DEFINE h == [i \in 0 .. m |-> IF i = m THEN RemoveEntry(g[m - 1], list[m]) ELSE g[i]]
             k == [i \in 0 .. m |-> IF i = 0 THEN C ELSE RemoveEntry(h[i - 1], list[i])]
  <2>4. ASSUME NEW i \in 0 .. m PROVE h[i] = k[i]
    <3>1. CASE i = m
      <4>1. h[m - 1] = g[m - 1]
        BY <1>2, <2>1, Zenon
      <4>2. h[i] = RemoveEntry(g[m - 1], list[m])
        BY <3>1, Zenon
      <4>3. k[i] = RemoveEntry(h[i - 1], list[i])
        BY <1>4, <3>1, Zenon
      <4> QED BY <3>1, <4>1, <4>2, <4>3, Zenon
    <3>2. CASE i # m /\ i = 0
      <4>1. 0 \in 0 .. (m - 1)
        BY <2>1
      <4>2. g[0] = C
        BY <2>3, <4>1, Zenon
      <4> QED BY <3>2, <4>2, Zenon
    <3>3. CASE i # m /\ i # 0
      <4>1. i \in 0 .. (m - 1) /\ i - 1 \in 0 .. m /\ i - 1 # m
        BY <1>2, <3>3
      <4>2. g[i] = RemoveEntry(g[i - 1], list[i])
        BY <2>3, <3>3, <4>1, Zenon
      <4>3. h[i - 1] = g[i - 1] /\ h[i] = g[i]
        BY <3>3, <4>1, Zenon
      <4>4. k[i] = RemoveEntry(h[i - 1], list[i])
        BY <3>3, Zenon
      <4> QED BY <4>2, <4>3, <4>4, Zenon
    <3> QED BY <3>1, <3>2, <3>3, Zenon
  <2>5. h = [i \in 0 .. m |-> h[i]]
    BY Zenon
  <2>8. k = [i \in 0 .. m |-> k[i]]
    <3> HIDE DEF h
    <3> QED BY Zenon
  <2>6. h = k
    <3> HIDE DEF h, k
    <3> QED BY <2>4, <2>5, <2>8, Zenon
  <2>7. Iterates(C, list, m, h)
    <3> HIDE DEF h
    <3> QED BY <2>6, Zenon DEF Iterates
  <2> QED BY <1>2, <2>7, Zenon
<1> QED BY <1>3, <1>4

\* After i of them, the sources before are gone and the others are as they were.
Removed(C, list, i, G) ==
  /\ Sane(G) /\ Bounded(G)
  /\ \A y \in Sources : (\E j \in 1 .. i : list[j] = y) => G.bound[y] = Unbound
  /\ \A y \in Sources : (\A j \in 1 .. i : list[j] # y) =>
                          G.bound[y] = C.bound[y] /\ G.authed[y] = C.authed[y]

\* One more.
LEMMA RemovedStep ==
  ASSUME NEW C, NEW list, NEW i \in Nat, NEW G, Removed(C, list, i, G), list[i + 1] \in Sources
  PROVE  Removed(C, list, i + 1, RemoveEntry(G, list[i + 1]))
<1> DEFINE x == list[i + 1]  D == RemoveEntry(G, x)
<1>1. /\ Sane(G) /\ Bounded(G)
      /\ \A y \in Sources : (\E j \in 1 .. i : list[j] = y) => G.bound[y] = Unbound
      /\ \A y \in Sources : (\A j \in 1 .. i : list[j] # y) =>
                              G.bound[y] = C.bound[y] /\ G.authed[y] = C.authed[y]
  BY Zenon DEF Removed
<1>2. Gone(G, D, x)
  BY <1>1, RemoveEntryFacts, Zenon
<1>3. Bounded(D)
  BY <1>1, <1>2, GoneBounded, Zenon
<1> HIDE DEF D
<1>4. Sane(D) /\ D.bound[x] = Unbound
      /\ \A y \in Sources : y # x => D.bound[y] = G.bound[y] /\ D.authed[y] = G.authed[y]
  BY <1>2, Zenon DEF Gone, SameBut
<1>5. \A j \in 1 .. (i + 1) : j \in 1 .. i \/ j = i + 1
  OBVIOUS
<1>6. \A j \in 1 .. i : j \in 1 .. (i + 1)
  OBVIOUS
<1>7. i + 1 \in 1 .. (i + 1)
  OBVIOUS
<1>8. ASSUME NEW y \in Sources, NEW j \in 1 .. (i + 1), list[j] = y PROVE D.bound[y] = Unbound
  BY <1>1, <1>4, <1>5, <1>8, Zenon
<1>9. ASSUME NEW y \in Sources, \A j \in 1 .. (i + 1) : list[j] # y
      PROVE  D.bound[y] = C.bound[y] /\ D.authed[y] = C.authed[y]
  BY <1>1, <1>4, <1>6, <1>7, <1>9, Zenon
<1> QED BY <1>3, <1>4, <1>8, <1>9, Zenon DEF Removed, D

\* All of them.
LEMMA IterationRemoves ==
  ASSUME NEW C, Sane(C), Bounded(C), NEW list \in Seq(Sources),
         NEW g, Iterates(C, list, Len(list), g)
  PROVE  Removed(C, list, Len(list), g[Len(list)])
<1> DEFINE n == Len(list)  Bad == {i \in 0 .. n : ~Removed(C, list, i, g[i])}
<1>0. n \in Nat /\ n \in 0 .. n /\ Bad \subseteq Nat
  OBVIOUS
<1>1. g = [i \in 0 .. n |-> IF i = 0 THEN C ELSE RemoveEntry(g[i - 1], list[i])]
  BY Zenon DEF Iterates
<1> SUFFICES ASSUME n \in Bad PROVE FALSE
  BY <1>0, Zenon
<1>2. PICK m \in Bad : \A k \in Bad : m <= k
  BY <1>0, LeastExists, Zenon
<1>3. m \in 0 .. n /\ ~Removed(C, list, m, g[m])
  BY <1>2, Zenon
<1>4. CASE m = 0
  <2>1. g[m] = C
    BY <1>1, <1>3, <1>4, Zenon
  <2>2. \A j \in 1 .. 0 : FALSE
    OBVIOUS
  <2>3. Removed(C, list, 0, C)
    BY <2>2, Zenon DEF Removed
  <2> QED BY <1>3, <1>4, <2>1, <2>3, Zenon
<1>5. CASE m # 0
  <2>1. m - 1 \in 0 .. n /\ ~(m <= m - 1) /\ (m - 1) + 1 = m /\ m - 1 \in Nat /\ m \in 1 .. n
    BY <1>0, <1>3, <1>5
  <2>2. Removed(C, list, m - 1, g[m - 1])
    BY <1>2, <2>1, Zenon
  <2>3. list[m] \in Sources
    BY <2>1
  <2>4. Removed(C, list, (m - 1) + 1, RemoveEntry(g[m - 1], list[(m - 1) + 1]))
    BY <2>1, <2>2, <2>3, RemovedStep, Zenon
  <2>5. g[m] = RemoveEntry(g[m - 1], list[m])
    BY <1>1, <1>3, <1>5, Zenon
  <2> QED BY <1>3, <2>1, <2>4, <2>5, Zenon
<1> QED BY <1>4, <1>5

\* unregister drops the sources of the route, all of them and no others.
LEMMA UnregisteredFacts ==
  ASSUME NEW C, Sane(C), Bounded(C), NEW r \in Routes
  PROVE  Fine(C, Unregistered(C, r)) /\ Earned(C, Unregistered(C, r))
<1> DEFINE list == C.local[r][FALSE] \o C.local[r][TRUE]  n == Len(list)
           gone == CHOOSE g : Iterates(C, list, n, g)  D == gone[n]
<1>1. C \in CacheType /\ Listed(C, {})
  BY Zenon DEF Sane
<1>2. Unregistered(C, r) = D
  BY Zenon DEF Unregistered, Iterates
<1>3. C.local[r][FALSE] \in Seq(Sources) /\ C.local[r][TRUE] \in Seq(Sources)
  BY <1>1, CacheLists, Zenon
<1> DEFINE p == C.local[r][FALSE]  q == C.local[r][TRUE]
<1>4. /\ list \in Seq(Sources) /\ n = Len(p) + Len(q) /\ Len(p) \in Nat /\ Len(q) \in Nat
      /\ \A i \in 1 .. Len(p) : i \in 1 .. n /\ list[i] = p[i]
      /\ \A i \in 1 .. Len(q) : Len(p) + i \in 1 .. n /\ list[Len(p) + i] = q[i]
      /\ \A i \in 1 .. n : \/ i \in 1 .. Len(p) /\ list[i] = p[i]
                           \/ i - Len(p) \in 1 .. Len(q) /\ list[i] = q[i - Len(p)]
  <2>1. p \in Seq(Sources) /\ q \in Seq(Sources) /\ list = p \o q
    BY <1>3, Zenon
  <2> HIDE DEF p, q, list
  <2>2. /\ list \in Seq(Sources) /\ Len(list) = Len(p) + Len(q) /\ Len(p) \in Nat /\ Len(q) \in Nat
        /\ \A i \in 1 .. Len(p) : list[i] = p[i]
        /\ \A i \in 1 .. Len(q) : list[Len(p) + i] = q[i]
    BY <2>1
  <2>3. /\ \A i \in 1 .. Len(p) : i \in 1 .. n
        /\ \A i \in 1 .. Len(q) : Len(p) + i \in 1 .. n
    BY <2>2
  <2>4. ASSUME NEW i \in 1 .. n
        PROVE  \/ i \in 1 .. Len(p) /\ list[i] = p[i]
               \/ i - Len(p) \in 1 .. Len(q) /\ list[i] = q[i - Len(p)]
    <3>1. CASE i \in 1 .. Len(p)
      BY <2>2, <3>1, Zenon
    <3>2. CASE i \notin 1 .. Len(p)
      <4>1. i - Len(p) \in 1 .. Len(q) /\ Len(p) + (i - Len(p)) = i
        BY <2>2, <3>2
      <4> QED BY <2>2, <4>1, Zenon
    <3> QED BY <3>1, <3>2, Zenon
  <2> QED BY <2>2, <2>3, <2>4, Zenon
<1>5. ASSUME NEW y \in Sources
      PROVE  (\E j \in 1 .. n : list[j] = y) <=> C.bound[y].route = r
  <2>1. (\E j \in 1 .. n : list[j] = y) <=> y \in Range(p) \/ y \in Range(q)
    <3>1. y \in Range(p) <=> \E i \in 1 .. Len(p) : p[i] = y
      BY <1>3, ListFacts, Zenon
    <3>2. y \in Range(q) <=> \E i \in 1 .. Len(q) : q[i] = y
      BY <1>3, ListFacts, Zenon
    <3> HIDE DEF p, q, list, n
    <3> QED BY <1>4, <3>1, <3>2, Zenon
  <2>2. /\ y \in Range(p) <=> C.bound[y].route = r /\ C.authed[y] = FALSE
        /\ y \in Range(q) <=> C.bound[y].route = r /\ C.authed[y] = TRUE
    BY <1>1, Zenon DEF Listed
  <2>3. C.authed[y] = TRUE \/ C.authed[y] = FALSE
    BY <1>1, Routed, Zenon
  <2> QED BY <2>1, <2>2, <2>3, Zenon
<1> HIDE DEF list
<1>6. n \in Nat
  <2>1. list \in Seq(Sources)
    BY <1>4, Zenon
  <2> QED BY <2>1
<1>7. Iterates(C, list, n, gone)
  BY <1>6, IterationExists, Zenon
<1> HIDE DEF gone
<1>8. Removed(C, list, n, D)
  BY <1>4, <1>7, IterationRemoves, Zenon
<1> HIDE DEF D, n
<1>9. /\ Sane(D) /\ Bounded(D)
      /\ \A y \in Sources : C.bound[y].route = r => D.bound[y] = Unbound
      /\ \A y \in Sources : C.bound[y].route # r =>
                              D.bound[y] = C.bound[y] /\ D.authed[y] = C.authed[y]
  BY <1>5, <1>8, Zenon DEF Removed
<1>10. Keeps(C, D)
  BY <1>9, AuthedCached, Zenon DEF Keeps, Cached
<1>11. Earned(C, D)
  BY <1>9, Zenon DEF Earned, Sane
<1> QED BY <1>2, <1>9, <1>10, <1>11, Zenon DEF Fine

-----------------------------------------------------------------------------
(* The shard: what FlushConnected and RemoveParticipant need to know of it. *)

ShardFields ==
  {"seats", "routes", "waiting", "wheel", "dirty", "queued", "exited", "linked"}

\* The seats and the waiting list hold connections, and a holder of the seat waited for.
Registry(h) ==
  /\ DOMAIN h = ShardFields /\ h.seats \subseteq Conns /\ h.waiting \in Seq(Conns)
  /\ \A c \in Range(h.waiting) : \E d \in h.seats : Owner[d] = Owner[c]

\* The seats and the waiting list of h are those of k.
SameSeats(h, k) == DOMAIN h = ShardFields /\ h.seats = k.seats /\ h.waiting = k.waiting

\* A shard with the same seats has the same registry.
LEMMA SameRegistry ==
  ASSUME NEW h, NEW k, Registry(k), SameSeats(h, k)
  PROVE  Registry(h)
BY Zenon DEF SameSeats, Registry

\* DirtyTracker::mark does not seat anybody.
LEMMA MarkSeats ==
  ASSUME NEW h, DOMAIN h = ShardFields, NEW c
  PROVE  SameSeats(Mark(h, c), h)
BY DEF Mark, SameSeats, ShardFields

\* Nor does a datagram.
LEMMA DeliverSeats ==
  ASSUME NEW h, DOMAIN h = ShardFields, NEW address
  PROVE  SameSeats(Deliver(h, address), h)
<1>1. SameSeats(h, h)
  BY Zenon DEF SameSeats
<1> QED BY <1>1, MarkSeats, Zenon DEF Deliver

\* add_participant seats the connection.
LEMMA AddSeats ==
  ASSUME NEW h, DOMAIN h = ShardFields, NEW c
  PROVE  LET k == AddParticipant(h, c)
         IN  DOMAIN k = ShardFields /\ k.seats = h.seats \cup {c} /\ k.waiting = h.waiting
<1> DEFINE g == [h EXCEPT !.seats = @ \cup {c}, !.routes[Ingress[c].route] = c]
<1>1. DOMAIN g = ShardFields /\ g.seats = h.seats \cup {c} /\ g.waiting = h.waiting
  BY DEF ShardFields
<1> HIDE DEF g
<1>2. SameSeats(Mark(g, c), g)
  BY <1>1, MarkSeats, Zenon
<1>3. AddParticipant(h, c) = Mark(g, c)
  BY Zenon DEF AddParticipant, g
<1> QED BY <1>1, <1>2, <1>3, Zenon DEF SameSeats

\* remove_handle takes the seat.
LEMMA RemoveSeats ==
  ASSUME NEW h, DOMAIN h = ShardFields, NEW c
  PROVE  LET k == RemoveHandle(h, c)
         IN  DOMAIN k = ShardFields /\ k.seats = h.seats \ {c} /\ k.waiting = h.waiting
BY DEF RemoveHandle, ShardFields

\* The members of a waiting list.
LEMMA WaitingFacts ==
  ASSUME NEW q \in Seq(Conns)
  PROVE  /\ Len(q) \in Nat /\ \A i \in 1 .. Len(q) : q[i] \in Conns
         /\ \A c : c \in Range(q) <=> \E i \in 1 .. Len(q) : q[i] = c
<1>1. Len(q) \in Nat /\ DOMAIN q = 1 .. Len(q) /\ \A i \in 1 .. Len(q) : q[i] \in Conns
  OBVIOUS
<1> QED BY <1>1, Zenon DEF Range

\* A waiting list without one of its places.
LEMMA RemoveAtFacts ==
  ASSUME NEW q \in Seq(Conns), NEW k \in 1 .. Len(q)
  PROVE  RemoveAt(q, k) \in Seq(Conns) /\ \A c : c \in Range(RemoveAt(q, k)) => c \in Range(q)
<1> DEFINE n == Len(q)  a == SubSeq(q, 1, k - 1)  b == SubSeq(q, k + 1, n)  p == RemoveAt(q, k)
<1>0. n \in Nat
  OBVIOUS
<1>1. a \in Seq(Conns) /\ Len(a) = k - 1 /\ \A i \in 1 .. (k - 1) : a[i] = q[i]
  BY <1>0
<1>2. b \in Seq(Conns) /\ Len(b) = n - k /\ \A i \in 1 .. (n - k) : b[i] = q[k + i]
  BY <1>0
<1>3. p = a \o b
  BY Zenon DEF RemoveAt
<1> HIDE DEF a, b, p
<1>4. p \in Seq(Conns) /\ Len(p) = Len(a) + Len(b)
  <2>1. a \in Seq(Conns) /\ b \in Seq(Conns)
    BY <1>1, <1>2, Zenon
  <2> QED BY <1>3, <2>1
<1>5. ASSUME NEW i \in 1 .. Len(p) PROVE \E j \in 1 .. n : p[i] = q[j]
  <2>1. CASE i <= Len(a)
    <3>1. i \in 1 .. (k - 1) /\ p[i] = a[i]
      BY <1>1, <1>2, <1>3, <2>1
    <3>2. i \in 1 .. n
      BY <1>0, <3>1
    <3> QED BY <1>1, <3>1, <3>2, Zenon
  <2>2. CASE ~(i <= Len(a))
    <3>0. /\ Len(a) \in Nat /\ Len(b) \in Nat /\ Len(b) = n - k /\ i \in 1 .. (Len(a) + Len(b))
          /\ a \in Seq(Conns) /\ b \in Seq(Conns)
      BY <1>0, <1>1, <1>2, <1>4
    <3>1. i - Len(a) \in 1 .. (n - k) /\ p[i] = b[i - Len(a)]
      BY <1>3, <2>2, <3>0
    <3>2. k + (i - Len(a)) \in 1 .. n
      BY <1>0, <1>1, <3>1
    <3> QED BY <1>2, <3>1, <3>2, Zenon
  <2> QED BY <2>1, <2>2, Zenon
<1>6. ASSUME NEW c, c \in Range(p) PROVE c \in Range(q)
  <2>1. PICK i \in 1 .. Len(p) : p[i] = c
    BY <1>4, <1>6, WaitingFacts, Zenon
  <2>2. PICK j \in 1 .. n : p[i] = q[j]
    BY <1>5, Zenon
  <2> QED BY <2>1, <2>2, WaitingFacts, Zenon
<1> QED BY <1>4, <1>6, Zenon DEF p

\* The index of the first connection of a participant in a waiting list, if it has one.
LEMMA IndexFacts ==
  ASSUME NEW q \in Seq(Conns), NEW o
  PROVE  LET k == SelectInSeq(q, LAMBDA d : Owner[d] = o)
         IN  IF k = 0 THEN \A i \in 1 .. Len(q) : Owner[q[i]] # o
             ELSE k \in 1 .. Len(q) /\ Owner[q[k]] = o
<1> DEFINE I == {i \in 1 .. Len(q) : Owner[q[i]] = o}
           k == SelectInSeq(q, LAMBDA d : Owner[d] = o)
<1>1. k = IF I # {} THEN Min(I) ELSE 0
  BY Zenon DEF SelectInSeq
<1>2. I \subseteq Nat /\ 0 \notin I
  OBVIOUS
<1>3. CASE I = {}
  BY <1>1, <1>3, Zenon
<1>4. CASE I # {}
  <2>1. Min(I) \in I
    BY <1>2, <1>4, LeastExists, Zenon DEF Min
  <2> QED BY <1>1, <1>2, <1>4, <2>1, Zenon
<1> QED BY <1>3, <1>4

\* A waiting list without a connection.
LEMMA RemoveFirstFacts ==
  ASSUME NEW q \in Seq(Conns), NEW x
  PROVE  RemoveFirst(q, x) \in Seq(Conns)
         /\ \A c : c \in Range(RemoveFirst(q, x)) => c \in Range(q)
<1> DEFINE I == {i \in 1 .. Len(q) : q[i] = x}
           k == SelectInSeq(q, LAMBDA v : v = x)
<1>1. k = IF I # {} THEN Min(I) ELSE 0
  BY Zenon DEF SelectInSeq
<1>2. I \subseteq Nat
  OBVIOUS
<1>3. CASE I = {}
  <2>1. RemoveFirst(q, x) = q
    BY <1>3, Zenon DEF RemoveFirst
  <2> QED BY <2>1, Zenon
<1>4. CASE I # {}
  <2>1. Min(I) \in I
    BY <1>2, <1>4, LeastExists, Zenon DEF Min
  <2>2. k \in 1 .. Len(q)
    BY <1>1, <1>4, <2>1, Zenon
  <2>3. RemoveFirst(q, x) = RemoveAt(q, k)
    BY <1>4, Zenon DEF RemoveFirst
  <2> HIDE DEF k
  <2> QED BY <2>2, <2>3, RemoveAtFacts, Zenon
<1> QED BY <1>3, <1>4, Zenon

\* RemoveParticipant passes the seat on to whoever waited longest for it.
LEMMA RemoveRegistry ==
  ASSUME Registry(shard), NEW c \in Conns, RemoveParticipant(c)
  PROVE  Registry(shard')
<1> DEFINE others == RemoveFirst(shard.waiting, c)
           index == SelectInSeq(others, LAMBDA d : Owner[d] = Owner[c])
           freed == RemoveHandle(shard, c)
<1>0. /\ DOMAIN shard = ShardFields /\ shard.seats \subseteq Conns /\ shard.waiting \in Seq(Conns)
      /\ \A d \in Range(shard.waiting) : \E e \in shard.seats : Owner[e] = Owner[d]
  BY Zenon DEF Registry
<1>1. others \in Seq(Conns) /\ \A d : d \in Range(others) => d \in Range(shard.waiting)
  BY <1>0, RemoveFirstFacts, Zenon
<1>2. CASE c \notin shard.seats
  <2>1. shard' = [shard EXCEPT !.waiting = others]
    BY <1>2, Zenon DEF RemoveParticipant
  <2> HIDE DEF others
  <2>2. DOMAIN shard' = ShardFields /\ shard'.seats = shard.seats /\ shard'.waiting = others
    BY <1>0, <2>1, Zenon DEF ShardFields
  <2> QED BY <1>0, <1>1, <2>2, Zenon DEF Registry
<1>3. CASE c \in shard.seats
  <2>1. shard' = IF index = 0 THEN [freed EXCEPT !.waiting = others]
                 ELSE AddParticipant([freed EXCEPT !.waiting = RemoveAt(others, index)], others[index])
    BY <1>3, Zenon DEF RemoveParticipant
  <2>2. DOMAIN freed = ShardFields /\ freed.seats = shard.seats \ {c}
    BY <1>0, RemoveSeats, Zenon
  <2>3. IF index = 0 THEN \A i \in 1 .. Len(others) : Owner[others[i]] # Owner[c]
        ELSE index \in 1 .. Len(others) /\ Owner[others[index]] = Owner[c]
    BY <1>1, IndexFacts, Zenon
  <2> HIDE DEF others, index, freed
  <2>4. CASE index = 0
    <3>1. shard' = [freed EXCEPT !.waiting = others]
      BY <2>1, <2>4, Zenon
    <3>2. DOMAIN shard' = ShardFields /\ shard'.seats = shard.seats \ {c} /\ shard'.waiting = others
      BY <2>2, <3>1, Zenon DEF ShardFields
    <3>3. \A d \in Range(others) : Owner[d] # Owner[c]
      <4>1. \A i \in 1 .. Len(others) : Owner[others[i]] # Owner[c]
        BY <2>3, <2>4, Zenon
      <4>2. \A d \in Range(others) : \E i \in 1 .. Len(others) : others[i] = d
        BY <1>1, WaitingFacts, Zenon
      <4> QED BY <4>1, <4>2, Zenon
    <3>4. \A d \in Range(others) : \E e \in shard.seats \ {c} : Owner[e] = Owner[d]
      BY <1>0, <1>1, <3>3, Zenon
    <3> QED BY <1>0, <1>1, <3>2, <3>4, Zenon DEF Registry
  <2>5. CASE index # 0
    <3> DEFINE rest == RemoveAt(others, index)  g == [freed EXCEPT !.waiting = rest]
               d0 == others[index]
    <3>1. shard' = AddParticipant(g, d0)
      BY <2>1, <2>5, Zenon
    <3>2. index \in 1 .. Len(others) /\ Owner[d0] = Owner[c] /\ d0 \in Conns
      BY <1>1, <2>3, <2>5, WaitingFacts, Zenon
    <3>3. rest \in Seq(Conns) /\ \A d : d \in Range(rest) => d \in Range(others)
      BY <1>1, <3>2, RemoveAtFacts, Zenon
    <3> HIDE DEF rest, d0
    <3>4. DOMAIN g = ShardFields /\ g.seats = shard.seats \ {c} /\ g.waiting = rest
      BY <2>2 DEF ShardFields
    <3> HIDE DEF g
    <3>5. DOMAIN shard' = ShardFields /\ shard'.seats = g.seats \cup {d0} /\ shard'.waiting = rest
      BY <3>1, <3>4, AddSeats, Zenon
    <3>6. ASSUME NEW d \in Range(rest)
          PROVE  \E e \in shard'.seats : Owner[e] = Owner[d]
      <4>1. PICK e \in shard.seats : Owner[e] = Owner[d]
        BY <1>0, <1>1, <3>3, <3>6, Zenon
      <4>2. CASE e = c
        BY <3>2, <3>5, <4>1, <4>2, Zenon
      <4>3. CASE e # c
        BY <3>4, <3>5, <4>1, <4>3, Zenon
      <4> QED BY <4>2, <4>3, Zenon
    <3>7. shard'.seats \subseteq Conns
      BY <1>0, <3>2, <3>4, <3>5, Zenon
    <3> QED BY <3>3, <3>5, <3>6, <3>7, Zenon DEF Registry
  <2> QED BY <2>4, <2>5, Zenon
<1> QED BY <1>2, <1>3, Zenon

\* MaterializeParticipant seats a connection or lets it wait for its participant's seat.
LEMMA MaterializeRegistry ==
  ASSUME Registry(shard), NEW c \in Conns, MaterializeParticipant(c)
  PROVE  Registry(shard')
<1>0. /\ DOMAIN shard = ShardFields /\ shard.seats \subseteq Conns /\ shard.waiting \in Seq(Conns)
      /\ \A d \in Range(shard.waiting) : \E e \in shard.seats : Owner[e] = Owner[d]
  BY Zenon DEF Registry
<1>1. CASE ~Seated(Owner[c])
  <2>1. shard' = AddParticipant(shard, c)
    BY <1>1, Zenon DEF MaterializeParticipant
  <2>2. DOMAIN shard' = ShardFields /\ shard'.seats = shard.seats \cup {c} /\ shard'.waiting = shard.waiting
    BY <1>0, <2>1, AddSeats, Zenon
  <2> QED BY <1>0, <2>2, Zenon DEF Registry
<1>2. CASE Seated(Owner[c]) /\ Len(shard.waiting) >= MaxWaiting
  BY <1>2, Zenon DEF MaterializeParticipant
<1>3. CASE Seated(Owner[c]) /\ ~(Len(shard.waiting) >= MaxWaiting)
  <2> DEFINE w == shard.waiting
  <2>1. shard' = [shard EXCEPT !.waiting = Append(w, c)]
    BY <1>3 DEF MaterializeParticipant
  <2>2. w \in Seq(Conns)
    BY <1>0, Zenon
  <2>3. DOMAIN shard' = ShardFields /\ shard'.seats = shard.seats /\ shard'.waiting = Append(w, c)
    BY <1>0, <2>1 DEF ShardFields
  <2> HIDE DEF w
  <2>4. /\ Append(w, c) \in Seq(Conns)
        /\ \A i \in 1 .. Len(Append(w, c)) : \/ i \in 1 .. Len(w) /\ Append(w, c)[i] = w[i]
                                             \/ Append(w, c)[i] = c
    BY <2>2
  <2>5. \A d \in Range(Append(w, c)) : d \in Range(w) \/ d = c
    BY <2>2, <2>4, WaitingFacts, Zenon
  <2> QED BY <1>0, <1>3, <2>3, <2>4, <2>5, Zenon DEF Registry, Seated, w
<1> QED BY <1>1, <1>2, <1>3, Zenon

\* Polling seats nobody.
LEMMA PollRegistry ==
  ASSUME Registry(shard), NEW now, PollAndFlushDirty(now)
  PROVE  Registry(shard') /\ cache' = cache /\ limit' = limit
         /\ \E greeted : /\ events' = events \o greeted
                         /\ greeted = <<>> \/ \E g : g[2] \in limit.sources /\ greeted = <<g>>
<1> DEFINE fired == FireTimers(shard, now)
<1>0. DOMAIN shard = ShardFields
  BY Zenon DEF Registry
<1>1. SameSeats(fired, shard)
  BY <1>0 DEF FireTimers, SameSeats, ShardFields
<1>2. PICK polled, quits, live, greeted :
        /\ events' = events \o greeted
        /\ greeted = <<>> \/ \E g : g[2] \in limit.sources /\ greeted = <<g>>
        /\ shard' = [fired EXCEPT !.wheel = polled, !.dirty = LeftOver(fired),
                                  !.queued = @ \ live, !.exited = @ \cup quits,
                                  !.linked = @ \cup {g[1] : g \in Range(greeted)}]
        /\ cache' = cache /\ limit' = limit
  <2> DEFINE taken == Taken(fired)
  <2>1. PICK quits, delay :
          /\ \E greeted \in {<<>>} \cup {<<g>> : g \in (Range(taken) \ (quits \cup fired.linked)) \X limit.sources} :
               /\ events' = events \o greeted
               /\ shard' = [fired EXCEPT !.wheel = Rearmed(fired.wheel, taken, delay, now),
                                         !.dirty = LeftOver(fired),
                                         !.queued = @ \ Range(taken), !.exited = @ \cup quits,
                                         !.linked = @ \cup {g[1] : g \in Range(greeted)}]
          /\ cache' = cache /\ limit' = limit
    BY ZenonT(90) DEF PollAndFlushDirty
  <2> HIDE DEF taken, fired
  <2>2. PICK greeted \in {<<>>} \cup {<<g>> : g \in (Range(taken) \ (quits \cup fired.linked)) \X limit.sources} :
               /\ events' = events \o greeted
               /\ shard' = [fired EXCEPT !.wheel = Rearmed(fired.wheel, taken, delay, now),
                                         !.dirty = LeftOver(fired),
                                         !.queued = @ \ Range(taken), !.exited = @ \cup quits,
                                         !.linked = @ \cup {g[1] : g \in Range(greeted)}]
    BY <2>1, Zenon
  <2>3. greeted = <<>> \/ \E g : g[2] \in limit.sources /\ greeted = <<g>>
    BY Zenon
  <2> QED BY <2>1, <2>2, <2>3, Zenon
<1> HIDE DEF fired
<1>3. SameSeats(shard', fired)
  BY <1>1, <1>2 DEF SameSeats, ShardFields
<1> QED BY <1>1, <1>2, <1>3, SameRegistry, Zenon DEF SameSeats

-----------------------------------------------------------------------------
(* The whole shard.                                                        *)

\* An event names a source.
EventsOK == \E U : events \in Seq(U) /\ \A e \in U : e[2] \in Sources

\* The inductive invariant.
SeatsInv ==
  /\ Sane(cache) /\ Bounded(cache)
  /\ Registry(shard) /\ EventsOK /\ limit \in Limits

\* What a step does to the cache.
CacheStep(C, D) ==
  /\ Fine(C, D)
  /\ \/ Earned(C, D)
     \/ \E x \in Sources, address \in Address : D = Authenticated(C, x, address)

\* What the constants promise of a behaviour's bounds.
LEMMA LimitFacts ==
  ASSUME limit \in Limits
  PROVE  /\ \A x \in limit.sources : x \in Sources
         /\ \A a \in limit.names : a \in Address /\ a # Unbound
         /\ \A c \in Conns : Ingress[c] \in Address /\ Ingress[c].route \in Routes
<1>1. /\ \A x \in limit.sources : x \in Sources
      /\ \A a \in limit.names : a \in Address
      /\ \A c \in Conns : Ingress[c] \in Address
  BY SeatsAssumption, Zenon
<1>2. \A a \in Address : a.route \in Routes
  BY DEF Address
<1>3. Unbound.route \notin Routes
  BY CacheAssumption DEF Unbound
<1> QED BY <1>1, <1>2, <1>3, Zenon

\* A cache that stays as it is.
LEMMA StayFine ==
  ASSUME NEW C, Sane(C), Bounded(C)
  PROVE  CacheStep(C, C)
<1>1. Alike(C, C) /\ Earned(C, C)
  BY Zenon DEF Alike, Earned
<1> QED BY <1>1, AlikeFine, Zenon DEF CacheStep

\* A STUN bootstrap.
LEMMA BootstrappedFine ==
  ASSUME NEW C, Sane(C), Bounded(C), NEW x \in Sources, NEW address \in Address, address # Unbound
  PROVE  CacheStep(C, Bootstrapped(C, x, address))
<1>1. CASE C.bound[x] = address
  <2>1. Bootstrapped(C, x, address) = Touch(C, x)
    BY <1>1, Zenon DEF Bootstrapped
  <2> QED BY <1>1, <2>1, TouchFacts, Zenon DEF CacheStep
<1>2. CASE C.bound[x] # address
  <2>1. Bootstrapped(C, x, address) = Admit(RemoveEntry(C, x), x, address)
    BY <1>2, Zenon DEF Bootstrapped
  <2> QED BY <1>2, <2>1, AdmitFacts, Zenon DEF CacheStep
<1> QED BY <1>1, <1>2

\* A frame of a sibling.
LEMMA LearnedFine ==
  ASSUME NEW C, Sane(C), Bounded(C), NEW x \in Sources, NEW address \in Address, address # Unbound
  PROVE  CacheStep(C, Learned(C, x, address))
<1>1. CASE C.bound[x] # Unbound /\ C.bound[x].route = address.route
  <2>1. Learned(C, x, address) = Rebind(C, x, address)
    BY <1>1, Zenon DEF Learned
  <2> QED BY <1>1, <2>1, RebindFacts, Zenon DEF CacheStep
<1>2. CASE ~(C.bound[x] # Unbound /\ C.bound[x].route = address.route)
  <2>1. Learned(C, x, address) = Admit(RemoveEntry(C, x), x, address)
    BY <1>2, Zenon DEF Learned
  <2>2. C.bound[x] # address
    BY <1>2, Zenon
  <2> QED BY <2>1, <2>2, AdmitFacts, Zenon DEF CacheStep
<1> QED BY <1>1, <1>2

\* An authentication.
LEMMA AuthenticatedFine ==
  ASSUME NEW C, Sane(C), Bounded(C), NEW x \in Sources, NEW address \in Address
  PROVE  CacheStep(C, Authenticated(C, x, address))
<1>1. Fine(C, Authenticated(C, x, address))
  BY AuthenticatedFacts, Zenon
<1> QED BY <1>1, Zenon DEF CacheStep

\* The events once one more is there.
LEMMA EventsMore ==
  ASSUME EventsOK, NEW greeted, events' = events \o greeted,
         greeted = <<>> \/ \E g : g[2] \in Sources /\ greeted = <<g>>
  PROVE  EventsOK'
<1>1. PICK U : events \in Seq(U) /\ \A e \in U : e[2] \in Sources
  BY Zenon DEF EventsOK
<1>2. CASE greeted = <<>>
  <2>1. events' \in Seq(U)
    BY <1>1, <1>2
  <2> QED BY <1>1, <2>1, Zenon DEF EventsOK
<1>3. CASE greeted # <<>>
  <2>1. PICK g : g[2] \in Sources /\ greeted = <<g>>
    BY <1>3, Zenon
  <2> DEFINE V == U \cup {g}
  <2>2. events \in Seq(V)
    BY <1>1
  <2>3. events' \in Seq(V)
    <3>1. g \in V
      OBVIOUS
    <3> HIDE DEF V
    <3> QED BY <2>1, <2>2, <3>1
  <2>4. \A e \in V : e[2] \in Sources
    BY <1>1, <2>1, Zenon
  <2> HIDE DEF V
  <2> QED BY <2>3, <2>4, Zenon DEF EventsOK
<1> QED BY <1>2, <1>3

\* The events left once the first has been taken.
LEMMA EventsFewer ==
  ASSUME EventsOK, events # <<>>, events' = Tail(events)
  PROVE  EventsOK' /\ Head(events)[2] \in Sources
<1>1. PICK U : events \in Seq(U) /\ \A e \in U : e[2] \in Sources
  BY Zenon DEF EventsOK
<1>2. Tail(events) \in Seq(U) /\ Head(events) \in U
  BY <1>1
<1> QED BY <1>1, <1>2, Zenon DEF EventsOK

\* Every step is one the cache, the registry and the events survive.
LEMMA SeatsStep ==
  ASSUME SeatsInv, Next
  PROVE  SeatsInv' /\ CacheStep(cache, cache')
<1>0. Sane(cache) /\ Bounded(cache) /\ Registry(shard) /\ EventsOK /\ limit \in Limits
  BY Zenon DEF SeatsInv
<1> SUFFICES /\ CacheStep(cache, cache') /\ Registry(shard') /\ EventsOK' /\ limit' = limit
  BY <1>0, Zenon DEF SeatsInv, CacheStep, Fine
<1>1. /\ \A x \in limit.sources : x \in Sources
      /\ \A a \in limit.names : a \in Address /\ a # Unbound
      /\ \A c \in Conns : Ingress[c] \in Address /\ Ingress[c].route \in Routes
  BY <1>0, LimitFacts, Zenon
<1>2. CacheStep(cache, cache) /\ DOMAIN shard = ShardFields
  BY <1>0, StayFine, Zenon DEF Registry
<1>3. ASSUME events' = events PROVE EventsOK'
  BY <1>0, <1>3, Zenon DEF EventsOK
<1>4. ASSUME NEW c \in Conns, MaterializeParticipant(c)
      PROVE  CacheStep(cache, cache') /\ Registry(shard') /\ EventsOK' /\ limit' = limit
  <2>1. cache' = cache /\ events' = events /\ limit' = limit
    BY <1>4, Zenon DEF MaterializeParticipant
  <2> QED BY <1>0, <1>2, <1>3, <1>4, <2>1, MaterializeRegistry, Zenon
<1>5. ASSUME NEW c \in Conns, RemoveParticipant(c)
      PROVE  CacheStep(cache, cache') /\ Registry(shard') /\ EventsOK' /\ limit' = limit
  <2>1. /\ cache' = cache \/ cache' = Unregistered(cache, Ingress[c].route)
        /\ events' = events /\ limit' = limit
    BY <1>5, Zenon DEF RemoveParticipant
  <2>2. CacheStep(cache, Unregistered(cache, Ingress[c].route))
    BY <1>0, <1>1, UnregisteredFacts, Zenon DEF CacheStep
  <2> QED BY <1>0, <1>2, <1>3, <1>5, <2>1, <2>2, RemoveRegistry, Zenon
<1>6. ASSUME NEW c \in Conns, Input(c)
      PROVE  CacheStep(cache, cache') /\ Registry(shard') /\ EventsOK' /\ limit' = limit
  <2>1. cache' = cache /\ events' = events /\ limit' = limit /\ shard' = Mark(shard, c)
    BY <1>6, Zenon DEF Input
  <2> QED BY <1>0, <1>2, <1>3, <2>1, MarkSeats, SameRegistry, Zenon
<1>7. ASSUME NEW x \in limit.sources, Datagram(x)
      PROVE  CacheStep(cache, cache') /\ Registry(shard') /\ EventsOK' /\ limit' = limit
  <2>1. PICK address \in limit.names :
          /\ \/ cache' = Bootstrapped(cache, x, address)
             \/ cache.bound[x] = address /\ cache' = Touch(cache, x)
          /\ shard' = Deliver(shard, address)
    BY <1>7, Zenon DEF Datagram
  <2>2. events' = events /\ limit' = limit
    BY <1>7, Zenon DEF Datagram
  <2>3. x \in Sources /\ address \in Address /\ address # Unbound
    BY <1>1, Zenon
  <2>4. CacheStep(cache, Bootstrapped(cache, x, address))
    BY <1>0, <2>3, BootstrappedFine, Zenon
  <2>5. cache.bound[x] = address => CacheStep(cache, Touch(cache, x))
    BY <1>0, <2>3, TouchFacts, Zenon DEF CacheStep
  <2>6. Registry(shard')
    BY <1>0, <1>2, <2>1, DeliverSeats, SameRegistry, Zenon
  <2> QED BY <1>3, <2>1, <2>2, <2>4, <2>5, <2>6, Zenon
<1>8. ASSUME NEW x \in limit.sources, IngressFrame(x)
      PROVE  CacheStep(cache, cache') /\ Registry(shard') /\ EventsOK' /\ limit' = limit
  <2>1. PICK address \in limit.names :
          /\ cache' = cache \/ cache' = Learned(cache, x, address)
          /\ shard' = Deliver(shard, address)
    BY <1>8, Zenon DEF IngressFrame
  <2>2. events' = events /\ limit' = limit
    BY <1>8, Zenon DEF IngressFrame
  <2>3. x \in Sources /\ address \in Address /\ address # Unbound
    BY <1>1, Zenon
  <2>4. CacheStep(cache, Learned(cache, x, address))
    BY <1>0, <2>3, LearnedFine, Zenon
  <2>5. Registry(shard')
    BY <1>0, <1>2, <2>1, DeliverSeats, SameRegistry, Zenon
  <2> QED BY <1>2, <1>3, <2>1, <2>2, <2>4, <2>5, Zenon
<1>9. ASSUME NEW x \in limit.sources, AuthenticateTransport(x)
      PROVE  CacheStep(cache, cache') /\ Registry(shard') /\ EventsOK' /\ limit' = limit
  <2>1. PICK address \in limit.names : cache' = Authenticated(cache, x, address)
    BY <1>9, Zenon DEF AuthenticateTransport
  <2>2. events' = events /\ limit' = limit /\ shard' = shard
    BY <1>9, Zenon DEF AuthenticateTransport
  <2>3. x \in Sources /\ address \in Address
    BY <1>1, Zenon
  <2> QED BY <1>0, <1>3, <2>1, <2>2, <2>3, AuthenticatedFine, Zenon
<1>10. ASSUME NEW now, PollAndFlushDirty(now)
       PROVE  CacheStep(cache, cache') /\ Registry(shard') /\ EventsOK' /\ limit' = limit
  <2>1. Registry(shard') /\ cache' = cache /\ limit' = limit
    BY <1>0, <1>10, PollRegistry, Zenon
  <2>2. PICK greeted : /\ events' = events \o greeted
                       /\ greeted = <<>> \/ \E g : g[2] \in limit.sources /\ greeted = <<g>>
    BY <1>0, <1>10, PollRegistry, Zenon
  <2>3. EventsOK'
    BY <1>0, <1>1, <2>2, EventsMore, Zenon
  <2> QED BY <1>2, <2>1, <2>3, Zenon
<1>11. CASE FlushConnected
  <2> DEFINE c == Head(events)[1]  x == Head(events)[2]
  <2>1. /\ events # <<>> /\ events' = Tail(events) /\ shard' = shard /\ limit' = limit
        /\ \/ c \in shard.seats /\ cache' = Authenticated(cache, x, Ingress[c])
           \/ cache' = cache
    BY <1>11, Zenon DEF FlushConnected
  <2>2. EventsOK' /\ x \in Sources
    BY <1>0, <2>1, EventsFewer, Zenon
  <2>3. c \in shard.seats => Ingress[c] \in Address
    BY <1>0, <1>1, Zenon DEF Registry
  <2> HIDE DEF c, x
  <2> QED BY <1>0, <1>2, <2>1, <2>2, <2>3, AuthenticatedFine, Zenon
<1> QED BY <1>4, <1>5, <1>6, <1>7, <1>8, <1>9, <1>10, <1>11, Zenon DEF Next

\* At first the cache is empty and nobody is seated.
LEMMA SeatsInit ==
  ASSUME Init
  PROVE  SeatsInv
<1> DEFINE none == <<>>
<1>1. none \in Seq(Sources) /\ DOMAIN none = {} /\ Len(none) = 0
  OBVIOUS
<1>2. IsInjective(none) /\ (\A y : y \notin Range(none)) /\ \A y, z : ~Before(none, y, z)
  BY <1>1, Zenon DEF IsInjective, Range, Before
<1>3. cache = [bound |-> [x \in Sources |-> Unbound], authed |-> [x \in Sources |-> FALSE],
               global |-> [f \in BOOLEAN |-> none],
               local |-> [r \in Routes |-> [f \in BOOLEAN |-> none]]]
  BY Zenon DEF Init, Empty
<1> HIDE DEF none
<1>4. /\ cache.bound = [x \in Sources |-> Unbound] /\ cache.authed = [x \in Sources |-> FALSE]
      /\ cache.global = [f \in BOOLEAN |-> none]
      /\ cache.local = [r \in Routes |-> [f \in BOOLEAN |-> none]]
  BY <1>3
<1>5. cache \in CacheType
  <2> DEFINE B == [x \in Sources |-> Unbound]  A == [x \in Sources |-> FALSE]
             G == [f \in BOOLEAN |-> none]  L == [r \in Routes |-> [f \in BOOLEAN |-> none]]
  <2>1. B \in [Sources -> Address \cup {Unbound}] /\ A \in [Sources -> BOOLEAN]
    BY Zenon
  <2>2. G \in [BOOLEAN -> Seq(Sources)] /\ L \in [Routes -> [BOOLEAN -> Seq(Sources)]]
    BY <1>1, Zenon
  <2>3. cache = [bound |-> B, authed |-> A, global |-> G, local |-> L]
    BY <1>3, Zenon
  <2> HIDE DEF A, B, G, L
  <2> QED BY <2>1, <2>2, <2>3, Zenon DEF CacheType
<1>6. /\ \A x \in Sources : cache.bound[x] = Unbound /\ cache.authed[x] = FALSE
      /\ \A f \in BOOLEAN : cache.global[f] = none
      /\ \A r \in Routes, f \in BOOLEAN : cache.local[r][f] = none
  BY <1>4, Zenon
<1>7. \A x \in Sources, r \in Routes : cache.bound[x].route # r
  BY <1>5, <1>6, Routed, Zenon
<1>8. Listed(cache, {})
  <2>1. ASSUME NEW f \in BOOLEAN
        PROVE  /\ IsInjective(cache.global[f])
               /\ \A y \in Sources : y \in Range(cache.global[f]) <=>
                     y \notin {} /\ cache.bound[y] # Unbound /\ cache.authed[y] = f
    BY <1>2, <1>6, Zenon
  <2>2. ASSUME NEW r \in Routes, NEW f \in BOOLEAN
        PROVE  /\ IsInjective(cache.local[r][f])
               /\ \A y \in Sources : y \in Range(cache.local[r][f]) <=>
                     y \notin {} /\ cache.bound[y].route = r /\ cache.authed[y] = f
               /\ \A y, z \in Sources : Before(cache.local[r][f], y, z) => Before(cache.global[f], y, z)
    <3>1. cache.local[r][f] = none
      BY <1>6, Zenon
    <3> QED BY <1>2, <1>7, <3>1, Zenon
  <2> QED BY <2>1, <2>2, Zenon DEF Listed
<1>9. Cached(cache) = {}
  BY <1>6, Zenon DEF Cached
<1>10. Sane(cache)
  BY <1>5, <1>6, <1>8, <1>9, FS_EmptySet, Zenon DEF Sane
<1>11. Bounded(cache)
  <2>1. Size(cache) = 0
    BY <1>9, FS_EmptySet, Zenon DEF Size
  <2>2. ASSUME NEW r \in Routes PROVE RouteLen(cache, r) <= MaxPerRoute
    <3>1. RouteLen(cache, r) = 0 + 0
      BY <1>1, <1>6, Zenon DEF RouteLen
    <3> QED BY <3>1, CacheAssumption
  <2>3. 0 <= MaxEntries
    BY CacheAssumption
  <2> QED BY <2>1, <2>2, <2>3, Zenon DEF Bounded
<1>12. Registry(shard)
  <2>1. DOMAIN shard = ShardFields /\ shard.seats = {} /\ shard.waiting = <<>>
    BY DEF Init, NewShard, ShardFields
  <2>2. <<>> \in Seq(Conns)
    OBVIOUS
  <2> QED BY <2>1, <2>2, EmptyRange, ZenonT(60) DEF Registry
<1>13. EventsOK
  <2>1. <<>> \in Seq({})
    OBVIOUS
  <2>2. \A e \in {} : e[2] \in Sources
    OBVIOUS
  <2>3. events \in Seq({})
    BY <2>1, Zenon DEF Init
  <2> HIDE DEF Init
  <2>4. \E U : events \in Seq(U) /\ \A e \in U : e[2] \in Sources
    <3> WITNESS {}
    <3> QED BY <2>2, <2>3, Zenon
  <2> QED BY <2>4, Zenon DEF EventsOK
<1> QED BY <1>10, <1>11, <1>12, <1>13, Zenon DEF SeatsInv, Init

\* The invariant says that the lists agree, ...
LEMMA ListsFollow ==
  ASSUME NEW C, Sane(C), NEW f \in BOOLEAN
  PROVE  /\ IsInjective(C.global[f])
         /\ Range(C.global[f]) = {x \in Cached(C) : C.authed[x] = f}
         /\ \A r \in Routes :
              /\ IsInjective(C.local[r][f])
              /\ Range(C.local[r][f]) = {x \in Range(C.global[f]) : C.bound[x].route = r}
              /\ \A x, y \in Sources : Before(C.local[r][f], x, y) => Before(C.global[f], x, y)
<1>1. C \in CacheType /\ Listed(C, {})
  BY Zenon DEF Sane
<1>2. C.global[f] \in Seq(Sources) /\ \A r \in Routes : C.local[r][f] \in Seq(Sources)
  BY <1>1, CacheLists, Zenon
<1>3. /\ \A y : y \in Range(C.global[f]) => y \in Sources
      /\ \A r \in Routes : \A y : y \in Range(C.local[r][f]) => y \in Sources
  <2>1. ASSUME NEW s \in Seq(Sources) PROVE \A y : y \in Range(s) => y \in Sources
    <3>1. /\ \A y : y \in Range(s) <=> \E i \in 1 .. Len(s) : s[i] = y
          /\ \A i \in 1 .. Len(s) : s[i] \in Sources
      BY ListFacts, Zenon
    <3> QED BY <3>1, Zenon
  <2> QED BY <1>2, <2>1, Zenon
<1>4. \A y \in Sources : y \in Range(C.global[f]) <=> C.bound[y] # Unbound /\ C.authed[y] = f
  BY <1>1, Zenon DEF Listed
<1>5. Range(C.global[f]) = {x \in Cached(C) : C.authed[x] = f}
  BY <1>3, <1>4, Zenon DEF Cached
<1>6. ASSUME NEW r \in Routes
      PROVE  Range(C.local[r][f]) = {x \in Range(C.global[f]) : C.bound[x].route = r}
  <2>1. \A y \in Sources : y \in Range(C.local[r][f]) <=> C.bound[y].route = r /\ C.authed[y] = f
    BY <1>1, ZenonT(60) DEF Listed
  <2>2. \A y \in Sources : C.bound[y].route = r => C.bound[y] # Unbound
    BY <1>1, Routed, Zenon
  <2> QED BY <1>3, <1>4, <2>1, <2>2, Zenon
<1> QED BY <1>1, <1>5, <1>6, Zenon DEF Listed

\* ... and a step of the cache that authentication is earned.
LEMMA StepEarned ==
  ASSUME NEW C, NEW D, Sane(C), Bounded(C), CacheStep(C, D), NEW x \in Sources, D.authed[x]
  PROVE  \/ C.authed[x] /\ D.bound[x] = C.bound[x]
         \/ D = Authenticated(C, x, D.bound[x])
<1>1. CASE Earned(C, D)
  BY <1>1, Zenon DEF Earned
<1>2. CASE ~Earned(C, D)
  <2>1. PICK y \in Sources, address \in Address : D = Authenticated(C, y, address)
    BY <1>2, Zenon DEF CacheStep
  <2>2. /\ D.bound = C.bound
        /\ \A z \in Sources : D.authed[z] /\ ~C.authed[z] => z = y /\ C.bound[y] = address
    <3>1. Authenticated(C, y, address).bound = C.bound
      BY AuthenticatedFacts
    <3>2. ASSUME NEW z \in Sources, Authenticated(C, y, address).authed[z], ~C.authed[z]
          PROVE  z = y /\ C.bound[y] = address
      BY <3>2, AuthenticatedFacts, Zenon
    <3> QED BY <2>1, <3>1, <3>2, Zenon
  <2>3. CASE C.authed[x]
    BY <2>2, <2>3, Zenon
  <2>4. CASE ~C.authed[x]
    <3>1. x = y /\ D.bound[x] = address
      BY <2>2, <2>4, Zenon
    <3> QED BY <2>1, <3>1, Zenon
  <2> QED BY <2>3, <2>4, Zenon
<1> QED BY <1>1, <1>2, Zenon

\* Nothing changes when nothing happens.
LEMMA SeatsStutter ==
  ASSUME SeatsInv, UNCHANGED vars
  PROVE  SeatsInv'
<1>1. cache' = cache /\ shard' = shard /\ events' = events /\ limit' = limit
  BY Zenon DEF vars
<1> QED BY <1>1, Zenon DEF SeatsInv, EventsOK

-----------------------------------------------------------------------------
\* The inductive invariant of the cache, the registry and the events holds.
THEOREM SeatsAlwaysSound == Spec => []SeatsInv
<1>1. Init => SeatsInv
  BY SeatsInit
<1>2. SeatsInv /\ [Next]_vars => SeatsInv'
  BY SeatsStep, SeatsStutter, Zenon
<1> QED BY <1>1, <1>2, PTL DEF Spec

\* The global and the per-route recency lists hold the same cached sources, each once, in
\* the same order and by their authentication, and stay within the limits: Demuxer's
\* unlink, link, evict, admit, learn, authenticate and unregister keep them so.
THEOREM ListsAlwaysAgree == Spec => []ListsAgree
<1>1. SeatsInv => ListsAgree
  <2> SUFFICES ASSUME SeatsInv PROVE ListsAgree
    OBVIOUS
  <2>1. Sane(cache) /\ Bounded(cache)
    BY Zenon DEF SeatsInv
  <2> QED BY <2>1, ListsFollow, Zenon DEF ListsAgree, Bounded
<1> QED BY <1>1, SeatsAlwaysSound, PTL

\* A source is authenticated by authenticate() for the address it is bound to, or it was
\* and keeps its address; a new epoch, an eviction or an admission leaves none behind.
THEOREM AuthenticationAlwaysEarned == Spec => AuthenticationEarned
<1>1. SeatsInv /\ [Next]_vars =>
        [\A x \in Sources :
           cache'.authed[x] =>
             \/ cache.authed[x] /\ cache'.bound[x] = cache.bound[x]
             \/ cache' = Authenticated(cache, x, cache'.bound[x])]_cache
  <2> SUFFICES ASSUME SeatsInv, [Next]_vars, cache' # cache, NEW x \in Sources, cache'.authed[x]
               PROVE  \/ cache.authed[x] /\ cache'.bound[x] = cache.bound[x]
                      \/ cache' = Authenticated(cache, x, cache'.bound[x])
    BY Zenon
  <2>1. Next
    BY Zenon DEF vars
  <2>2. CacheStep(cache, cache') /\ Sane(cache) /\ Bounded(cache)
    BY <2>1, SeatsStep, Zenon DEF SeatsInv
  <2> QED BY <2>2, StepEarned, Zenon
<1> QED BY <1>1, SeatsAlwaysSound, PTL DEF Spec, AuthenticationEarned

\* No step drops an authenticated source and keeps an unauthenticated one of its route:
\* evict_global and evict_route look for unauthenticated victims first, and unregister
\* drops the whole route.
THEOREM AuthenticatedAlwaysKept == Spec => AuthenticatedKept
<1>1. SeatsInv /\ [Next]_vars =>
        [\A x \in Sources, y \in Sources :
           /\ cache.authed[x] /\ y \in Cached(cache) /\ ~cache.authed[y]
           /\ cache.bound[x].route = cache.bound[y].route
           /\ x \notin Cached(cache')
           => y \notin Cached(cache') \/ cache'.bound[y] # cache.bound[y]]_cache
  <2> SUFFICES ASSUME SeatsInv, [Next]_vars, cache' # cache
               PROVE  Keeps(cache, cache')
    BY Zenon DEF Keeps
  <2>1. Next
    BY Zenon DEF vars
  <2> QED BY <2>1, SeatsStep, Zenon DEF CacheStep, Fine
<1> QED BY <1>1, SeatsAlwaysSound, PTL DEF Spec, AuthenticatedKept

\* A replacement waits only while its participant has a seat: RemoveParticipant hands the
\* seat to the oldest waiting connection, so nobody waits for a seat that is free.
THEOREM AlwaysWaitingForTaken == Spec => []WaitingForTaken
<1>1. SeatsInv => WaitingForTaken
  BY Zenon DEF SeatsInv, Registry, WaitingForTaken, Seated
<1> QED BY <1>1, SeatsAlwaysSound, PTL
=============================================================================
