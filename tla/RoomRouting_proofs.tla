------------------------- MODULE RoomRouting_proofs -------------------------
(***************************************************************************)
(* Proofs about the room's control plane, for any number of shards,        *)
(* participants, connections and tracks: publications always belong to     *)
(* their publisher's current connection; an overtaken join is never        *)
(* committed; and a shard that has applied all it was sent holds exactly   *)
(* what the topology says, every update on the way having fitted it.       *)
(***************************************************************************)
EXTENDS RoomRouting, FiniteSetTheorems, TLAPS

-----------------------------------------------------------------------------
(* The lane of updates from the controller to a shard: what the updates    *)
(* still in it make of the shard's runtimes, plans and routes; that the    *)
(* controller may append what leads from its old placements to its new     *)
(* ones; and that the shard may apply the oldest.                          *)

\* q is a sequence, of whatever.
IsSeq(q) == \E U : q \in Seq(U)

\* What the updates of a lane add to the shard's runtimes and routes, and take
\* from them.
Entering(q) == [i \in DOMAIN q |-> DOMAIN q[i].views]
Leaving(q) == [i \in DOMAIN q |-> q[i].withdraws]
Installing(q) == [i \in DOMAIN q |-> q[i].installs]
Retiring(q) == [i \in DOMAIN q |-> q[i].retires]

\* The set S once the sets of A have been added and those of D taken away in turn.
Final(S, A, D) ==
  {t \in Tracks :
     \/ t \in S /\ \A j \in DOMAIN D : t \notin D[j]
     \/ \E i \in DOMAIN A : t \in A[i] /\ \A j \in DOMAIN D : i <= j => t \notin D[j]}

\* The runtimes and the routes of a shard once it has applied the lane q.
Holding(S, q) == Final(S, Entering(q), Leaving(q))
\* The routes it has installed then.
Routing(S, q) == Final(S, Installing(q), Retiring(q))

\* Every withdrawal along the lane finds its runtime.
Clean(S, q) ==
  \A i \in DOMAIN q : \A t \in q[i].withdraws :
    \/ t \in S /\ \A j \in DOMAIN q : j < i => t \notin q[j].withdraws
    \/ \E k \in DOMAIN q :
         /\ k < i /\ t \in DOMAIN q[k].views
         /\ \A j \in DOMAIN q : k <= j /\ j < i => t \notin q[j].withdraws

\* The update says whether the shard has t.
Told(u, t) == t \in DOMAIN u.views \/ t \in u.withdraws

\* The last view of t among the shard's plans and its lane forwards to `to`.
Fanned(plans, q, t, to) ==
  /\ t \in DOMAIN plans /\ (\A i \in DOMAIN q : ~Told(q[i], t)) => plans[t].remote = to
  /\ \A i \in DOMAIN q :
       t \in DOMAIN q[i].views /\ (\A j \in DOMAIN q : i < j => ~Told(q[j], t))
         => q[i].views[t].remote = to

\* A route is installed only together with its track's plan.
WellFormed(u) == u.installs \subseteq DOMAIN u.views /\ DOMAIN u.views \subseteq Tracks

\* The tracks with shard s in f[t], and where a plan of t on s forwards.
Here(f, s) == {t \in Tracks : s \in f[t]}
\* The remote shards the plan of t on shard s forwards to.
Fan(f, s, t) == IF s = OriginShard(t) THEN f[t] \ {s} ELSE {}

\* The lane q leads the shard S to the placements res and rtd of the controller.
LaneSound(q, S, res, rtd, s) ==
  /\ IsSeq(q)
  /\ \A i \in DOMAIN q : WellFormed(q[i])
  /\ S.runtime \subseteq Tracks /\ S.routes \subseteq Tracks /\ DOMAIN S.plans = S.runtime
  /\ Holding(S.runtime, q) = Here(res, s)
  /\ Routing(S.routes, q) = Here(rtd, s)
  /\ Clean(S.runtime, q)
  /\ \A t \in Here(res, s) : Fanned(S.plans, q, t, Fan(rtd, s, t))

\* The indices of a concatenation.
Joined(x, n, y, m, z) ==
  /\ DOMAIN x = 1 .. n /\ DOMAIN y = 1 .. m /\ DOMAIN z = 1 .. (n + m)
  /\ \A i \in 1 .. n : z[i] = x[i]
  /\ \A i \in 1 .. m : z[n + i] = y[i]

\* A concatenation, by its indices.
LEMMA SeqJoin ==
  ASSUME NEW q, NEW r, IsSeq(q), IsSeq(r)
  PROVE  /\ IsSeq(q \o r) /\ Len(q) \in Nat /\ Len(r) \in Nat
         /\ Joined(q, Len(q), r, Len(r), q \o r)
<1>1. PICK U : q \in Seq(U)
  BY DEF IsSeq
<1>2. PICK V : r \in Seq(V)
  BY DEF IsSeq
<1>3. q \in Seq(U \cup V) /\ r \in Seq(U \cup V)
  BY <1>1, <1>2
<1>4. q \o r \in Seq(U \cup V)
  BY <1>3
<1>5. Joined(q, Len(q), r, Len(r), q \o r)
  BY <1>3 DEF Joined
<1> QED BY <1>3, <1>4, <1>5, SMTT(30) DEF IsSeq

\* The effect of two lists of changes is that of one after the other.
LEMMA FinalJoin ==
  ASSUME NEW n \in Nat, NEW m \in Nat, NEW A, NEW D, NEW B, NEW E, NEW AB, NEW DE,
         Joined(A, n, B, m, AB), Joined(D, n, E, m, DE), NEW S
  PROVE  Final(S, AB, DE) = Final(Final(S, A, D), B, E)
<1>1. ASSUME NEW k \in 1 .. (n + m)
      PROVE  \/ k \in 1 .. n /\ AB[k] = A[k] /\ DE[k] = D[k]
             \/ k > n /\ (k - n) \in 1 .. m /\ AB[k] = B[k - n] /\ DE[k] = E[k - n]
  <2>1. CASE k <= n
    BY <2>1 DEF Joined
  <2>2. CASE k > n
    <3>1. (k - n) \in 1 .. m /\ n + (k - n) = k
      BY <2>2, SMTT(30)
    <3> QED BY <2>2, <3>1, SMTT(30) DEF Joined
  <2> QED BY <2>1, <2>2, SMTT(30)
<1>2. ASSUME NEW t \in Tracks, t \in Final(S, AB, DE)
      PROVE  t \in Final(Final(S, A, D), B, E)
  <2>1. CASE t \in S /\ \A j \in DOMAIN DE : t \notin DE[j]
    <3>1. \A j \in 1 .. n : t \notin D[j]
      BY <2>1 DEF Joined
    <3>2. \A j \in 1 .. m : t \notin E[j]
      BY <2>1, SMTT(30) DEF Joined
    <3>3. t \in Final(S, A, D)
      BY <2>1, <3>1 DEF Joined, Final
    <3> QED BY <3>3, <3>2, SMTT(30) DEF Joined, Final
  <2>2. ASSUME NEW i \in DOMAIN AB, t \in AB[i], \A j \in DOMAIN DE : i <= j => t \notin DE[j]
        PROVE  t \in Final(Final(S, A, D), B, E)
    <3>1. i \in 1 .. (n + m) /\ DOMAIN DE = 1 .. (n + m)
      BY <2>2, SMTT(30) DEF Joined
    <3>2. CASE i \in 1 .. n /\ AB[i] = A[i]
      <4>1. \A j \in 1 .. n : i <= j => t \notin D[j]
        BY <2>2, <3>1, SMTT(30) DEF Joined
      <4>2. \A j \in 1 .. m : t \notin E[j]
        BY <2>2, <3>1, <3>2, SMTT(30) DEF Joined
      <4>3. t \in Final(S, A, D)
        BY <2>2, <3>2, <4>1, Zenon DEF Joined, Final
      <4> QED BY <4>3, <4>2, SMTT(30) DEF Joined, Final
    <3>3. CASE i > n /\ (i - n) \in 1 .. m /\ AB[i] = B[i - n]
      <4>1. ASSUME NEW j \in 1 .. m, i - n <= j PROVE t \notin E[j]
        <5>1. n + j \in DOMAIN DE /\ DE[n + j] = E[j]
          BY <3>1 DEF Joined
        <5>2. i <= n + j
          BY <3>1, <4>1, SMTT(30)
        <5> QED BY <2>2, <5>1, <5>2, Zenon
      <4> DEFINE R == Final(S, A, D)  k == i - n
      <4>2. k \in DOMAIN B /\ t \in B[k] /\ \A j \in DOMAIN E : k <= j => t \notin E[j]
        BY <2>2, <3>3, <4>1, SMTT(30) DEF Joined
      <4> HIDE DEF R, k
      <4>3. t \in Final(R, B, E)
        BY <4>2, ZenonT(30) DEF Final
      <4> QED BY <4>3 DEF R
    <3> QED BY <3>1, <3>2, <3>3, <1>1, Zenon
  <2> QED BY <1>2, <2>1, <2>2, Zenon DEF Final
<1>3. ASSUME NEW t \in Tracks, t \in Final(Final(S, A, D), B, E)
      PROVE  t \in Final(S, AB, DE)
  <2>1. CASE t \in Final(S, A, D) /\ \A j \in DOMAIN E : t \notin E[j]
    <3>1. ASSUME NEW j \in DOMAIN DE, t \in DE[j] PROVE j \in DOMAIN D /\ DE[j] = D[j]
      BY <1>1, <2>1, <3>1, Zenon DEF Joined
    <3>2. CASE t \in S /\ \A j \in DOMAIN D : t \notin D[j]
      BY <3>1, <3>2, SMTT(30) DEF Final
    <3>3. ASSUME NEW i \in DOMAIN A, t \in A[i], \A j \in DOMAIN D : i <= j => t \notin D[j]
          PROVE  t \in Final(S, AB, DE)
      <4>1. i \in DOMAIN AB /\ t \in AB[i]
        BY <3>3 DEF Joined
      <4> QED BY <3>1, <3>3, <4>1, Zenon DEF Final
    <3> QED BY <2>1, <3>2, <3>3, Zenon DEF Final
  <2>2. ASSUME NEW i \in DOMAIN B, t \in B[i], \A j \in DOMAIN E : i <= j => t \notin E[j]
        PROVE  t \in Final(S, AB, DE)
    <3>1. i \in 1 .. m /\ n + i \in DOMAIN AB /\ t \in AB[n + i]
      BY <2>2 DEF Joined
    <3>2. ASSUME NEW j \in DOMAIN DE, n + i <= j PROVE t \notin DE[j]
      <4>1. j \in 1 .. (n + m) /\ j > n /\ i <= j - n
        BY <3>1, <3>2, SMTT(30) DEF Joined
      <4>2. (j - n) \in DOMAIN E /\ DE[j] = E[j - n]
        BY <4>1, <1>1 DEF Joined
      <4> QED BY <2>2, <4>1, <4>2, Zenon
    <3> QED BY <3>1, <3>2, SMTT(30) DEF Final
  <2> QED BY <1>3, <2>1, <2>2, Zenon DEF Final
<1>4. Final(S, AB, DE) \subseteq Tracks /\ Final(Final(S, A, D), B, E) \subseteq Tracks
  BY DEF Final
<1> QED BY <1>2, <1>3, <1>4, ZenonT(30)

\* Applying a lane and then another is applying the two joined.
LEMMA LanesJoin ==
  ASSUME NEW q, NEW r, IsSeq(q), IsSeq(r), NEW S
  PROVE  /\ Holding(S, q \o r) = Holding(Holding(S, q), r)
         /\ Routing(S, q \o r) = Routing(Routing(S, q), r)
<1> DEFINE n == Len(q)  m == Len(r)  z == q \o r
<1>1. n \in Nat /\ m \in Nat /\ Joined(q, n, r, m, z)
  BY SeqJoin, Zenon
<1> HIDE DEF n, m, z
<1>2. /\ Joined(Entering(q), n, Entering(r), m, Entering(z))
      /\ Joined(Leaving(q), n, Leaving(r), m, Leaving(z))
  BY <1>1, SMTT(30) DEF Joined, Entering, Leaving
<1>3. /\ Joined(Installing(q), n, Installing(r), m, Installing(z))
      /\ Joined(Retiring(q), n, Retiring(r), m, Retiring(z))
  BY <1>1 DEF Joined, Installing, Retiring
<1>4. Holding(S, z) = Holding(Holding(S, q), r)
  <2>1. Final(S, Entering(z), Leaving(z))
          = Final(Final(S, Entering(q), Leaving(q)), Entering(r), Leaving(r))
    BY <1>1, <1>2, FinalJoin, SMTT(30)
  <2> QED BY <2>1, ZenonT(30) DEF Holding
<1>5. Routing(S, z) = Routing(Routing(S, q), r)
  <2>1. Final(S, Installing(z), Retiring(z))
          = Final(Final(S, Installing(q), Retiring(q)), Installing(r), Retiring(r))
    BY <1>1, <1>3, FinalJoin
  <2> QED BY <2>1, Zenon DEF Routing
<1> QED BY <1>4, <1>5 DEF z

\* What one more update makes of the runtimes and routes.
LEMMA LaneOfOne ==
  ASSUME NEW u, NEW S, S \subseteq Tracks
  PROVE  /\ IsSeq(<<u>>) /\ IsSeq(<<>>)
         /\ Holding(S, <<u>>) = (S \cup (Tracks \cap DOMAIN u.views)) \ u.withdraws
         /\ Routing(S, <<u>>) = (S \cup (Tracks \cap u.installs)) \ u.retires
         /\ Holding(S, <<>>) = S /\ Routing(S, <<>>) = S
<1>1. <<u>> \in Seq({u}) /\ <<>> \in Seq({u})
  OBVIOUS
<1>2. DOMAIN <<u>> = 1 .. 1 /\ <<u>>[1] = u
  OBVIOUS
<1>3. \A i \in 1 .. 1 : i = 1
  OBVIOUS
<1> DEFINE q == <<u>>
<1>4. /\ DOMAIN Entering(q) = {1} /\ Entering(q)[1] = DOMAIN u.views
      /\ DOMAIN Leaving(q) = {1} /\ Leaving(q)[1] = u.withdraws
      /\ DOMAIN Installing(q) = {1} /\ Installing(q)[1] = u.installs
      /\ DOMAIN Retiring(q) = {1} /\ Retiring(q)[1] = u.retires
  <2>1. DOMAIN q = {1} /\ q[1] = u
    BY <1>2, <1>3, SMTT(30)
  <2> HIDE DEF q
  <2> QED BY <2>1, Zenon DEF Entering, Leaving, Installing, Retiring
<1> HIDE DEF q
<1>5. Holding(S, q) = (S \cup (Tracks \cap DOMAIN u.views)) \ u.withdraws
  BY <1>4, SMTT(30) DEF Holding, Final
<1>6. Routing(S, q) = (S \cup (Tracks \cap u.installs)) \ u.retires
  BY <1>4 DEF Routing, Final
<1>7. /\ DOMAIN Entering(<<>>) = {} /\ DOMAIN Leaving(<<>>) = {}
      /\ DOMAIN Installing(<<>>) = {} /\ DOMAIN Retiring(<<>>) = {}
  BY DEF Entering, Leaving, Installing, Retiring
<1>8. Holding(S, <<>>) = S /\ Routing(S, <<>>) = S
  BY <1>7, Zenon DEF Holding, Routing, Final
<1> QED BY <1>1, <1>5, <1>6, <1>8, Zenon DEF IsSeq, q

\* Withdrawals stay clean when a lane that is clean after q is joined to q.
LEMMA CleanJoin ==
  ASSUME NEW q, NEW r, IsSeq(q), IsSeq(r), NEW S, Clean(S, q), Clean(Holding(S, q), r)
  PROVE  Clean(S, q \o r)
<1> DEFINE n == Len(q)  m == Len(r)  z == q \o r
<1>1. n \in Nat /\ m \in Nat /\ Joined(q, n, r, m, z)
  BY SeqJoin, SMTT(30)
<1> HIDE DEF n, m, z
<1> DEFINE Ok(i, t) ==
      \/ t \in S /\ \A j \in DOMAIN z : j < i => t \notin z[j].withdraws
      \/ \E k \in DOMAIN z :
           /\ k < i /\ t \in DOMAIN z[k].views
           /\ \A j \in DOMAIN z : k <= j /\ j < i => t \notin z[j].withdraws
<1>2. ASSUME NEW i \in 1 .. n, NEW t \in z[i].withdraws PROVE Ok(i, t)
  <2>1. \A j \in DOMAIN z : j <= i => j \in DOMAIN q /\ z[j] = q[j]
    BY <1>1, SMTT(30) DEF Joined
  <2>2. i \in DOMAIN q /\ t \in q[i].withdraws /\ DOMAIN q \subseteq DOMAIN z /\ i \in Nat
    BY <1>1, <1>2, SMTT(30) DEF Joined
  <2>3. CASE t \in S /\ \A j \in DOMAIN q : j < i => t \notin q[j].withdraws
    BY <1>1, <2>1, <2>3, SMTT(30) DEF Joined
  <2>4. ASSUME NEW k \in DOMAIN q, k < i, t \in DOMAIN q[k].views,
               \A j \in DOMAIN q : k <= j /\ j < i => t \notin q[j].withdraws
        PROVE  Ok(i, t)
    <3>1. k \in DOMAIN z /\ t \in DOMAIN z[k].views
      BY <1>1, <2>4, SMTT(30) DEF Joined
    <3>2. \A j \in DOMAIN z : k <= j /\ j < i => t \notin z[j].withdraws
      BY <1>1, <2>1, <2>4, SMTT(30) DEF Joined
    <3> QED BY <2>4, <3>1, <3>2, Zenon
  <2> HIDE DEF Ok
  <2> QED BY <2>2, <2>3, <2>4, Zenon DEF Clean
<1>3. ASSUME NEW i \in 1 .. m, NEW t \in z[n + i].withdraws PROVE Ok(n + i, t)
  <2>1. ASSUME NEW j \in DOMAIN z, j < n + i
        PROVE  \/ j \in DOMAIN q /\ z[j] = q[j]
               \/ j > n /\ (j - n) \in DOMAIN r /\ j - n < i /\ z[j] = r[j - n]
    <3>1. CASE j <= n
      BY <1>1, <3>1, SMTT(30) DEF Joined
    <3>2. CASE j > n
      <4>1. (j - n) \in 1 .. m /\ n + (j - n) = j /\ j - n < i
        BY <1>1, <2>1, <3>2, SMTT(30) DEF Joined
      <4> QED BY <1>1, <3>2, <4>1, Zenon DEF Joined
    <3> QED BY <1>1, <3>1, <3>2, SMTT(30) DEF Joined
  <2>2. i \in DOMAIN r /\ t \in r[i].withdraws /\ i \in Nat
    BY <1>1, <1>3, SMTT(30) DEF Joined
  <2>3. CASE t \in Holding(S, q) /\ \A j \in DOMAIN r : j < i => t \notin r[j].withdraws
    <3>0. \A j \in DOMAIN z : j < n + i /\ t \in z[j].withdraws => j \in DOMAIN q /\ z[j] = q[j]
      BY <2>1, <2>3, Zenon
    <3>1. CASE t \in S /\ \A j \in DOMAIN q : t \notin q[j].withdraws
      BY <3>0, <3>1, Zenon
    <3>2. ASSUME NEW k \in DOMAIN q, t \in DOMAIN q[k].views,
                 \A j \in DOMAIN q : k <= j => t \notin q[j].withdraws
          PROVE  Ok(n + i, t)
      <4>1. k \in DOMAIN z /\ t \in DOMAIN z[k].views /\ k < n + i
        BY <1>1, <1>3, <3>2, SMTT(30) DEF Joined
      <4> QED BY <3>0, <3>2, <4>1, Zenon
    <3> HIDE DEF Ok
    <3> QED BY <2>3, <3>1, <3>2, Zenon DEF Holding, Final, Entering, Leaving
  <2>4. ASSUME NEW k \in DOMAIN r, k < i, t \in DOMAIN r[k].views,
               \A j \in DOMAIN r : k <= j /\ j < i => t \notin r[j].withdraws
        PROVE  Ok(n + i, t)
    <3>1. n + k \in DOMAIN z /\ t \in DOMAIN z[n + k].views /\ n + k < n + i /\ k >= 1
      BY <1>1, <1>3, <2>4, SMTT(30) DEF Joined
    <3>2. ASSUME NEW j \in DOMAIN z, n + k <= j, j < n + i PROVE t \notin z[j].withdraws
      <4>1. j > n /\ k <= j - n /\ j \in Nat
        BY <1>1, <2>4, <3>1, <3>2, SMTT(30) DEF Joined
      <4>2. (j - n) \in DOMAIN r /\ j - n < i /\ z[j] = r[j - n]
        BY <1>1, <2>1, <3>2, <4>1, SMTT(30) DEF Joined
      <4> QED BY <2>4, <4>1, <4>2, Zenon
    <3> QED BY <3>1, <3>2, Zenon
  <2> HIDE DEF Ok
  <2> QED BY <2>2, <2>3, <2>4, Zenon DEF Clean
<1>4. ASSUME NEW i \in DOMAIN z, NEW t \in z[i].withdraws PROVE Ok(i, t)
  <2>1. CASE i <= n
    BY <1>1, <1>2, <2>1, SMTT(30) DEF Joined
  <2>2. CASE i > n
    <3>1. (i - n) \in 1 .. m /\ n + (i - n) = i
      BY <1>1, <2>2, SMTT(30) DEF Joined
    <3> HIDE DEF Ok
    <3> QED BY <1>3, <3>1, Zenon
  <2> QED BY <1>1, <2>1, <2>2, SMTT(30) DEF Joined
<1> QED BY <1>4, ZenonT(30) DEF Clean, z

\* The updates r lead from the placements res and rtd to res2 and rtd2 on shard s.
Leads(r, res, rtd, res2, rtd2, s) ==
  /\ IsSeq(r) /\ \A i \in DOMAIN r : WellFormed(r[i])
  /\ Holding(Here(res, s), r) = Here(res2, s)
  /\ Routing(Here(rtd, s), r) = Here(rtd2, s)
  /\ Clean(Here(res, s), r)
  /\ \A t \in Here(res2, s) : \A i \in DOMAIN r :
       t \in DOMAIN r[i].views /\ (\A j \in DOMAIN r : i < j => ~Told(r[j], t))
         => r[i].views[t].remote = Fan(rtd2, s, t)
  /\ \A t \in Here(res2, s) : (\A i \in DOMAIN r : ~Told(r[i], t))
       => t \in Here(res, s) /\ Fan(rtd2, s, t) = Fan(rtd, s, t)

\* The controller may append to a sound lane what leads to its new placements.
LEMMA ExtendLane ==
  ASSUME NEW q, NEW r, NEW S, NEW res, NEW rtd, NEW res2, NEW rtd2, NEW s,
         LaneSound(q, S, res, rtd, s), Leads(r, res, rtd, res2, rtd2, s)
  PROVE  LaneSound(q \o r, S, res2, rtd2, s)
<1> DEFINE n == Len(q)  m == Len(r)  z == q \o r
<1>0. IsSeq(q) /\ Clean(S.runtime, q) /\ IsSeq(r) /\ Clean(Here(res, s), r)
  BY DEF LaneSound, Leads
<1>1. n \in Nat /\ m \in Nat /\ Joined(q, n, r, m, z) /\ IsSeq(z)
  BY <1>0, SeqJoin, Zenon
<1>2. Holding(S.runtime, z) = Here(res2, s) /\ Routing(S.routes, z) = Here(rtd2, s)
  <2>1. Holding(S.runtime, q) = Here(res, s) /\ Routing(S.routes, q) = Here(rtd, s)
    BY ZenonT(30) DEF LaneSound
  <2>2. /\ Holding(S.runtime, z) = Holding(Holding(S.runtime, q), r)
        /\ Routing(S.routes, z) = Routing(Routing(S.routes, q), r)
    BY <1>0, LanesJoin, SMTT(30)
  <2> QED BY <2>1, <2>2, Zenon DEF Leads
<1>3. Clean(S.runtime, z)
  <2>1. Holding(S.runtime, q) = Here(res, s)
    BY SMTT(30) DEF LaneSound
  <2> QED BY <1>0, <2>1, CleanJoin, ZenonT(30)
<1> HIDE DEF n, m, z
<1>4. ASSUME NEW i \in DOMAIN z
      PROVE  \/ i \in DOMAIN q /\ z[i] = q[i]
             \/ i > n /\ (i - n) \in DOMAIN r /\ z[i] = r[i - n]
  <2>1. CASE i <= n
    BY <1>1, <2>1, SMTT(30) DEF Joined
  <2>2. CASE i > n
    <3>1. (i - n) \in 1 .. m /\ n + (i - n) = i
      BY <1>1, <2>2, SMTT(30) DEF Joined
    <3> QED BY <1>1, <2>2, <3>1, Zenon DEF Joined
  <2> QED BY <1>1, <2>1, <2>2, SMTT(30) DEF Joined
<1>5. /\ \A i \in DOMAIN q : i \in DOMAIN z /\ z[i] = q[i] /\ i \in Nat /\ i <= n
      /\ \A i \in DOMAIN r : n + i \in DOMAIN z /\ z[n + i] = r[i] /\ i \in Nat /\ i >= 1
  BY <1>1 DEF Joined
<1>6. ASSUME NEW i \in DOMAIN z PROVE WellFormed(z[i])
  BY <1>4, Zenon DEF LaneSound, Leads
<1>7. ASSUME NEW t \in Here(res2, s) PROVE Fanned(S.plans, z, t, Fan(rtd2, s, t))
  <2> DEFINE to == Fan(rtd2, s, t)
  <2>0. ASSUME \A i \in DOMAIN r : ~Told(r[i], t)
        PROVE  Fanned(S.plans, q, t, to)
    BY <2>0, <1>7, Zenon DEF LaneSound, Leads
  <2>00. \A i \in DOMAIN r :
            t \in DOMAIN r[i].views /\ (\A j \in DOMAIN r : i < j => ~Told(r[j], t))
              => r[i].views[t].remote = to
    BY <1>7 DEF Leads
  <2> HIDE DEF to
  <2>1. ASSUME t \in DOMAIN S.plans, \A i \in DOMAIN z : ~Told(z[i], t)
        PROVE  S.plans[t].remote = to
    <3>1. \A i \in DOMAIN r : ~Told(r[i], t)
      BY <1>5, <2>1, ZenonT(30)
    <3>2. \A i \in DOMAIN q : ~Told(q[i], t)
      BY <1>5, <2>1, ZenonT(30)
    <3> QED BY <2>0, <2>1, <3>1, <3>2, ZenonT(30) DEF Fanned
  <2>2. ASSUME NEW i \in DOMAIN z, t \in DOMAIN z[i].views,
               \A j \in DOMAIN z : i < j => ~Told(z[j], t)
        PROVE  z[i].views[t].remote = to
    <3>1. CASE i \in DOMAIN q /\ z[i] = q[i]
      <4>1. \A j \in DOMAIN r : ~Told(r[j], t)
        <5>1. ASSUME NEW j \in DOMAIN r PROVE n + j \in DOMAIN z /\ z[n + j] = r[j] /\ i < n + j
          BY <1>1, <1>5, <3>1, SMTT(30)
        <5> QED BY <5>1, <2>2, Zenon
      <4>2. \A j \in DOMAIN q : i < j => ~Told(q[j], t)
        BY <1>5, <2>2, ZenonT(30)
      <4> QED BY <2>0, <2>2, <3>1, <4>1, <4>2, ZenonT(30) DEF Fanned
    <3>2. CASE i > n /\ (i - n) \in DOMAIN r /\ z[i] = r[i - n]
      <4>1. ASSUME NEW j \in DOMAIN r, i - n < j PROVE ~Told(r[j], t)
        <5>1. n + j \in DOMAIN z /\ z[n + j] = r[j]
          BY <1>5, Zenon
        <5>2. i \in Nat
          BY <1>1, <2>2, SMTT(30) DEF Joined
        <5>3. i < n + j
          BY <1>1, <1>5, <4>1, <5>2, SMTT(30)
        <5> QED BY <5>1, <5>3, <2>2, Zenon
      <4> QED BY <2>00, <2>2, <3>2, <4>1, Zenon
    <3> QED BY <1>4, <3>1, <3>2, Zenon
  <2> QED BY <2>1, <2>2, ZenonT(30) DEF Fanned, to
<1>8. S.runtime \subseteq Tracks /\ S.routes \subseteq Tracks /\ DOMAIN S.plans = S.runtime
  BY DEF LaneSound
<1> QED BY <1>1, <1>2, <1>3, <1>6, <1>7, <1>8, ZenonT(30) DEF LaneSound, z

\* What the update u makes of the tables S of a shard.
Steps(S, u, T) ==
  /\ T.runtime = (S.runtime \cup DOMAIN u.views) \ u.withdraws
  /\ T.routes = (S.routes \cup (u.installs \cap (S.runtime \cup DOMAIN u.views))) \ u.retires
  /\ DOMAIN T.plans = (DOMAIN S.plans \cup DOMAIN u.views) \ u.withdraws
  /\ \A t \in DOMAIN T.plans : T.plans[t].remote =
       (IF t \in DOMAIN u.views THEN u.views[t].remote ELSE S.plans[t].remote)

\* The shard may apply the oldest update of a sound lane.
LEMMA ApplyHead ==
  ASSUME NEW q, NEW S, NEW T, NEW res, NEW rtd, NEW s, LaneSound(q, S, res, rtd, s),
         q # <<>>, NEW u, u = Head(q), Steps(S, u, T)
  PROVE  LaneSound(Tail(q), T, res, rtd, s)
<1> USE DEF Steps
<1> DEFINE p == <<u>>  r == Tail(q)
<1>1. PICK U : q \in Seq(U)
  BY SMTT(30) DEF LaneSound, IsSeq
<1>2. q = p \o r /\ r \in Seq(U) /\ p \in Seq(U)
  BY <1>1, SMTT(30)
<1>3. IsSeq(p) /\ IsSeq(r)
  BY <1>2, Zenon DEF IsSeq
<1>4. Joined(p, 1, r, Len(r), q) /\ Len(r) \in Nat
  BY <1>1, SMTT(30) DEF Joined
<1>5. q[1] = u /\ 1 \in DOMAIN q
  BY <1>1, SMTT(30)
<1>6. WellFormed(u)
  BY <1>5, Zenon DEF LaneSound
<1>7. S.runtime \subseteq Tracks /\ S.routes \subseteq Tracks /\ DOMAIN S.plans = S.runtime
  BY SMTT(30) DEF LaneSound
<1>8. T.runtime = Holding(S.runtime, p) /\ T.routes = Routing(S.routes, p)
  <2>1. /\ Holding(S.runtime, p) = (S.runtime \cup (Tracks \cap DOMAIN u.views)) \ u.withdraws
        /\ Routing(S.routes, p) = (S.routes \cup (Tracks \cap u.installs)) \ u.retires
    BY <1>7, LaneOfOne, Zenon
  <2>2. Tracks \cap DOMAIN u.views = DOMAIN u.views /\ Tracks \cap u.installs = u.installs
    BY <1>6, Zenon DEF WellFormed
  <2>3. u.installs \cap (S.runtime \cup DOMAIN u.views) = u.installs
    BY <1>6, SMTT(30) DEF WellFormed
  <2> QED BY <2>1, <2>2, <2>3, Zenon
<1>9. Holding(T.runtime, r) = Here(res, s) /\ Routing(T.routes, r) = Here(rtd, s)
  <2>1. Holding(S.runtime, q) = Here(res, s) /\ Routing(S.routes, q) = Here(rtd, s)
    BY DEF LaneSound
  <2>2. /\ Holding(S.runtime, p \o r) = Holding(Holding(S.runtime, p), r)
        /\ Routing(S.routes, p \o r) = Routing(Routing(S.routes, p), r)
    BY <1>3, LanesJoin
  <2> HIDE DEF p, r
  <2> QED BY <1>2, <1>8, <2>1, <2>2, ZenonT(30)
<1>10. T.runtime \subseteq Tracks /\ T.routes \subseteq Tracks /\ DOMAIN T.plans = T.runtime
  BY <1>6, <1>7, ZenonT(30) DEF WellFormed
<1> HIDE DEF p, r
<1>11. \A i \in DOMAIN r : i \in Nat /\ i >= 1 /\ 1 + i \in DOMAIN q /\ q[1 + i] = r[i]
  BY <1>4, SMTT(30) DEF Joined
<1>12. \A i \in DOMAIN q : i = 1 \/ (i > 1 /\ (i - 1) \in DOMAIN r /\ q[i] = r[i - 1])
  <2>1. ASSUME NEW i \in DOMAIN q, i # 1
        PROVE  i > 1 /\ (i - 1) \in DOMAIN r /\ q[i] = r[i - 1]
    <3>1. (i - 1) \in 1 .. Len(r) /\ 1 + (i - 1) = i
      BY <1>4, <2>1, SMTT(30) DEF Joined
    <3> QED BY <1>4, <3>1, SMTT(30) DEF Joined
  <2> QED BY <2>1, Zenon
<1>13. \A i \in DOMAIN r : WellFormed(r[i])
  BY <1>11, Zenon DEF LaneSound
<1>14. Clean(T.runtime, r)
  <2> SUFFICES ASSUME NEW i \in DOMAIN r, NEW t \in r[i].withdraws
               PROVE  \/ t \in T.runtime /\ \A j \in DOMAIN r : j < i => t \notin r[j].withdraws
                      \/ \E k \in DOMAIN r :
                           /\ k < i /\ t \in DOMAIN r[k].views
                           /\ \A j \in DOMAIN r : k <= j /\ j < i => t \notin r[j].withdraws
    BY ZenonT(30) DEF Clean
  <2>1. 1 + i \in DOMAIN q /\ t \in q[1 + i].withdraws /\ i \in Nat /\ i >= 1
    BY <1>11, Zenon
  <2>2. Clean(S.runtime, q)
    BY Zenon DEF LaneSound
  <2>3. \A j \in DOMAIN r : j < i => 1 + j \in DOMAIN q /\ q[1 + j] = r[j] /\ 1 + j < 1 + i
    BY <1>11, <2>1, SMTT(30)
  <2>4. CASE t \in S.runtime /\ \A j \in DOMAIN q : j < 1 + i => t \notin q[j].withdraws
    <3>1. t \notin u.withdraws
      BY <1>5, <2>1, <2>4, SMTT(30)
    <3>2. \A j \in DOMAIN r : j < i => t \notin r[j].withdraws
      BY <2>3, <2>4, ZenonT(60)
    <3> QED BY <2>4, <3>1, <3>2, Zenon
  <2>5. ASSUME NEW k \in DOMAIN q, k < 1 + i, t \in DOMAIN q[k].views,
               \A j \in DOMAIN q : k <= j /\ j < 1 + i => t \notin q[j].withdraws
        PROVE  \/ t \in T.runtime /\ \A j \in DOMAIN r : j < i => t \notin r[j].withdraws
               \/ \E l \in DOMAIN r :
                    /\ l < i /\ t \in DOMAIN r[l].views
                    /\ \A j \in DOMAIN r : l <= j /\ j < i => t \notin r[j].withdraws
    <3>1. CASE k = 1
      <4>1. t \in DOMAIN u.views /\ t \notin u.withdraws
        BY <1>5, <2>1, <2>5, <3>1, SMTT(30)
      <4>2. \A j \in DOMAIN r : j < i => t \notin r[j].withdraws
        BY <1>11, <2>3, <2>5, <3>1, SMTT(30)
      <4> QED BY <4>1, <4>2, Zenon
    <3>2. CASE k > 1 /\ (k - 1) \in DOMAIN r /\ q[k] = r[k - 1]
      <4>0. k \in Nat
        BY <1>4, SMTT(30) DEF Joined
      <4>1. k - 1 < i /\ t \in DOMAIN r[k - 1].views
        BY <2>5, <3>2, <2>1, <4>0, SMTT(30)
      <4>2. ASSUME NEW j \in DOMAIN r, k - 1 <= j, j < i PROVE t \notin r[j].withdraws
        <5>1. 1 + j \in DOMAIN q /\ q[1 + j] = r[j] /\ 1 + j < 1 + i /\ k <= 1 + j
          <6>1. 1 + j \in DOMAIN q /\ q[1 + j] = r[j] /\ j \in Nat
            BY <1>11
          <6> QED BY <2>1, <4>0, <4>2, <6>1, SMTT(30)
        <5> QED BY <5>1, <2>5, Zenon
      <4> QED BY <3>2, <4>1, <4>2, Zenon
    <3> QED BY <1>12, <3>1, <3>2, Zenon
  <2> QED BY <2>1, <2>2, <2>4, <2>5, Zenon DEF Clean
<1>15. ASSUME NEW t \in Here(res, s) PROVE Fanned(T.plans, r, t, Fan(rtd, s, t))
  <2> DEFINE to == Fan(rtd, s, t)
  <2>1. Fanned(S.plans, q, t, to)
    BY SMTT(30) DEF LaneSound
  <2> HIDE DEF to
  <2>2. ASSUME t \in DOMAIN T.plans, \A i \in DOMAIN r : ~Told(r[i], t)
        PROVE  T.plans[t].remote = to
    <3>1. \A i \in DOMAIN q : i > 1 => ~Told(q[i], t)
      BY <1>12, <2>2, SMTT(30)
    <3>2. t \notin u.withdraws
      BY <2>2, SMTT(30)
    <3>3. CASE t \in DOMAIN u.views
      <4>1. u.views[t].remote = to
        BY <1>5, <2>1, <3>1, <3>3, Zenon DEF Fanned
      <4> QED BY <2>2, <3>3, <4>1, Zenon
    <3>4. CASE t \notin DOMAIN u.views
      <4>1. \A i \in DOMAIN q : ~Told(q[i], t)
        BY <1>5, <1>12, <3>1, <3>2, <3>4, Zenon DEF Told
      <4>2. t \in DOMAIN S.plans
        BY <2>2, <3>4
      <4>3. S.plans[t].remote = to
        BY <2>1, <4>1, <4>2, ZenonT(30) DEF Fanned
      <4> QED BY <2>2, <3>4, <4>3, Zenon
    <3> QED BY <3>3, <3>4, Zenon
  <2>3. ASSUME NEW i \in DOMAIN r, t \in DOMAIN r[i].views,
               \A j \in DOMAIN r : i < j => ~Told(r[j], t)
        PROVE  r[i].views[t].remote = to
    <3>1. 1 + i \in DOMAIN q /\ q[1 + i] = r[i] /\ i \in Nat /\ i >= 1
      BY <1>11, SMTT(30)
    <3>2. ASSUME NEW j \in DOMAIN q, 1 + i < j PROVE ~Told(q[j], t)
      <4>1. j > 1 /\ (j - 1) \in DOMAIN r /\ q[j] = r[j - 1] /\ i < j - 1
        <5>1. j \in Nat
          BY <1>4 DEF Joined
        <5> QED BY <5>1, <1>12, <3>1, <3>2, SMTT(30)
      <4> QED BY <4>1, <2>3, Zenon
    <3> QED BY <2>1, <2>3, <3>1, <3>2, Zenon DEF Fanned
  <2> QED BY <2>2, <2>3, ZenonT(30) DEF Fanned, to
<1> QED BY <1>3, <1>9, <1>10, <1>13, <1>14, <1>15, ZenonT(30) DEF LaneSound, r

-----------------------------------------------------------------------------
(* What the controller appends.                                            *)

\* A and D add the members of In and take those of Out one at a time, as o lists them.
OneByOne(n, o, In, Out, A, D) ==
  /\ In \subseteq Tracks /\ In \cap Out = {}
  /\ \A x \in In \cup Out : \E i \in 1 .. n : o[i] = x
  /\ DOMAIN A = 1 .. n /\ DOMAIN D = 1 .. n
  /\ \A i \in 1 .. n : A[i] = {o[i]} \cap In /\ D[i] = {o[i]} \cap Out

\* The outcome of such a list does not depend on its order.
LEMMA FinalListed ==
  ASSUME NEW n \in Nat, NEW o, NEW In, NEW Out, NEW A, NEW D, OneByOne(n, o, In, Out, A, D),
         NEW S, S \subseteq Tracks
  PROVE  Final(S, A, D) = (S \cup In) \ Out
<1>1. ASSUME NEW t \in Tracks, t \in Out PROVE t \notin Final(S, A, D)
  <2>1. PICK i \in 1 .. n : o[i] = t
    BY <1>1 DEF OneByOne
  <2>2. t \in D[i] /\ i \in DOMAIN D
    BY <2>1, <1>1, Zenon DEF OneByOne
  <2>3. \A k \in DOMAIN A : t \notin A[k]
    BY <1>1 DEF OneByOne
  <2> QED BY <2>2, <2>3, ZenonT(30) DEF Final
<1>2. ASSUME NEW t \in Tracks, t \notin Out PROVE t \in Final(S, A, D) <=> t \in S \cup In
  <2>1. \A k \in DOMAIN D : t \notin D[k]
    BY <1>2 DEF OneByOne
  <2>2. t \in In <=> \E k \in DOMAIN A : t \in A[k]
    BY <1>2 DEF OneByOne
  <2> QED BY <2>1, <2>2, ZenonT(30) DEF Final
<1>3. Final(S, A, D) \subseteq Tracks /\ (S \cup In) \ Out \subseteq Tracks
  BY DEF Final, OneByOne
<1> QED BY <1>1, <1>2, <1>3, ZenonT(30)

\* o enumerates S without repetition.
Lists(o, S) ==
  \E n \in Nat :
    /\ o \in [1 .. n -> S]
    /\ \A i, j \in 1 .. n : o[i] = o[j] => i = j
    /\ \A x \in S : \E i \in 1 .. n : o[i] = x

\* u tells the shard s what becomes of its part of the track t.
Recorded(u, t, res, rtd, res2, rtd2, s) ==
  /\ DOMAIN u.views = {x \in {t} : s \in res2[x]}
  /\ s \in res2[t] => u.views[t].remote = Fan(rtd2, s, t)
  /\ u.installs = {x \in {t} : s \in rtd2[x] \ rtd[x]}
  /\ u.retires = {x \in {t} : s \in rtd[x] \ rtd2[x]}
  /\ u.withdraws = {x \in {t} : s \in res[x] \ res2[x]}

\* Nothing becomes of it.
Untouched(t, res, rtd, res2, rtd2, s) ==
  /\ s \in res2[t] <=> s \in res[t]
  /\ s \in rtd2[t] <=> s \in rtd[t]
  /\ s \in res2[t] => Fan(rtd2, s, t) = Fan(rtd, s, t)

\* The tracks of S that have s, and those that have it by f and not by g.
Having(S, s, f) == {x \in S : s \in f[x]}
Gaining(S, s, f, g) == {x \in S : s \in f[x] \ g[x]}

\* Whether the track y is among them is the same in {y} and in X.
SameAlone(X, y, s, f, g) ==
  /\ Having({y}, s, f) = {y} \cap Having(X, s, f)
  /\ Gaining({y}, s, f, g) = {y} \cap Gaining(X, s, f, g)

\* It is, for every track y of X.
LEMMA OneOf ==
  ASSUME NEW X, NEW y \in X, NEW s, NEW f, NEW g
  PROVE  SameAlone(X, y, s, f, g)
<1>1. ASSUME NEW z PROVE /\ z \in Having({y}, s, f) <=> z \in {y} \cap Having(X, s, f)
                         /\ z \in Gaining({y}, s, f, g) <=> z \in {y} \cap Gaining(X, s, f, g)
  BY Zenon DEF Having, Gaining
<1>2. Having({y}, s, f) = {y} \cap Having(X, s, f)
  BY <1>1, Zenon
<1>3. Gaining({y}, s, f, g) = {y} \cap Gaining(X, s, f, g)
  BY <1>1, ZenonT(60)
<1> QED BY <1>2, <1>3, Zenon DEF SameAlone

\* One update per track that changes, in any order.
LEMMA ListedLeads ==
  ASSUME NEW X \in SUBSET Tracks, NEW o, Lists(o, X), NEW r, r = [i \in DOMAIN o |-> r[i]],
         NEW res, NEW rtd, NEW res2, NEW rtd2, NEW s,
         \A i \in DOMAIN o : /\ Recorded(r[i], o[i], res, rtd, res2, rtd2, s)
                             /\ s \in rtd2[o[i]] => s \in res2[o[i]],
         \A t \in Tracks \ X : Untouched(t, res, rtd, res2, rtd2, s)
  PROVE  Leads(r, res, rtd, res2, rtd2, s)
<1>3. PICK n \in Nat :
        /\ o \in [1 .. n -> X]
        /\ \A i, j \in 1 .. n : o[i] = o[j] => i = j
        /\ \A x \in X : \E i \in 1 .. n : o[i] = x
  BY Zenon DEF Lists
<1>6. DOMAIN r = 1 .. n /\ DOMAIN o = 1 .. n
  <2>1. DOMAIN o = 1 .. n
    BY <1>3
  <2> QED BY <2>1, Zenon
<1>9. ASSUME NEW i \in 1 .. n
      PROVE  /\ o[i] \in X /\ o[i] \in Tracks
             /\ DOMAIN r[i].views = {x \in {o[i]} : s \in res2[x]}
             /\ s \in res2[o[i]] => r[i].views[o[i]].remote = Fan(rtd2, s, o[i])
             /\ r[i].installs = {x \in {o[i]} : s \in rtd2[x] \ rtd[x]}
             /\ r[i].retires = {x \in {o[i]} : s \in rtd[x] \ rtd2[x]}
             /\ r[i].withdraws = {x \in {o[i]} : s \in res[x] \ res2[x]}
             /\ s \in rtd2[o[i]] => s \in res2[o[i]]
  BY <1>3, <1>6, Zenon DEF Recorded
<1>10. \A i \in DOMAIN r : WellFormed(r[i])
  <2> SUFFICES ASSUME NEW i \in 1 .. n PROVE WellFormed(r[i])
    BY <1>6
  <2> QED BY <1>9, ZenonT(60) DEF WellFormed
<1>11. Holding(Here(res, s), r) = Here(res2, s)
  <2> DEFINE In == {t \in X : s \in res2[t]}
             Out == {t \in X : s \in res[t] \ res2[t]}
             A == Entering(r)  D == Leaving(r)  H == Here(res, s)
  <2>1. DOMAIN A = 1 .. n /\ DOMAIN D = 1 .. n
    BY <1>6, Zenon DEF Entering, Leaving
  <2>2. ASSUME NEW i \in 1 .. n PROVE A[i] = {o[i]} \cap In /\ D[i] = {o[i]} \cap Out
    <3>1. A[i] = DOMAIN r[i].views /\ D[i] = r[i].withdraws
      BY <1>6 DEF Entering, Leaving
    <3>2. o[i] \in X /\ A[i] = Having({o[i]}, s, res2) /\ D[i] = Gaining({o[i]}, s, res, res2)
      BY <1>9, <3>1, Zenon DEF Having, Gaining
    <3>3. In = Having(X, s, res2) /\ Out = Gaining(X, s, res, res2)
      BY Zenon DEF Having, Gaining
    <3>4. SameAlone(X, o[i], s, res2, res) /\ SameAlone(X, o[i], s, res, res2)
      BY <3>2, OneOf, ZenonT(60)
    <3> HIDE DEF A, D, In, Out
    <3> QED BY <3>2, <3>3, <3>4, ZenonT(60) DEF SameAlone
  <2>3. In \in SUBSET X /\ Out \in SUBSET X /\ In \cap Out = {} /\ H \subseteq Tracks
    BY DEF Here
  <2>4. Here(res2, s) = (H \cup In) \ Out
    BY DEF Here, Untouched
  <2> HIDE DEF In, Out, A, D, H
  <2>5. Final(H, A, D) = (H \cup In) \ Out
    <3>1. OneByOne(n, o, In, Out, A, D)
      BY <1>3, <2>1, <2>2, <2>3, Zenon DEF OneByOne
    <3>2. n \in Nat /\ H \subseteq Tracks
      BY <1>3, <2>3
    <3> QED BY <3>1, <3>2, FinalListed
  <2> QED BY <2>4, <2>5 DEF Holding, A, D, H
<1>12. Routing(Here(rtd, s), r) = Here(rtd2, s)
  <2> DEFINE In == {t \in X : s \in rtd2[t] \ rtd[t]}
             Out == {t \in X : s \in rtd[t] \ rtd2[t]}
             A == Installing(r)  D == Retiring(r)  H == Here(rtd, s)
  <2>1. DOMAIN A = 1 .. n /\ DOMAIN D = 1 .. n
    BY <1>6, Zenon DEF Installing, Retiring
  <2>2. ASSUME NEW i \in 1 .. n PROVE A[i] = {o[i]} \cap In /\ D[i] = {o[i]} \cap Out
    <3>1. A[i] = r[i].installs /\ D[i] = r[i].retires
      BY <1>6 DEF Installing, Retiring
    <3>2. /\ o[i] \in X /\ A[i] = Gaining({o[i]}, s, rtd2, rtd)
          /\ D[i] = Gaining({o[i]}, s, rtd, rtd2)
      BY <1>9, <3>1, Zenon DEF Gaining
    <3>3. In = Gaining(X, s, rtd2, rtd) /\ Out = Gaining(X, s, rtd, rtd2)
      BY Zenon DEF Gaining
    <3>4. SameAlone(X, o[i], s, rtd2, rtd) /\ SameAlone(X, o[i], s, rtd, rtd2)
      BY <3>2, OneOf, ZenonT(60)
    <3> HIDE DEF A, D, In, Out
    <3> QED BY <3>2, <3>3, <3>4, ZenonT(60) DEF SameAlone
  <2>3. In \in SUBSET X /\ Out \in SUBSET X /\ In \cap Out = {} /\ H \subseteq Tracks
    BY DEF Here
  <2>4. Here(rtd2, s) = (H \cup In) \ Out
    BY Zenon DEF Here, Untouched
  <2> HIDE DEF In, Out, A, D, H
  <2>5. Final(H, A, D) = (H \cup In) \ Out
    <3>1. OneByOne(n, o, In, Out, A, D)
      BY <1>3, <2>1, <2>2, <2>3, Zenon DEF OneByOne
    <3>2. n \in Nat /\ H \subseteq Tracks
      BY <1>3, <2>3
    <3> QED BY <3>1, <3>2, FinalListed
  <2> QED BY <2>4, <2>5, Zenon DEF Routing, A, D, H
<1>13. Clean(Here(res, s), r)
  <2> SUFFICES ASSUME NEW i \in 1 .. n, NEW t \in r[i].withdraws
               PROVE  /\ t \in Here(res, s)
                      /\ \A j \in 1 .. n : j < i => t \notin r[j].withdraws
    BY <1>6, Zenon DEF Clean
  <2>1. t = o[i] /\ t \in Here(res, s)
    BY <1>9 DEF Here
  <2> QED BY <1>3, <1>9, <2>1
<1>14. ASSUME NEW t \in Here(res2, s), NEW i \in DOMAIN r, t \in DOMAIN r[i].views
       PROVE  r[i].views[t].remote = Fan(rtd2, s, t)
  BY <1>6, <1>9, <1>14
<1>15. ASSUME NEW t \in Here(res2, s), \A i \in DOMAIN r : ~Told(r[i], t)
       PROVE  t \in Here(res, s) /\ Fan(rtd2, s, t) = Fan(rtd, s, t)
  <2>1. t \in Tracks /\ s \in res2[t]
    BY DEF Here
  <2>2. t \notin X
    <3> SUFFICES ASSUME t \in X PROVE FALSE
      OBVIOUS
    <3>1. PICK i \in 1 .. n : o[i] = t
      BY <1>3
    <3>2. t \in DOMAIN r[i].views
      BY <1>9, <2>1, <3>1, Zenon
    <3> QED BY <1>6, <1>15, <3>2, Zenon DEF Told
  <2> QED BY <2>1, <2>2, Zenon DEF Here, Untouched
<1>16. IsSeq(r)
  <2>1. r \in Seq({r[i] : i \in 1 .. n})
    <3> DEFINE V == {r[i] : i \in 1 .. n}
    <3>1. \A i \in 1 .. n : r[i] \in V
      OBVIOUS
    <3>2. r = [i \in 1 .. n |-> r[i]]
      BY <1>6, Zenon
    <3> HIDE DEF V
    <3>3. r \in [1 .. n -> V]
      BY <3>1, <3>2, Zenon
    <3>4. r \in Seq(V)
      BY <1>3, <3>3
    <3> QED BY <3>4 DEF V
  <2> QED BY <2>1 DEF IsSeq
<1> QED BY <1>10, <1>11, <1>12, <1>13, <1>14, <1>15, <1>16, Zenon DEF Leads

\* The update u only takes things away, and leads to the placements res2 and rtd2.
Takes(u, res, rtd, res2, rtd2, s) ==
  /\ DOMAIN u.views = {} /\ u.installs = {} /\ u.withdraws \subseteq Here(res, s)
  /\ Here(res2, s) = Here(res, s) \ u.withdraws
  /\ Here(rtd2, s) = Here(rtd, s) \ u.retires
  /\ \A t \in Here(res2, s) : Fan(rtd2, s, t) = Fan(rtd, s, t)

\* Such an update, staged if it says anything.
LEMMA StageLane ==
  ASSUME NEW q, NEW S, NEW res, NEW rtd, NEW s, LaneSound(q, S, res, rtd, s),
         NEW u, NEW res2, NEW rtd2, Takes(u, res, rtd, res2, rtd2, s),
         NEW none, none.withdraws = {}, none.retires = {}
  PROVE  LaneSound(IF u = none THEN q ELSE Append(q, u), S, res2, rtd2, s)
<1>0. /\ Here(res, s) \subseteq Tracks /\ Here(rtd, s) \subseteq Tracks
      /\ Here(res2, s) \subseteq Here(res, s)
  BY Zenon DEF Here, Takes
<1>1. PICK U : q \in Seq(U)
  BY DEF LaneSound, IsSeq
<1> USE DEF Takes
<1>2. CASE u = none
  <2>1. Here(res2, s) = Here(res, s) /\ Here(rtd2, s) = Here(rtd, s)
    BY <1>2, ZenonT(30)
  <2> QED BY <1>2, <2>1, ZenonT(30) DEF LaneSound
<1>3. CASE u # none
  <2> DEFINE r == <<u>>
  <2>1. Append(q, u) = q \o r
    <3>1. q \in Seq(U \cup {u}) /\ u \in U \cup {u}
      BY <1>1, SMTT(30)
    <3> QED BY <3>1, SMTT(30)
  <2>2. DOMAIN r = {1} /\ r[1] = u
    BY SMTT(30)
  <2>3. /\ IsSeq(r)
        /\ Holding(Here(res, s), r) = (Here(res, s) \cup (Tracks \cap DOMAIN u.views)) \ u.withdraws
        /\ Routing(Here(rtd, s), r) = (Here(rtd, s) \cup (Tracks \cap u.installs)) \ u.retires
    BY <1>0, LaneOfOne, Zenon
  <2>4. Holding(Here(res, s), r) = Here(res2, s) /\ Routing(Here(rtd, s), r) = Here(rtd2, s)
    BY <2>3, ZenonT(30)
  <2> HIDE DEF r
  <2>5. \A i \in DOMAIN r : WellFormed(r[i])
    BY <2>2, Zenon DEF WellFormed
  <2>6. Clean(Here(res, s), r)
    BY <2>2, SMTT(30) DEF Clean
  <2>7. \A t \in Here(res2, s) : \A i \in DOMAIN r : t \notin DOMAIN r[i].views
    BY <2>2
  <2>8. LaneSound(q \o r, S, res2, rtd2, s)
    <3>1. Leads(r, res, rtd, res2, rtd2, s)
      BY <1>0, <2>3, <2>4, <2>5, <2>6, <2>7, ZenonT(30) DEF Leads
    <3> QED BY <3>1, ExtendLane, ZenonT(30)
  <2> QED BY <1>3, <2>1, <2>8, Zenon
<1> QED BY <1>2, <1>3, Zenon


LifeFields ==
  {"tracks", "subs", "allocated", "candidates", "bindings", "resident", "routed", "lane"}

\* L has the fields of the lifecycle state, and lists tracks of the room.
LifeShape(L) == L = [f \in LifeFields |-> L[f]] /\ L.tracks \subseteq Tracks

EventKinds == {"publish", "unpublish", "demand", "release", "open", "close", "exit"}

\* A publication event names a track of the connection that sent it.
HonestEvents ==
  {e \in [conn : Conns, kind : EventKinds, arg : Tracks \cup Topics \cup {None}] :
     e.kind = "publish" => e.arg \in Tracks /\ Origin[e.arg] = e.conn}

\* A participant's current connection is one of its own.
RegistryOwned ==
  /\ registry \in [Participants -> Conns \cup {None}]
  /\ \A p \in Participants : registry[p] # None => Owner[registry[p]] = p

\* The inductive strengthening of PublicationsCurrent: events under way are
\* honest, so the currency check of handle_shard_event is enough.
PublicationIInv ==
  /\ RegistryOwned
  /\ LifeShape(life)
  /\ events \in [Shards -> Seq(HonestEvents)]
  /\ PublicationsCurrent

-----------------------------------------------------------------------------
(* What the lifecycle operations do to the set of published tracks.        *)

\* Reconciliation recompiles plans; it neither publishes nor unpublishes.
LEMMA ReconcileAllKeepsTracks ==
  ASSUME NEW L, LifeShape(L), NEW ts
  PROVE  LifeShape(ReconcileAll(L, ts)) /\ ReconcileAll(L, ts).tracks = L.tracks
  BY Zenon DEF LifeShape, LifeFields, ReconcileAll

LEMMA RemoveTracksForgets ==
  ASSUME NEW L, LifeShape(L), NEW ts
  PROVE  LifeShape(RemoveTracks(L, ts)) /\ RemoveTracks(L, ts).tracks = L.tracks \ ts
  BY Zenon DEF LifeShape, LifeFields, RemoveTracks, Stage

LEMMA DismissKeepsTracks ==
  ASSUME NEW L, LifeShape(L), NEW c
  PROVE  LifeShape(Dismiss(L, c)) /\ Dismiss(L, c).tracks = L.tracks
  BY Zenon DEF LifeShape, LifeFields, Dismiss, Stage

\* terminate_incarnation unpublishes exactly the tracks of the participant.
LEMMA TerminationUnpublishes ==
  ASSUME NEW L, LifeShape(L), NEW c
  PROVE  /\ LifeShape(TerminateIncarnation(L, c))
         /\ TerminateIncarnation(L, c).tracks = {t \in L.tracks : Publisher(t) # Owner[c]}
<1> DEFINE p == Owner[c]
           own == {t \in L.tracks : Publisher(t) = p}
           affected == {t \in L.tracks \ own : p \in Candidates(L, t)}
           removed == RemoveTracks(L, own)
           gone == [removed EXCEPT !.subs = {x \in @ : x[1] # p},
                                   !.allocated = {a \in @ : a[1] # p}]
<1>1. LifeShape(removed) /\ removed.tracks = L.tracks \ own
  BY RemoveTracksForgets
<1>2. LifeShape(gone) /\ gone.tracks = removed.tracks
  <2> HIDE DEF removed, p
  <2> QED BY <1>1, Zenon DEF LifeShape, LifeFields
<1>3. LifeShape(ReconcileAll(gone, affected)) /\ ReconcileAll(gone, affected).tracks = gone.tracks
  <2> HIDE DEF gone, affected
  <2> QED BY <1>2, ReconcileAllKeepsTracks
<1>4. TerminateIncarnation(L, c) = Dismiss(ReconcileAll(gone, affected), c)
  BY DEF TerminateIncarnation
<1>5. /\ LifeShape(Dismiss(ReconcileAll(gone, affected), c))
      /\ Dismiss(ReconcileAll(gone, affected), c).tracks = ReconcileAll(gone, affected).tracks
  <2> HIDE DEF gone, affected
  <2> QED BY <1>3, DismissKeepsTracks
<1>6. L.tracks \ own = {t \in L.tracks : Publisher(t) # Owner[c]}
  OBVIOUS
<1> HIDE DEF gone, affected, removed, own
<1> QED BY <1>1, <1>2, <1>3, <1>4, <1>5, <1>6, Zenon

LEMMA HandlersShapeLife ==
  ASSUME NEW L, LifeShape(L), NEW p, NEW x, NEW on
  PROVE  /\ LifeShape(HandleDemand(L, p, x, on)) /\ HandleDemand(L, p, x, on).tracks = L.tracks
         /\ LifeShape(HandleTopic(L, p, x, on)) /\ HandleTopic(L, p, x, on).tracks = L.tracks
         /\ LifeShape(HandleUnpublish(L, x)) /\ HandleUnpublish(L, x).tracks = L.tracks \ {x}
<1> DEFINE allocated == [L EXCEPT !.allocated = IF on THEN @ \cup {<<p, x>>} ELSE @ \ {<<p, x>>}]
           changed == [L EXCEPT !.subs = IF on THEN @ \cup {<<p, x>>} ELSE @ \ {<<p, x>>}]
<1>1. LifeShape(allocated) /\ allocated.tracks = L.tracks
  BY Zenon DEF LifeShape, LifeFields
<1>2. LifeShape(changed) /\ changed.tracks = L.tracks
  BY Zenon DEF LifeShape, LifeFields
<1>3. LifeShape(HandleDemand(L, p, x, on)) /\ HandleDemand(L, p, x, on).tracks = L.tracks
  <2>1. HandleDemand(L, p, x, on) = ReconcileAll(allocated, {x})
    BY DEF HandleDemand, Reconcile
  <2> HIDE DEF allocated
  <2> QED BY <1>1, <2>1, ReconcileAllKeepsTracks, Zenon
<1>4. LifeShape(HandleTopic(L, p, x, on)) /\ HandleTopic(L, p, x, on).tracks = L.tracks
  <2> DEFINE ts == {t \in L.tracks : Label[t] = x}
  <2>1. HandleTopic(L, p, x, on) = L \/ HandleTopic(L, p, x, on) = ReconcileAll(changed, ts)
    BY DEF HandleTopic
  <2> HIDE DEF changed, ts
  <2> QED BY <1>2, <2>1, ReconcileAllKeepsTracks, Zenon
<1>5. LifeShape(HandleUnpublish(L, x)) /\ HandleUnpublish(L, x).tracks = L.tracks \ {x}
  BY RemoveTracksForgets DEF HandleUnpublish
<1> QED BY <1>3, <1>4, <1>5, Zenon

LEMMA PublishAdds ==
  ASSUME NEW L, LifeShape(L), NEW t \in Tracks
  PROVE  LifeShape(HandlePublish(L, t)) /\ HandlePublish(L, t).tracks = L.tracks \cup {t}
<1> DEFINE added == [L EXCEPT !.tracks = @ \cup {t}]
<1>1. LifeShape(added) /\ added.tracks = L.tracks \cup {t}
  BY Zenon DEF LifeShape, LifeFields
<1>2. t \notin L.tracks => HandlePublish(L, t) = ReconcileAll(added, {t})
  BY DEF HandlePublish, Reconcile
<1>3. t \in L.tracks => HandlePublish(L, t) = L
  BY DEF HandlePublish
<1> HIDE DEF added
<1> QED BY <1>1, <1>2, <1>3, ReconcileAllKeepsTracks, Zenon

LEMMA OwnerIsParticipant ==
  ASSUME NEW c \in Conns
  PROVE  Owner[c] \in Participants
  BY RoomAssumption DEF Conns

LEMMA PublisherIsParticipant ==
  ASSUME NEW t \in Tracks
  PROVE  Publisher(t) \in Participants
  BY RoomAssumption, OwnerIsParticipant DEF Publisher

-----------------------------------------------------------------------------
(* The invariant is inductive.                                             *)

LEMMA PublicationInit == Init => PublicationIInv
<1> SUFFICES ASSUME Init PROVE PublicationIInv
  OBVIOUS
<1>1. RegistryOwned
  BY DEF Init, RegistryOwned
<1>2. LifeShape(life)
  BY Zenon DEF Init, EmptyLife, LifeShape, LifeFields
<1>3. events \in [Shards -> Seq(HonestEvents)]
  BY DEF Init
<1>4. PublicationsCurrent
  BY DEF Init, EmptyLife, PublicationsCurrent
<1> QED BY <1>1, <1>2, <1>3, <1>4, Zenon DEF PublicationIInv

\* A step that changes neither the registry nor adds a publication.
LEMMA RegistryKept ==
  ASSUME PublicationIInv, registry' = registry, LifeShape(life'),
         life'.tracks \subseteq life.tracks, events' \in [Shards -> Seq(HonestEvents)]
  PROVE  PublicationIInv'
  BY ZenonT(30) DEF PublicationIInv, RegistryOwned, LifeShape, PublicationsCurrent

\* A step that gives a participant's registration to d, or to nobody, after the
\* participant's publications ended.
LEMMA RegistryMoved ==
  ASSUME PublicationIInv, NEW p \in Participants, NEW d \in Conns \cup {None},
         d # None => Owner[d] = p,
         registry' = [registry EXCEPT ![p] = d], LifeShape(life'),
         life'.tracks \subseteq {t \in life.tracks : Publisher(t) # p},
         events' \in [Shards -> Seq(HonestEvents)]
  PROVE  PublicationIInv'
<1>1. ASSUME NEW t \in life'.tracks PROVE registry'[Publisher(t)] = Origin[t]
  <2>1. t \in life.tracks /\ t \in Tracks /\ Publisher(t) # p
    BY <1>1, Zenon DEF PublicationIInv, LifeShape
  <2>2. registry[Publisher(t)] = Origin[t]
    BY <2>1 DEF PublicationIInv, PublicationsCurrent
  <2>3. Publisher(t) \in Participants
    BY <2>1, PublisherIsParticipant, Zenon
  <2> QED BY <2>1, <2>2, <2>3, Zenon DEF PublicationIInv, RegistryOwned
<1>2. RegistryOwned'
  BY DEF PublicationIInv, RegistryOwned
<1> QED BY <1>1, <1>2, Zenon DEF PublicationIInv, PublicationsCurrent, LifeShape

LEMMA CommitKeeps ==
  ASSUME PublicationIInv, NEW c \in Conns, Commit(c)
  PROVE  PublicationIInv'
<1> DEFINE p == Owner[c]
           left == IF registry[p] = None THEN life ELSE TerminateIncarnation(life, registry[p])
           subscribed == [left EXCEPT !.subs = @ \cup {<<p, l>> : l \in DefaultLabels}]
<1>1. p \in Participants
  BY OwnerIsParticipant, Zenon
<1>2. LifeShape(left) /\ left.tracks \subseteq {t \in life.tracks : Publisher(t) # p}
  <2>1. CASE registry[p] = None
    <3>1. ASSUME NEW t \in life.tracks PROVE Publisher(t) # p
      <4>1. t \in Tracks /\ registry[Publisher(t)] = Origin[t]
        BY DEF PublicationIInv, PublicationsCurrent, LifeShape
      <4>2. Origin[t] # None
        BY <4>1, RoomAssumption DEF Conns, None
      <4> QED BY <4>1, <4>2, <2>1, Zenon
    <3> QED BY <2>1, <3>1, Zenon DEF PublicationIInv
  <2>2. CASE registry[p] # None
    <3>1. Owner[registry[p]] = p
      BY <2>2, <1>1, Zenon DEF PublicationIInv, RegistryOwned
    <3> QED BY <2>2, <3>1, TerminationUnpublishes, SMTT(30) DEF PublicationIInv
  <2> QED BY <2>1, <2>2, Zenon
<1>3. LifeShape(subscribed) /\ subscribed.tracks = left.tracks
  <2> HIDE DEF left, p
  <2> QED BY <1>2, Zenon DEF LifeShape, LifeFields
<1>4. life' = ReconcileAll(subscribed, subscribed.tracks)
  BY DEF Commit
<1>5. LifeShape(life') /\ life'.tracks = left.tracks
  <2> HIDE DEF subscribed
  <2> QED BY <1>3, <1>4, ReconcileAllKeepsTracks, Zenon
<1>6. registry' = [registry EXCEPT ![p] = c] /\ events' = events
  BY DEF Commit
<1>7. Owner[c] = p /\ c \in Conns \cup {None}
  OBVIOUS
<1>8. events' \in [Shards -> Seq(HonestEvents)]
  BY <1>6 DEF PublicationIInv
<1>9. life'.tracks \subseteq {t \in life.tracks : Publisher(t) # p}
  BY <1>2, <1>5
<1> HIDE DEF left, p
<1> QED BY <1>1, <1>5, <1>6, <1>7, <1>8, <1>9, RegistryMoved, ZenonT(30)

\* Ending the current connection c, by remove_incarnation or after its exit.
LEMMA EndingKeeps ==
  ASSUME PublicationIInv, NEW c \in Conns,
         registry' = [registry EXCEPT ![Owner[c]] = None],
         life' = TerminateIncarnation(life, c),
         events' \in [Shards -> Seq(HonestEvents)]
  PROVE  PublicationIInv'
<1>1. Owner[c] \in Participants
  BY OwnerIsParticipant, Zenon
<1>2. LifeShape(life') /\ life'.tracks = {t \in life.tracks : Publisher(t) # Owner[c]}
  BY TerminationUnpublishes DEF PublicationIInv
<1> QED BY <1>1, <1>2, RegistryMoved, ZenonT(30)

\* Taking an event leaves honest events, and the event taken is honest.
LEMMA EventTaken ==
  ASSUME PublicationIInv, NEW s \in Shards, HandleEvent(s)
  PROVE  Event(s) \in HonestEvents /\ events' \in [Shards -> Seq(HonestEvents)]
<1>1. events[s] \in Seq(HonestEvents) /\ events[s] # <<>>
  BY DEF PublicationIInv, HandleEvent
<1>2. Head(events[s]) \in HonestEvents /\ Tail(events[s]) \in Seq(HonestEvents)
  BY <1>1
<1> QED BY <1>2 DEF Event, HandleEvent, PublicationIInv

LEMMA HandleTrackEventKeeps ==
  ASSUME PublicationIInv, NEW s \in Shards, HandleTrackEvent(s)
  PROVE  PublicationIInv'
<1> DEFINE e == Event(s)
           p == Owner[e.conn]
<1>1. e \in HonestEvents /\ events' \in [Shards -> Seq(HonestEvents)]
  BY EventTaken DEF HandleTrackEvent
<1>2. Current(e) /\ registry' = registry /\ LifeShape(life)
  BY DEF HandleTrackEvent, PublicationIInv
<1>3. CASE e.kind = "publish"
  <2>1. e.arg \in Tracks /\ Origin[e.arg] = e.conn
    BY <1>1, <1>3 DEF HonestEvents
  <2>2. life' = HandlePublish(life, e.arg)
    BY <1>3 DEF HandleTrackEvent
  <2>3. LifeShape(life') /\ life'.tracks = life.tracks \cup {e.arg}
    BY <1>2, <2>1, <2>2, PublishAdds, Zenon
  <2>4. registry[Publisher(e.arg)] = Origin[e.arg]
    BY <1>2, <2>1 DEF Current, Publisher
  <2> HIDE DEF e
  <2>5. \A t \in life'.tracks : registry'[Publisher(t)] = Origin[t]
    BY <1>2, <2>3, <2>4, Zenon DEF PublicationIInv, PublicationsCurrent
  <2>6. RegistryOwned'
    BY <1>2 DEF PublicationIInv, RegistryOwned
  <2> QED BY <1>1, <2>3, <2>5, <2>6, ZenonT(30) DEF PublicationIInv, PublicationsCurrent, LifeShape
<1>4. CASE e.kind # "publish"
  <2> DEFINE demand == e.kind = "demand"
             open == e.kind = "open"
  <2>1. e.kind \in EventKinds /\ e.kind # "exit"
    BY <1>1 DEF HandleTrackEvent, HonestEvents
  <2>2. ASSUME e.kind = "unpublish"
      PROVE  LifeShape(life') /\ life'.tracks \subseteq life.tracks
    <3>1. life' = HandleUnpublish(life, e.arg)
      BY <2>2 DEF HandleTrackEvent
    <3> QED BY <3>1, <1>2, HandlersShapeLife, ZenonT(60)
  <2>3. ASSUME e.kind \in {"demand", "release"}
      PROVE  LifeShape(life') /\ life'.tracks \subseteq life.tracks
    <3>1. life' = HandleDemand(life, p, e.arg, demand)
      BY <2>3, Zenon DEF HandleTrackEvent
    <3> HIDE DEF demand, p, e
    <3> QED BY <3>1, <1>2, HandlersShapeLife
  <2>4. ASSUME e.kind \in {"open", "close"}
      PROVE  LifeShape(life') /\ life'.tracks \subseteq life.tracks
    <3>1. life' = HandleTopic(life, p, e.arg, open)
      BY <2>4, Zenon DEF HandleTrackEvent
    <3> HIDE DEF open, p, e
    <3> QED BY <3>1, <1>2, HandlersShapeLife
  <2>5. LifeShape(life') /\ life'.tracks \subseteq life.tracks
    BY <1>4, <2>1, <2>2, <2>3, <2>4, Zenon DEF EventKinds
  <2> QED BY <1>1, <1>2, <2>5, RegistryKept, Zenon
<1> QED BY <1>3, <1>4

\* Connections announce only their own tracks.
LEMMA SendKeeps ==
  ASSUME PublicationIInv, UNCHANGED <<registry, life>>, NEW c \in Conns,
         NEW kind \in EventKinds, NEW arg \in Tracks \cup Topics \cup {None},
         kind = "publish" => arg \in Tracks /\ Origin[arg] = c,
         Send(c, kind, arg)
  PROVE  PublicationIInv'
<1>1. [conn |-> c, kind |-> kind, arg |-> arg] \in HonestEvents
  BY DEF HonestEvents
<1>2. Home[Owner[c]] \in Shards
  BY OwnerIsParticipant, RoomAssumption, Zenon
<1>3. events' \in [Shards -> Seq(HonestEvents)]
  BY <1>1, <1>2 DEF Send, PublicationIInv
<1> QED BY <1>3, RegistryKept, Zenon DEF PublicationIInv

LEMMA ClientKeeps ==
  ASSUME PublicationIInv, NEW c \in Conns, Client(c)
  PROVE  PublicationIInv'
<1>1. ASSUME NEW t \in Tracks, PublishTrack(c, t) PROVE PublicationIInv'
  BY <1>1, SendKeeps, Zenon DEF PublishTrack, ctlVars, EventKinds
<1>2. ASSUME NEW t \in Tracks, UnpublishTrack(c, t) PROVE PublicationIInv'
  BY <1>2, SendKeeps DEF UnpublishTrack, ctlVars, EventKinds
<1>3. ASSUME NEW t \in Tracks, ReconcileRoutes(c, t) PROVE PublicationIInv'
  <2>1. Send(c, "demand", t) \/ Send(c, "release", t)
    BY <1>3 DEF ReconcileRoutes
  <2>2. UNCHANGED <<registry, life>>
    BY <1>3 DEF ReconcileRoutes, ctlVars
  <2> QED BY <2>1, <2>2, SendKeeps, Zenon DEF EventKinds
<1>4. ASSUME NEW topic \in Topics, ToggleTopic(c, topic) PROVE PublicationIInv'
  <2>1. Send(c, "open", topic) \/ Send(c, "close", topic)
    BY <1>4 DEF ToggleTopic
  <2>2. UNCHANGED <<registry, life>>
    BY <1>4 DEF ToggleTopic, ctlVars
  <2> QED BY <2>1, <2>2, SendKeeps, Zenon DEF EventKinds
<1>5. ASSUME Exit(c) PROVE PublicationIInv'
  BY <1>5, SendKeeps, Zenon DEF Exit, ctlVars, EventKinds
<1> QED BY <1>1, <1>2, <1>3, <1>4, <1>5, Zenon DEF Client

LEMMA ShardKeeps ==
  ASSUME PublicationIInv, NEW s \in Shards, Shard(s)
  PROVE  PublicationIInv'
<1>1. CASE Materialize(s)
  BY <1>1, RegistryKept DEF Materialize, ctlVars, PublicationIInv
<1>2. CASE ApplyUpdate(s)
  <2>1. life' = [life EXCEPT !.lane[s] = Tail(@)] /\ registry' = registry /\ events' = events
    BY <1>2, Zenon DEF ApplyUpdate
  <2>2. LifeShape(life') /\ life'.tracks = life.tracks
    BY <2>1, ZenonT(30) DEF PublicationIInv, LifeShape, LifeFields
  <2> QED BY <2>1, <2>2, RegistryKept, ZenonT(30) DEF PublicationIInv
<1> QED BY <1>1, <1>2, ZenonT(60) DEF Shard

LEMMA ControllerKeeps ==
  ASSUME PublicationIInv, Controller
  PROVE  PublicationIInv'
<1>1. ASSUME NEW c \in Conns, StartMaterialization(c) PROVE PublicationIInv'
  BY <1>1, RegistryKept, Zenon DEF StartMaterialization, ctlVars, PublicationIInv
<1>2. ASSUME NEW c \in Conns, Reject(c) PROVE PublicationIInv'
  <2>1. LifeShape(life') /\ life'.tracks = life.tracks
    BY <1>2, DismissKeepsTracks DEF Reject, PublicationIInv
  <2> QED BY <1>2, <2>1, RegistryKept, Zenon DEF Reject, PublicationIInv
<1>3. ASSUME NEW c \in Conns, Commit(c) PROVE PublicationIInv'
  BY <1>3, CommitKeeps
<1>4. ASSUME NEW c \in Conns, RemoveIncarnation(c) PROVE PublicationIInv'
  BY <1>4, EndingKeeps, ZenonT(30) DEF RemoveIncarnation, PublicationIInv
<1>5. ASSUME NEW s \in Shards, HandleTrackEvent(s) PROVE PublicationIInv'
  BY <1>5, HandleTrackEventKeeps, Zenon
<1>6. ASSUME NEW s \in Shards, HandleExit(s) PROVE PublicationIInv'
  <2>1. Event(s).conn \in Conns /\ events' \in [Shards -> Seq(HonestEvents)]
    BY <1>6, EventTaken, Zenon DEF HandleExit, HonestEvents
  <2> QED BY <1>6, <2>1, EndingKeeps, ZenonT(30) DEF HandleExit
<1>7. ASSUME NEW s \in Shards, HandleStaleEvent(s) \/ HandleOrphan(s) PROVE PublicationIInv'
  BY <1>7, EventTaken, RegistryKept, Zenon DEF HandleStaleEvent, HandleOrphan, PublicationIInv
<1> QED BY <1>1, <1>2, <1>3, <1>4, <1>5, <1>6, <1>7, Zenon DEF Controller, Handle

LEMMA PublicationStep == PublicationIInv /\ [Next]_vars => PublicationIInv'
<1> SUFFICES ASSUME PublicationIInv, [Next]_vars PROVE PublicationIInv'
  OBVIOUS
<1>1. CASE UNCHANGED vars
  BY <1>1, RegistryKept DEF vars, ctlVars, PublicationIInv
<1> QED BY <1>1, ControllerKeeps, ShardKeeps, ClientKeeps, Zenon DEF Next

\* However events, replacements and exits interleave, and for any number of
\* shards and connections, a published track belongs to the current connection
\* of its publisher: the currency check of handle_shard_event, and
\* terminate_incarnation's removal of the participant's tracks, are enough.
THEOREM PublicationsAlwaysCurrent == Spec => []PublicationsCurrent
<1>1. PublicationIInv => PublicationsCurrent
  BY DEF PublicationIInv
<1> QED BY <1>1, PublicationInit, PublicationStep, PTL DEF Spec

-----------------------------------------------------------------------------
(* Overtaken joins.                                                        *)

\* Every overtaken join is fenced; the commit looks at the fence only.
FenceIInv ==
  /\ phase \in [Conns -> {"new", "refused", "joining", "answered", "exited"}]
  /\ overtaken \subseteq superseded /\ overtaken \subseteq Conns

LEMMA FenceInit == Init => FenceIInv
  BY Zenon DEF Init, FenceIInv

\* One step keeps the fence up to date and lets no overtaken join through.
LEMMA FenceStep ==
  ASSUME FenceIInv, [Next]_vars
  PROVE  /\ FenceIInv'
         /\ \A c \in overtaken : phase[c] = "joining" => phase'[c] # "answered"
<1>1. CASE UNCHANGED <<phase, superseded, overtaken>>
  BY <1>1, Zenon DEF FenceIInv
<1>2. ASSUME NEW c \in Conns, NEW value \in {"refused", "joining", "exited"},
             phase' = [phase EXCEPT ![c] = value], UNCHANGED <<superseded, overtaken>>
      PROVE  /\ FenceIInv'
             /\ \A d \in overtaken : phase[d] = "joining" => phase'[d] # "answered"
  BY <1>2, Zenon DEF FenceIInv
<1>3. ASSUME NEW c \in Conns, Commit(c)
      PROVE  /\ FenceIInv'
             /\ \A d \in overtaken : phase[d] = "joining" => phase'[d] # "answered"
  BY <1>3, Zenon DEF FenceIInv, Commit, Fenced, Overtaken, InFlight
<1>4. ASSUME NEW c \in Conns, StartMaterialization(c) \/ Reject(c) \/ Exit(c)
      PROVE  /\ UNCHANGED <<superseded, overtaken>>
             /\ \E value \in {"refused", "joining", "exited"} :
                  phase' = [phase EXCEPT ![c] = value]
  BY <1>4 DEF StartMaterialization, Reject, Exit, ctlVars
<1>5. ASSUME NEW c \in Conns, RemoveIncarnation(c) \/ (Client(c) /\ ~Exit(c))
      PROVE  UNCHANGED <<phase, superseded, overtaken>>
  BY <1>5, Zenon DEF RemoveIncarnation, Client, PublishTrack, UnpublishTrack, ReconcileRoutes,
              ToggleTopic, ctlVars, clientVars
<1>6. ASSUME NEW s \in Shards, Shard(s) \/ Handle(s)
      PROVE  UNCHANGED <<phase, superseded, overtaken>>
  BY <1>6, Zenon DEF Shard, Materialize, ApplyUpdate, Handle, HandleStaleEvent, HandleTrackEvent,
              HandleExit, HandleOrphan, HandleEvent, ctlVars, clientVars
<1>7. CASE UNCHANGED vars
  BY <1>7, <1>1, Zenon DEF vars, ctlVars, clientVars
<1> QED BY <1>1, <1>2, <1>3, <1>4, <1>5, <1>6, <1>7, Zenon DEF Next, Controller, Client

\* A join that was in flight when a newer incarnation of its participant
\* committed is never answered, whatever happens to the newer one: the fence of
\* commit_materialization replaces a check of the registry that could pass again.
THEOREM OvertakenNeverAnswered == Spec => NoResurrection
<1>1. FenceIInv /\ [Next]_vars => FenceIInv'
  BY FenceStep, Zenon
<1>2. FenceIInv /\ [Next]_vars =>
        [\A c \in overtaken : phase[c] = "joining" => phase'[c] # "answered"]_vars
  BY FenceStep
<1> QED BY <1>1, <1>2, FenceInit, PTL DEF Spec, NoResurrection
-----------------------------------------------------------------------------
(* What the controller stages.                                             *)

\* SetToSeq lists a finite set.
LEMMA SetToSeqLists ==
  ASSUME NEW S, IsFiniteSet(S)
  PROVE  Lists(SetToSeq(S), S)
<1> DEFINE n == Cardinality(S)  o == SetToSeq(S)
<1>1. n \in Nat /\ ExistsBijection(1 .. n, S)
  BY FS_CardinalityType
<1>2. \E f \in [1 .. n -> S] : IsInjective(f)
  BY <1>1, ZenonT(30) DEF ExistsBijection, Bijection, Injection
<1>3. o \in [1 .. n -> S] /\ IsInjective(o)
  BY <1>2, ZenonT(30) DEF SetToSeq
<1>4. o \in Injection(1 .. n, S)
  BY <1>3, ZenonT(30) DEF Injection
<1>5. Cardinality(1 .. n) = n
  BY <1>1, FS_Interval, SMTT(30)
<1> HIDE DEF o
<1>6. o \in Surjection(1 .. n, S)
  BY <1>4, <1>5, FS_Injection, Zenon
<1>7. \A x \in S : \E i \in 1 .. n : o[i] = x
  BY <1>6, ZenonT(30) DEF Surjection
<1>8. \A i, j \in 1 .. n : o[i] = o[j] => i = j
  BY <1>3, ZenonT(30) DEF IsInjective
<1> HIDE DEF n
<1> QED BY <1>1, <1>3, <1>7, <1>8, ZenonT(30) DEF Lists, o

\* Candidates live on resident shards, recipients on routed ones.
LEMMA PlacementsNested ==
  ASSUME NEW L, NEW t \in Tracks
  PROVE  /\ OriginShard(t) \in Shards /\ OriginShard(t) \in Resident(L, t)
         /\ Resident(L, t) \subseteq Shards /\ Routed(L, t) \subseteq Resident(L, t)
         /\ Active(L, t) = Routed(L, t) \ {OriginShard(t)}
<1>1. OriginShard(t) \in Shards
  BY PublisherIsParticipant, RoomAssumption, Zenon DEF OriginShard
<1>2. Candidates(L, t) \subseteq Participants /\ Bindings(L, t) \subseteq Candidates(L, t)
  BY DEF Candidates, Bindings
<1>3. ShardsOf(Candidates(L, t)) \subseteq Shards
  BY <1>2, RoomAssumption, Zenon DEF ShardsOf
<1>4. ShardsOf(Bindings(L, t)) \subseteq ShardsOf(Candidates(L, t))
  BY <1>2, Zenon DEF ShardsOf
<1> QED BY <1>1, <1>3, <1>4, ZenonT(30) DEF Resident, Routed, Active

\* An update that says nothing.
LEMMA NoUpdateFacts ==
  /\ DOMAIN NoUpdate.views = {} /\ NoUpdate.installs = {} /\ NoUpdate.retires = {}
  /\ NoUpdate.withdraws = {}
  BY DEF NoUpdate

\* What the reconciliation of t sends to s, its effects aside.
LEMMA TrackUpdateFacts ==
  ASSUME NEW L, NEW t \in Tracks, NEW s, NEW res2, NEW rtd2,
         res2[t] = Resident(L, t), rtd2[t] = Routed(L, t)
  PROVE  Recorded(TrackUpdate(L, t, s), t, L.resident, L.routed, res2, rtd2, s)
<1> DEFINE u == TrackUpdate(L, t, s)
<1>1. /\ u.installs = (IF s \in Routed(L, t) \ L.routed[t] THEN {t} ELSE {})
      /\ u.retires = (IF s \in L.routed[t] \ Routed(L, t) THEN {t} ELSE {})
      /\ u.withdraws = (IF s \in L.resident[t] \ Resident(L, t) THEN {t} ELSE {})
      /\ DOMAIN u.views = (IF s \in Resident(L, t) THEN {t} ELSE {})
      /\ s \in Resident(L, t) =>
           u.views[t].remote = IF s = OriginShard(t) THEN Active(L, t) ELSE {}
  BY ZenonT(30) DEF TrackUpdate
<1>2. Active(L, t) = Routed(L, t) \ {OriginShard(t)}
  BY PlacementsNested, Zenon
<1> HIDE DEF u
<1>3. s \in res2[t] => u.views[t].remote = Fan(rtd2, s, t)
  BY <1>1, <1>2, Zenon DEF Fan
<1>4. Recorded(u, t, L.resident, L.routed, res2, rtd2, s)
  BY <1>1, <1>3, ZenonT(30) DEF Recorded
<1> QED BY <1>4, Zenon DEF u

\* reconcile_all leads the shard to the new placements of the tracks ts.
LEMMA ReconcileLane ==
  ASSUME NEW L, NEW ts \in SUBSET Tracks, NEW s \in Shards, NEW S,
         LaneSound(L.lane[s], S, L.resident, L.routed, s), NEW res2, NEW rtd2,
         res2 = [t \in Tracks |-> IF t \in ts THEN Resident(L, t) ELSE L.resident[t]],
         rtd2 = [t \in Tracks |-> IF t \in ts THEN Routed(L, t) ELSE L.routed[t]]
  PROVE  LaneSound(StageTracks(L, ts)[s], S, res2, rtd2, s)
<1> DEFINE X == {t \in ts : TrackUpdate(L, t, s) # NoUpdate}
           o == SetToSeq(X)
           r == [i \in DOMAIN o |-> TrackUpdate(L, o[i], s)]
<1>1. X \in SUBSET Tracks /\ X \in SUBSET ts
  OBVIOUS
<1>2. Lists(o, X)
  <2> HIDE DEF X
  <2>1. IsFiniteSet(X)
    BY <1>1, RoomAssumption, FS_Subset, Zenon
  <2> QED BY <2>1, SetToSeqLists, Zenon
<1>3. StageTracks(L, ts)[s] = L.lane[s] \o r
  BY Zenon DEF StageTracks
<1>4. r = [i \in DOMAIN o |-> r[i]] /\ \A i \in DOMAIN o : r[i] = TrackUpdate(L, o[i], s)
  BY Zenon
<1>5. \A t \in Tracks \ X : t \in ts => TrackUpdate(L, t, s) = NoUpdate
  BY Zenon
<1> HIDE DEF X, o, r
<1>6. ASSUME NEW t \in ts
      PROVE  /\ res2[t] = Resident(L, t) /\ rtd2[t] = Routed(L, t) /\ t \in Tracks
             /\ Recorded(TrackUpdate(L, t, s), t, L.resident, L.routed, res2, rtd2, s)
  <2>1. res2[t] = Resident(L, t) /\ rtd2[t] = Routed(L, t) /\ t \in Tracks
    OBVIOUS
  <2> QED BY <2>1, TrackUpdateFacts, Zenon
<1>7. \A i \in DOMAIN o : /\ Recorded(r[i], o[i], L.resident, L.routed, res2, rtd2, s)
                          /\ s \in rtd2[o[i]] => s \in res2[o[i]]
  <2> SUFFICES ASSUME NEW i \in DOMAIN o
               PROVE  /\ Recorded(r[i], o[i], L.resident, L.routed, res2, rtd2, s)
                      /\ s \in rtd2[o[i]] => s \in res2[o[i]]
    BY Zenon
  <2>1. o[i] \in ts
    BY <1>1, <1>2, Zenon DEF Lists
  <2>2. Routed(L, o[i]) \subseteq Resident(L, o[i])
    BY <1>6, <2>1, PlacementsNested, Zenon
  <2> QED BY <1>4, <1>6, <2>1, <2>2, ZenonT(30)
<1>8. \A t \in Tracks \ X : Untouched(t, L.resident, L.routed, res2, rtd2, s)
  <2> SUFFICES ASSUME NEW t \in Tracks, t \notin X
               PROVE  Untouched(t, L.resident, L.routed, res2, rtd2, s)
    BY Zenon
  <2>1. CASE t \in ts
    <3>1. Recorded(NoUpdate, t, L.resident, L.routed, res2, rtd2, s)
      BY <1>5, <1>6, <2>1, Zenon
    <3> QED BY <3>1, NoUpdateFacts, Zenon DEF Recorded, Untouched
  <2>2. CASE t \notin ts
    BY <2>2, Zenon DEF Untouched, Fan
  <2> QED BY <2>1, <2>2
<1>9. Leads(r, L.resident, L.routed, res2, rtd2, s)
  BY <1>1, <1>2, <1>4, <1>7, <1>8, ListedLeads, ZenonT(30)
<1>10. LaneSound(L.lane[s] \o r, S, res2, rtd2, s)
  BY <1>9, ExtendLane, ZenonT(30)
<1> QED BY <1>3, <1>10, ZenonT(30)

-----------------------------------------------------------------------------
(* The lifecycle operations keep every lane sound.                         *)

\* Where each track is resident or routed.
Placements == [Tracks -> SUBSET Shards]

\* Placements are kept for published tracks only.
Ledger(L) ==
  /\ LifeShape(L)
  /\ L.resident \in Placements /\ L.routed \in Placements /\ DOMAIN L.lane = Shards
  /\ \A t \in Tracks \ L.tracks : L.resident[t] = {} /\ L.routed[t] = {}

\* Every lane leads its shard to the controller's placements.
Sound(L, sh) ==
  /\ Ledger(L)
  /\ \A s \in Shards : LaneSound(L.lane[s], sh[s], L.resident, L.routed, s)

\* Soundness depends on the tracks, the placements and the lanes only.
LEMMA SoundFrame ==
  ASSUME NEW L, NEW K, NEW sh, Sound(L, sh), LifeShape(K), L.tracks \subseteq K.tracks,
         K.resident = L.resident, K.routed = L.routed, K.lane = L.lane
  PROVE  Sound(K, sh)
  BY Zenon DEF Sound, Ledger

\* What reconcile_all makes of the controller's tables.
Reconciled(L, ts, K) ==
  /\ LifeShape(K) /\ K.tracks = L.tracks /\ K.subs = L.subs /\ K.allocated = L.allocated
  /\ K.resident = [t \in Tracks |-> IF t \in ts THEN Resident(L, t) ELSE L.resident[t]]
  /\ K.routed = [t \in Tracks |-> IF t \in ts THEN Routed(L, t) ELSE L.routed[t]]
  /\ K.lane = StageTracks(L, ts)

\* ReconcileAll does that.
LEMMA ReconcileAllFields ==
  ASSUME NEW L, LifeShape(L), NEW ts
  PROVE  Reconciled(L, ts, ReconcileAll(L, ts))
<1> SUFFICES ASSUME NEW K, K = ReconcileAll(L, ts) PROVE Reconciled(L, ts, K)
  OBVIOUS
<1>1. LifeShape(K) /\ K.tracks = L.tracks
  BY ReconcileAllKeepsTracks
<1> QED BY <1>1, ZenonT(30) DEF LifeShape, LifeFields, ReconcileAll, Reconciled

\* reconcile_all keeps the lanes sound.
LEMMA ReconcileSound ==
  ASSUME NEW L, NEW sh, Sound(L, sh), NEW ts \in SUBSET L.tracks
  PROVE  Sound(ReconcileAll(L, ts), sh)
<1> DEFINE K == ReconcileAll(L, ts)
<1>1. LifeShape(L) /\ ts \in SUBSET Tracks
  BY Zenon DEF Sound, Ledger, LifeShape
<1>2. /\ LifeShape(K) /\ K.tracks = L.tracks
      /\ K.resident = [t \in Tracks |-> IF t \in ts THEN Resident(L, t) ELSE L.resident[t]]
      /\ K.routed = [t \in Tracks |-> IF t \in ts THEN Routed(L, t) ELSE L.routed[t]]
      /\ K.lane = StageTracks(L, ts)
  <2>1. Reconciled(L, ts, K)
    BY <1>1, ReconcileAllFields, Zenon
  <2> QED BY <2>1, Zenon DEF Reconciled
<1> HIDE DEF K
<1>3. ASSUME NEW s \in Shards PROVE LaneSound(K.lane[s], sh[s], K.resident, K.routed, s)
  BY <1>1, <1>2, ReconcileLane, ZenonT(30) DEF Sound
<1>4. ASSUME NEW t \in Tracks PROVE Resident(L, t) \in SUBSET Shards /\ Routed(L, t) \in SUBSET Shards
  BY PlacementsNested, ZenonT(60)
<1>5. K.resident \in Placements /\ K.routed \in Placements
  BY <1>2, <1>4, SMTT(30) DEF Sound, Ledger, Placements
<1>6. ASSUME NEW t \in Tracks \ K.tracks PROVE K.resident[t] = {} /\ K.routed[t] = {}
  BY <1>2 DEF Sound, Ledger
<1>7. DOMAIN K.lane = Shards
  BY <1>2, Zenon DEF StageTracks
<1> QED BY <1>2, <1>3, <1>5, <1>6, <1>7, ZenonT(30) DEF Sound, Ledger, K

\* What the removal of tracks makes of them.
Removed(L, ts, K) ==
  /\ LifeShape(K) /\ K.tracks = L.tracks \ ts /\ K.subs = L.subs
  /\ K.allocated = {a \in L.allocated : a[2] \notin ts}
  /\ K.resident = [t \in Tracks |-> IF t \in ts THEN {} ELSE L.resident[t]]
  /\ K.routed = [t \in Tracks |-> IF t \in ts THEN {} ELSE L.routed[t]]
  /\ K.lane = Stage(L.lane, [s \in Shards |-> Removal(L, ts, s)])

\* RemoveTracks does that.
LEMMA RemoveTracksFields ==
  ASSUME NEW L, LifeShape(L), NEW ts
  PROVE  Removed(L, ts, RemoveTracks(L, ts))
<1> SUFFICES ASSUME NEW K, K = RemoveTracks(L, ts) PROVE Removed(L, ts, K)
  OBVIOUS
<1>1. LifeShape(K) /\ K.tracks = L.tracks \ ts
  BY RemoveTracksForgets
<1> QED BY <1>1, ZenonT(30) DEF LifeShape, LifeFields, RemoveTracks, Removed

\* The removal of tracks keeps the lanes sound.
LEMMA RemoveSound ==
  ASSUME NEW L, NEW sh, Sound(L, sh), NEW ts \in SUBSET Tracks
  PROVE  Sound(RemoveTracks(L, ts), sh)
<1> DEFINE K == RemoveTracks(L, ts)
<1>1. LifeShape(L)
  BY SMTT(30) DEF Sound, Ledger
<1>2. /\ LifeShape(K) /\ K.tracks = L.tracks \ ts
      /\ K.resident = [t \in Tracks |-> IF t \in ts THEN {} ELSE L.resident[t]]
      /\ K.routed = [t \in Tracks |-> IF t \in ts THEN {} ELSE L.routed[t]]
      /\ K.lane = Stage(L.lane, [s \in Shards |-> Removal(L, ts, s)])
  <2>1. Removed(L, ts, K)
    BY <1>1, RemoveTracksFields, Zenon
  <2> QED BY <2>1, ZenonT(30) DEF Removed
<1> HIDE DEF K
<1>3. ASSUME NEW s \in Shards PROVE LaneSound(K.lane[s], sh[s], K.resident, K.routed, s)
  <2> DEFINE u == Removal(L, ts, s)
  <2>1. K.lane[s] = IF u = NoUpdate THEN L.lane[s] ELSE Append(L.lane[s], u)
    BY <1>2, ZenonT(30) DEF Stage
  <2>2. /\ DOMAIN u.views = {} /\ u.installs = {}
        /\ u.withdraws = {t \in ts : s \in L.resident[t]}
        /\ u.retires = {t \in ts : s \in L.routed[t]}
    BY SMTT(30) DEF Removal, NoUpdate
  <2> HIDE DEF u
  <2>3. Here(K.resident, s) = Here(L.resident, s) \ u.withdraws
    BY <1>2, <2>2 DEF Here
  <2>4. Here(K.routed, s) = Here(L.routed, s) \ u.retires
    BY <1>2, <2>2, Zenon DEF Here
  <2>5. \A t \in Here(K.resident, s) : Fan(K.routed, s, t) = Fan(L.routed, s, t)
    BY <1>2, ZenonT(30) DEF Here, Fan
  <2>6. u.withdraws \subseteq Here(L.resident, s)
    BY <2>2 DEF Here
  <2>7. Takes(u, L.resident, L.routed, K.resident, K.routed, s)
    BY <2>2, <2>3, <2>4, <2>5, <2>6, Zenon DEF Takes
  <2>8. LaneSound(L.lane[s], sh[s], L.resident, L.routed, s)
    BY ZenonT(30) DEF Sound
  <2>9. LaneSound(IF u = NoUpdate THEN L.lane[s] ELSE Append(L.lane[s], u),
                  sh[s], K.resident, K.routed, s)
    BY <2>7, <2>8, StageLane, NoUpdateFacts, Zenon
  <2> QED BY <2>1, <2>9, Zenon
<1>4. K.resident \in Placements /\ K.routed \in Placements
  BY <1>2, SMTT(30) DEF Sound, Ledger, Placements
<1>5. ASSUME NEW t \in Tracks \ K.tracks PROVE K.resident[t] = {} /\ K.routed[t] = {}
  BY <1>2, Zenon DEF Sound, Ledger
<1>6. DOMAIN K.lane = Shards
  BY <1>2, ZenonT(30) DEF Stage
<1> QED BY <1>2, <1>3, <1>4, <1>5, <1>6, ZenonT(30) DEF Sound, Ledger, K

\* What the dismissal of a connection makes of them: placements stay.
Dismissed(L, c, K) ==
  /\ LifeShape(K) /\ K.tracks = L.tracks /\ K.subs = L.subs
  /\ K.allocated = L.allocated /\ K.resident = L.resident /\ K.routed = L.routed
  /\ K.lane = Stage(L.lane, [s \in Shards |->
    IF s = Home[Owner[c]] THEN [NoUpdate EXCEPT !.leavers = {c}] ELSE NoUpdate])

\* Dismiss does that.
LEMMA DismissFields ==
  ASSUME NEW L, LifeShape(L), NEW c
  PROVE  Dismissed(L, c, Dismiss(L, c))
<1> SUFFICES ASSUME NEW K, K = Dismiss(L, c) PROVE Dismissed(L, c, K)
  OBVIOUS
<1>1. LifeShape(K) /\ K.tracks = L.tracks
  BY DismissKeepsTracks
<1> QED BY <1>1, ZenonT(30) DEF LifeShape, LifeFields, Dismiss, Dismissed

\* The dismissal of a connection keeps the lanes sound.
LEMMA DismissSound ==
  ASSUME NEW L, NEW sh, Sound(L, sh), NEW c
  PROVE  Sound(Dismiss(L, c), sh)
<1> DEFINE K == Dismiss(L, c)
           update(s) == IF s = Home[Owner[c]] THEN [NoUpdate EXCEPT !.leavers = {c}] ELSE NoUpdate
<1>1. LifeShape(L)
  BY DEF Sound, Ledger
<1>2. /\ LifeShape(K) /\ K.tracks = L.tracks /\ K.resident = L.resident /\ K.routed = L.routed
      /\ K.lane = Stage(L.lane, [s \in Shards |-> update(s)])
  <2>1. Dismissed(L, c, K)
    BY <1>1, DismissFields, Zenon
  <2> QED BY <2>1, ZenonT(30) DEF Dismissed
<1> HIDE DEF K
<1>3. ASSUME NEW s \in Shards PROVE LaneSound(K.lane[s], sh[s], K.resident, K.routed, s)
  <2> DEFINE u == update(s)
  <2>1. K.lane[s] = IF u = NoUpdate THEN L.lane[s] ELSE Append(L.lane[s], u)
    BY <1>2, ZenonT(30) DEF Stage
  <2>2. DOMAIN u.views = {} /\ u.installs = {} /\ u.withdraws = {} /\ u.retires = {}
    BY DEF NoUpdate
  <2> HIDE DEF u
  <2>3. /\ Here(K.resident, s) = Here(L.resident, s) \ u.withdraws
        /\ Here(K.routed, s) = Here(L.routed, s) \ u.retires
        /\ u.withdraws \subseteq Here(L.resident, s)
    BY <1>2, <2>2, Zenon
  <2>4. LaneSound(L.lane[s], sh[s], L.resident, L.routed, s)
    BY DEF Sound
  <2>5. Takes(u, L.resident, L.routed, K.resident, K.routed, s)
    BY <1>2, <2>2, <2>3, ZenonT(30) DEF Takes
  <2>6. LaneSound(IF u = NoUpdate THEN L.lane[s] ELSE Append(L.lane[s], u),
                  sh[s], K.resident, K.routed, s)
    BY <2>4, <2>5, StageLane, NoUpdateFacts, Zenon
  <2> QED BY <2>1, <2>6, Zenon
<1>4. DOMAIN K.lane = Shards
  BY <1>2, ZenonT(30) DEF Stage
<1> QED BY <1>2, <1>3, <1>4, ZenonT(60) DEF Sound, Ledger, K

-----------------------------------------------------------------------------
(* The placements follow the topology.                                     *)

\* The placements of the track t are those its subscribers ask for.
Placed(L, t) == L.resident[t] = Resident(L, t) /\ L.routed[t] = Routed(L, t)

\* No published track waits to be reconciled.
Compiled(L) == \A t \in L.tracks : Placed(L, t)

\* A change of the topology that does not concern t.
LEMMA Unconcerned ==
  ASSUME NEW L, NEW K, NEW t, Candidates(K, t) = Candidates(L, t),
         \A p \in Candidates(L, t) : <<p, t>> \in K.allocated <=> <<p, t>> \in L.allocated
  PROVE  Resident(K, t) = Resident(L, t) /\ Routed(K, t) = Routed(L, t)
<1>1. Bindings(K, t) = Bindings(L, t)
  BY ZenonT(30) DEF Bindings
<1> QED BY <1>1, ZenonT(30) DEF Resident, Routed, Active

\* Reconciling every track that is not placed as it should be is enough.
LEMMA ReconcileCompiles ==
  ASSUME NEW L, Ledger(L), NEW ts \in SUBSET L.tracks, \A t \in L.tracks \ ts : Placed(L, t)
  PROVE  Compiled(ReconcileAll(L, ts))
<1> DEFINE K == ReconcileAll(L, ts)
<1>1. /\ K.tracks = L.tracks /\ K.subs = L.subs /\ K.allocated = L.allocated
      /\ K.resident = [t \in Tracks |-> IF t \in ts THEN Resident(L, t) ELSE L.resident[t]]
      /\ K.routed = [t \in Tracks |-> IF t \in ts THEN Routed(L, t) ELSE L.routed[t]]
  <2>1. Reconciled(L, ts, K)
    BY ReconcileAllFields, Zenon DEF Ledger
  <2> QED BY <2>1, ZenonT(30) DEF Reconciled
<1> HIDE DEF K
<1>2. ASSUME NEW t \in K.tracks PROVE Placed(K, t)
  <2>1. t \in Tracks /\ t \in L.tracks
    BY <1>1 DEF Ledger, LifeShape
  <2>2. Candidates(K, t) = Candidates(L, t)
    BY <1>1, ZenonT(30) DEF Candidates
  <2>3. Resident(K, t) = Resident(L, t) /\ Routed(K, t) = Routed(L, t)
    BY <1>1, <2>2, Unconcerned, ZenonT(30)
  <2> QED BY <1>1, <2>1, <2>3, Zenon DEF Placed
<1> QED BY <1>2, ZenonT(30) DEF Compiled, K

\* The removal of tracks leaves the others placed.
LEMMA RemovalStaysCompiled ==
  ASSUME NEW L, Ledger(L), Compiled(L), NEW ts
  PROVE  Compiled(RemoveTracks(L, ts))
<1> DEFINE K == RemoveTracks(L, ts)
<1>1. /\ K.tracks = L.tracks \ ts /\ K.subs = L.subs
      /\ K.allocated = {a \in L.allocated : a[2] \notin ts}
      /\ K.resident = [t \in Tracks |-> IF t \in ts THEN {} ELSE L.resident[t]]
      /\ K.routed = [t \in Tracks |-> IF t \in ts THEN {} ELSE L.routed[t]]
  <2>1. Removed(L, ts, K)
    BY RemoveTracksFields, Zenon DEF Ledger
  <2> QED BY <2>1, ZenonT(30) DEF Removed
<1> HIDE DEF K
<1>2. ASSUME NEW t \in K.tracks PROVE Placed(K, t)
  <2>1. t \in Tracks /\ t \in L.tracks /\ t \notin ts
    BY <1>1 DEF Ledger, LifeShape
  <2>2. Candidates(K, t) = Candidates(L, t)
    BY <1>1, ZenonT(30) DEF Candidates
  <2>3. \A p : <<p, t>> \in K.allocated <=> <<p, t>> \in L.allocated
    BY <1>1, <2>1, Zenon
  <2>4. Resident(K, t) = Resident(L, t) /\ Routed(K, t) = Routed(L, t)
    BY <2>2, <2>3, Unconcerned, ZenonT(30)
  <2> QED BY <1>1, <2>1, <2>4, Zenon DEF Placed, Compiled
<1> QED BY <1>2, ZenonT(30) DEF Compiled, K

\* The dismissal of a connection leaves the tracks placed.
LEMMA DismissStaysCompiled ==
  ASSUME NEW L, Ledger(L), Compiled(L), NEW c
  PROVE  Compiled(Dismiss(L, c))
<1> DEFINE K == Dismiss(L, c)
<1>1. /\ K.tracks = L.tracks /\ K.subs = L.subs /\ K.allocated = L.allocated
      /\ K.resident = L.resident /\ K.routed = L.routed
  <2>1. Dismissed(L, c, K)
    BY DismissFields DEF Ledger
  <2> QED BY <2>1, ZenonT(30) DEF Dismissed
<1> HIDE DEF K
<1>2. ASSUME NEW t PROVE Candidates(K, t) = Candidates(L, t)
  BY <1>1, ZenonT(30) DEF Candidates
<1>3. ASSUME NEW t \in K.tracks PROVE Placed(K, t)
  <2>1. Resident(K, t) = Resident(L, t) /\ Routed(K, t) = Routed(L, t)
    BY <1>1, <1>2, Unconcerned, ZenonT(60)
  <2> QED BY <1>1, <2>1, ZenonT(30) DEF Placed, Compiled
<1> QED BY <1>3, Zenon DEF Compiled, K

\* What every handler of the controller keeps.
Good(L, sh) == Sound(L, sh) /\ Compiled(L)

\* terminate_incarnation: its tracks go, then the tracks it received are reconciled.
LEMMA TerminationGood ==
  ASSUME NEW L, NEW sh, Good(L, sh), NEW c
  PROVE  Good(TerminateIncarnation(L, c), sh)
<1> DEFINE p == Owner[c]
           own == {t \in L.tracks : Publisher(t) = p}
           affected == {t \in L.tracks \ own : p \in Candidates(L, t)}
           removed == RemoveTracks(L, own)
           gone == [removed EXCEPT !.subs = {x \in @ : x[1] # p},
                                   !.allocated = {a \in @ : a[1] # p}]
           final == ReconcileAll(gone, affected)
<1>0. LifeShape(L) /\ Ledger(L) /\ own \in SUBSET Tracks
  BY DEF Good, Sound, Ledger, LifeShape
<1>1. TerminateIncarnation(L, c) = Dismiss(final, c)
  BY DEF TerminateIncarnation
<1>2. Sound(removed, sh) /\ Compiled(removed)
  BY <1>0, RemoveSound, RemovalStaysCompiled, ZenonT(30) DEF Good
<1>3. /\ LifeShape(removed) /\ removed.tracks = L.tracks \ own /\ removed.subs = L.subs
      /\ removed.allocated = {a \in L.allocated : a[2] \notin own}
  <2>1. Removed(L, own, removed)
    BY <1>0, RemoveTracksFields, Zenon
  <2> QED BY <2>1, ZenonT(30) DEF Removed
<1>4. ASSUME NEW t \in removed.tracks \ affected PROVE p \notin Candidates(removed, t)
  <2>1. t \in L.tracks \ own /\ p \notin Candidates(L, t)
    BY <1>3, ZenonT(60)
  <2> QED BY <1>3, <2>1, ZenonT(30) DEF Candidates
<1>5. affected \subseteq removed.tracks
  BY <1>3, Zenon
<1> HIDE DEF removed, affected, p
<1>6. /\ LifeShape(gone) /\ gone.tracks = removed.tracks
      /\ gone.subs = {x \in removed.subs : x[1] # p}
      /\ gone.allocated = {a \in removed.allocated : a[1] # p}
      /\ gone.resident = removed.resident /\ gone.routed = removed.routed
      /\ gone.lane = removed.lane
  BY <1>3, ZenonT(30) DEF LifeShape, LifeFields
<1> HIDE DEF gone
<1>7. Sound(gone, sh)
  BY <1>2, <1>6, SoundFrame, ZenonT(30)
<1>8. ASSUME NEW t \in gone.tracks \ affected PROVE Placed(gone, t)
  <2>1. t \in removed.tracks /\ p \notin Candidates(removed, t) /\ Placed(removed, t)
    BY <1>2, <1>4, <1>6, ZenonT(30) DEF Compiled
  <2>2. \A q : q # p => (<<q, Label[t]>> \in gone.subs <=> <<q, Label[t]>> \in removed.subs)
    BY <1>6, Zenon
  <2>3. <<p, Label[t]>> \notin gone.subs
    BY <1>6
  <2>4. Candidates(gone, t) = Candidates(removed, t)
    BY <2>1, <2>2, <2>3, ZenonT(30) DEF Candidates
  <2>5. \A q : q # p => (<<q, t>> \in gone.allocated <=> <<q, t>> \in removed.allocated)
    BY <1>6, Zenon
  <2>6. \A q \in Candidates(removed, t) :
          <<q, t>> \in gone.allocated <=> <<q, t>> \in removed.allocated
    BY <2>1, <2>5, ZenonT(30)
  <2>7. Resident(gone, t) = Resident(removed, t) /\ Routed(gone, t) = Routed(removed, t)
    BY <2>4, <2>6, Unconcerned, ZenonT(30)
  <2> QED BY <1>6, <2>1, <2>7, ZenonT(30) DEF Placed
<1>9. affected \in SUBSET gone.tracks
  BY <1>5, <1>6, ZenonT(30)
<1>10. Sound(final, sh) /\ Compiled(final)
  BY <1>7, <1>8, <1>9, ReconcileSound, ReconcileCompiles, ZenonT(30) DEF Sound
<1> HIDE DEF final
<1>11. Sound(Dismiss(final, c), sh) /\ Compiled(Dismiss(final, c))
  BY <1>10, DismissSound, DismissStaysCompiled, ZenonT(30) DEF Sound
<1> QED BY <1>1, <1>11, ZenonT(30) DEF Good

\* publish_track reconciles the track it adds.
LEMMA PublishGood ==
  ASSUME NEW L, NEW sh, Good(L, sh), NEW t \in Tracks
  PROVE  Good(HandlePublish(L, t), sh)
<1> DEFINE K == [L EXCEPT !.tracks = @ \cup {t}]
<1>0. LifeShape(L) /\ Sound(L, sh) /\ Compiled(L)
  BY DEF Good, Sound, Ledger
<1>1. /\ LifeShape(K) /\ K.tracks = L.tracks \cup {t} /\ K.subs = L.subs
      /\ K.allocated = L.allocated /\ K.resident = L.resident /\ K.routed = L.routed
      /\ K.lane = L.lane
  BY <1>0, ZenonT(30) DEF LifeShape, LifeFields
<1>2. HandlePublish(L, t) = IF t \in L.tracks THEN L ELSE ReconcileAll(K, {t})
  BY DEF HandlePublish, Reconcile
<1> HIDE DEF K
<1>3. Sound(K, sh)
  BY <1>0, <1>1, SoundFrame, ZenonT(30)
<1>4. ASSUME NEW x \in K.tracks \ {t} PROVE Placed(K, x)
  <2>1. x \in L.tracks /\ Placed(L, x)
    BY <1>0, <1>1, ZenonT(30) DEF Compiled
  <2>2. Candidates(K, x) = Candidates(L, x)
    BY <1>1, ZenonT(30) DEF Candidates
  <2>3. Resident(K, x) = Resident(L, x) /\ Routed(K, x) = Routed(L, x)
    BY <1>1, <2>2, Unconcerned, ZenonT(30)
  <2> QED BY <1>1, <2>1, <2>3, ZenonT(30) DEF Placed
<1>5. {t} \in SUBSET K.tracks
  BY <1>1, Zenon
<1>6. Good(ReconcileAll(K, {t}), sh)
  BY <1>3, <1>4, <1>5, ReconcileSound, ReconcileCompiles, ZenonT(30) DEF Sound, Good
<1> QED BY <1>2, <1>6, ZenonT(30)

\* unpublish_track removes the track.
LEMMA UnpublishGood ==
  ASSUME NEW L, NEW sh, Good(L, sh), NEW t
  PROVE  Good(HandleUnpublish(L, t), sh)
<1>1. L.tracks \subseteq Tracks
  BY DEF Good, Sound, Ledger, LifeShape
<1>2. CASE t \in L.tracks
  <2>1. {t} \in SUBSET Tracks
    BY <1>1, <1>2, Zenon
  <2>2. Sound(RemoveTracks(L, {t}), sh) /\ Compiled(RemoveTracks(L, {t}))
    BY <2>1, RemoveSound, RemovalStaysCompiled, ZenonT(30) DEF Good, Sound
  <2> QED BY <1>2, <2>2, ZenonT(30) DEF HandleUnpublish, Good
<1>3. CASE t \notin L.tracks
  BY <1>3, ZenonT(30) DEF HandleUnpublish
<1> QED BY <1>2, <1>3, Zenon

\* A change of a subscriber's demand reconciles the track it names.
LEMMA DemandGood ==
  ASSUME NEW L, NEW sh, Good(L, sh), NEW p, NEW t \in L.tracks, NEW on
  PROVE  Good(HandleDemand(L, p, t, on), sh)
<1> DEFINE K == [L EXCEPT !.allocated = IF on THEN @ \cup {<<p, t>>} ELSE @ \ {<<p, t>>}]
<1>0. LifeShape(L) /\ Sound(L, sh) /\ Compiled(L)
  BY DEF Good, Sound, Ledger
<1>1. /\ LifeShape(K) /\ K.tracks = L.tracks /\ K.subs = L.subs
      /\ K.allocated = (IF on THEN L.allocated \cup {<<p, t>>} ELSE L.allocated \ {<<p, t>>})
      /\ K.resident = L.resident /\ K.routed = L.routed /\ K.lane = L.lane
  BY <1>0, ZenonT(30) DEF LifeShape, LifeFields
<1>2. HandleDemand(L, p, t, on) = ReconcileAll(K, {t})
  BY DEF HandleDemand, Reconcile
<1> HIDE DEF K
<1>3. Sound(K, sh)
  BY <1>0, <1>1, SoundFrame, ZenonT(30)
<1>4. ASSUME NEW x \in K.tracks \ {t} PROVE Placed(K, x)
  <2>1. x \in L.tracks /\ Placed(L, x) /\ x # t
    BY <1>0, <1>1, ZenonT(30) DEF Compiled
  <2>2. Candidates(K, x) = Candidates(L, x)
    BY <1>1, ZenonT(30) DEF Candidates
  <2>3. \A q : <<q, x>> \in K.allocated <=> <<q, x>> \in L.allocated
    BY <1>1, <2>1, SMTT(30)
  <2>4. Resident(K, x) = Resident(L, x) /\ Routed(K, x) = Routed(L, x)
    BY <2>2, <2>3, Unconcerned, ZenonT(30)
  <2> QED BY <1>1, <2>1, <2>4, ZenonT(30) DEF Placed
<1>5. {t} \in SUBSET K.tracks
  BY <1>1, Zenon
<1>6. Good(ReconcileAll(K, {t}), sh)
  BY <1>3, <1>4, <1>5, ReconcileSound, ReconcileCompiles, ZenonT(30) DEF Sound, Good
<1> QED BY <1>2, <1>6, ZenonT(60)

\* A change of a subscriber's topics reconciles every track with that label.
LEMMA TopicGood ==
  ASSUME NEW L, NEW sh, Good(L, sh), NEW p, NEW topic, NEW on
  PROVE  Good(HandleTopic(L, p, topic, on), sh)
<1> DEFINE K == [L EXCEPT !.subs = IF on THEN @ \cup {<<p, topic>>} ELSE @ \ {<<p, topic>>}]
           ts == {t \in L.tracks : Label[t] = topic}
<1>0. LifeShape(L) /\ Sound(L, sh) /\ Compiled(L)
  BY DEF Good, Sound, Ledger
<1>1. /\ LifeShape(K) /\ K.tracks = L.tracks /\ K.allocated = L.allocated
      /\ K.subs = (IF on THEN L.subs \cup {<<p, topic>>} ELSE L.subs \ {<<p, topic>>})
      /\ K.resident = L.resident /\ K.routed = L.routed /\ K.lane = L.lane
  BY <1>0, ZenonT(30) DEF LifeShape, LifeFields
<1>2. HandleTopic(L, p, topic, on) = L \/ HandleTopic(L, p, topic, on) = ReconcileAll(K, ts)
  BY DEF HandleTopic
<1> HIDE DEF K
<1>3. Sound(K, sh)
  BY <1>0, <1>1, SoundFrame, ZenonT(30)
<1>4. ASSUME NEW x \in K.tracks \ ts PROVE Placed(K, x)
  <2>1. x \in L.tracks /\ Placed(L, x) /\ Label[x] # topic
    BY <1>0, <1>1, ZenonT(30) DEF Compiled
  <2>2. \A q : <<q, Label[x]>> \in K.subs <=> <<q, Label[x]>> \in L.subs
    BY <1>1, <2>1, SMTT(30)
  <2>3. Candidates(K, x) = Candidates(L, x)
    BY <2>2, ZenonT(30) DEF Candidates
  <2>4. Resident(K, x) = Resident(L, x) /\ Routed(K, x) = Routed(L, x)
    BY <1>1, <2>3, Unconcerned, ZenonT(30)
  <2> QED BY <1>1, <2>1, <2>4, ZenonT(30) DEF Placed
<1>5. ts \in SUBSET K.tracks
  BY <1>1
<1> HIDE DEF ts
<1>6. Good(ReconcileAll(K, ts), sh)
  BY <1>3, <1>4, <1>5, ReconcileSound, ReconcileCompiles, ZenonT(30) DEF Sound, Good
<1> QED BY <1>2, <1>6, ZenonT(30)

-----------------------------------------------------------------------------
(* Every step of the room keeps the lanes sound.                           *)

ShardFields == {"runtime", "routes", "plans", "held"}

\* A shard's tables have their fields.
ShardShape ==
  /\ shard = [s \in Shards |-> shard[s]]
  /\ \A s \in Shards : shard[s] = [f \in ShardFields |-> shard[s][f]]

\* The inductive strengthening of NothingLeaks: what is still in a shard's lane
\* leads it from what it holds to the controller's placements.
SettleIInv == PublicationIInv /\ ShardShape /\ Good(life, shard)

\* The room starts empty.
LEMMA SettleInit == Init => SettleIInv
<1> SUFFICES ASSUME Init PROVE SettleIInv
  OBVIOUS
<1>1. PublicationIInv
  BY PublicationInit
<1>2. ShardShape
  BY ZenonT(30) DEF Init, ShardShape, ShardFields
<1>3. /\ life.tracks = {} /\ life.resident = [t \in Tracks |-> {}]
      /\ life.routed = [t \in Tracks |-> {}] /\ life.lane = [s \in Shards |-> <<>>]
  BY Zenon DEF Init, EmptyLife
<1>4. Ledger(life)
  BY <1>1, <1>3, Zenon DEF Ledger, Placements, PublicationIInv
<1>5. ASSUME NEW s \in Shards
      PROVE  LaneSound(life.lane[s], shard[s], life.resident, life.routed, s)
  <2>1. shard[s] = [runtime |-> {}, routes |-> {}, plans |-> <<>>, held |-> <<>>]
    BY Zenon DEF Init
  <2>2. shard[s].runtime = {} /\ shard[s].routes = {} /\ DOMAIN shard[s].plans = {}
    BY <2>1, SMTT(30)
  <2>3. life.lane[s] = <<>> /\ DOMAIN life.lane[s] = {}
    BY <1>3, SMTT(30)
  <2>4. Here(life.resident, s) = {} /\ Here(life.routed, s) = {}
    BY <1>3, Zenon DEF Here
  <2>5. IsSeq(<<>>) /\ Holding({}, <<>>) = {} /\ Routing({}, <<>>) = {}
    BY LaneOfOne, Zenon
  <2>6. Clean({}, life.lane[s])
    BY <2>3, Zenon DEF Clean
  <2> QED BY <2>2, <2>3, <2>4, <2>5, <2>6, ZenonT(30) DEF LaneSound
<1>6. Compiled(life)
  BY <1>3 DEF Compiled
<1> QED BY <1>1, <1>2, <1>4, <1>5, <1>6, ZenonT(30) DEF SettleIInv, Good, Sound

\* A step of the controller.
LEMMA LifeMoves ==
  ASSUME SettleIInv, PublicationIInv', shard' = shard, Good(life', shard)
  PROVE  SettleIInv'
  BY Zenon DEF SettleIInv, ShardShape, Good, Sound, Ledger, LifeShape, Compiled, Placed,
     LaneSound

\* A connection becomes current: its predecessor, if any, is terminated.
LEMMA CommitSettles ==
  ASSUME SettleIInv, NEW c \in Conns, Commit(c)
  PROVE  Good(life', shard)
<1> DEFINE p == Owner[c]
           left == IF registry[p] = None THEN life ELSE TerminateIncarnation(life, registry[p])
           K == [left EXCEPT !.subs = @ \cup {<<p, l>> : l \in DefaultLabels}]
<1>1. life' = ReconcileAll(K, K.tracks)
  BY DEF Commit
<1>2. Good(left, shard)
  BY TerminationGood, ZenonT(30) DEF SettleIInv
<1> HIDE DEF left, p
<1>3. LifeShape(left) /\ Sound(left, shard)
  BY <1>2 DEF Good, Sound, Ledger
<1>4. /\ LifeShape(K) /\ K.tracks = left.tracks /\ K.resident = left.resident
      /\ K.routed = left.routed /\ K.lane = left.lane
  BY <1>3, ZenonT(30) DEF LifeShape, LifeFields
<1> HIDE DEF K
<1>5. Sound(K, shard)
  BY <1>3, <1>4, SoundFrame, ZenonT(30)
<1>6. K.tracks \in SUBSET K.tracks /\ \A t \in K.tracks \ K.tracks : Placed(K, t)
  OBVIOUS
<1>7. Sound(ReconcileAll(K, K.tracks), shard) /\ Compiled(ReconcileAll(K, K.tracks))
  BY <1>5, <1>6, ReconcileSound, ReconcileCompiles, ZenonT(30) DEF Sound
<1> QED BY <1>1, <1>7, ZenonT(30) DEF Good

\* A publication, demand or topic event of the current connection, or an exit.
LEMMA TrackEventSettles ==
  ASSUME SettleIInv, NEW s \in Shards, HandleTrackEvent(s)
  PROVE  Good(life', shard)
<1> DEFINE e == Event(s)  p == Owner[e.conn]
<1>1. e \in HonestEvents
  BY EventTaken, Zenon DEF HandleTrackEvent, SettleIInv
<1>2. e.kind \in EventKinds \ {"exit"}
  BY <1>1, Zenon DEF HonestEvents, HandleTrackEvent
<1>3. Good(life, shard)
  BY DEF SettleIInv
<1>4. CASE e.kind = "publish"
  <2>1. life' = HandlePublish(life, e.arg)
    BY <1>4 DEF HandleTrackEvent
  <2>2. e.arg \in Tracks
    BY <1>1, <1>4, Zenon DEF HonestEvents
  <2> QED BY <1>3, <2>1, <2>2, PublishGood, Zenon
<1>5. CASE e.kind = "unpublish"
  <2>1. life' = HandleUnpublish(life, e.arg)
    BY <1>5 DEF HandleTrackEvent
  <2> QED BY <1>3, <2>1, UnpublishGood, Zenon
<1>6. CASE e.kind \in {"demand", "release"}
  <2>1. life' = HandleDemand(life, p, e.arg, e.kind = "demand")
    BY <1>6, Zenon DEF HandleTrackEvent
  <2>2. e.arg \in life.tracks
    BY <1>6 DEF HandleTrackEvent, Orphan
  <2> QED BY <1>3, <2>1, <2>2, DemandGood, Zenon
<1>7. CASE e.kind \in {"open", "close"}
  <2>1. life' = HandleTopic(life, p, e.arg, e.kind = "open")
    BY <1>7, Zenon DEF HandleTrackEvent
  <2> QED BY <1>3, <2>1, TopicGood, Zenon
<1> HIDE DEF e
<1> QED BY <1>2, <1>4, <1>5, <1>6, <1>7, Zenon DEF EventKinds

\* Every step of the controller keeps the invariant.
LEMMA ControllerSettles ==
  ASSUME SettleIInv, Controller
  PROVE  shard' = shard /\ Good(life', shard)
<1>0. Good(life, shard)
  BY DEF SettleIInv
<1>1. ASSUME NEW c \in Conns, StartMaterialization(c) PROVE shard' = shard /\ life' = life
  BY <1>1, Zenon DEF StartMaterialization, ctlVars, shardVars
<1>2. ASSUME NEW c \in Conns, Reject(c) PROVE shard' = shard /\ Good(life', shard)
  <2>1. shard' = shard /\ (life' = life \/ life' = Dismiss(life, c))
    BY <1>2, Zenon DEF Reject, shardVars
  <2>2. Good(Dismiss(life, c), shard)
    BY <1>0, DismissSound, DismissStaysCompiled, Zenon DEF Good, Sound
  <2> QED BY <1>0, <2>1, <2>2, Zenon
<1>3. ASSUME NEW c \in Conns, Commit(c) PROVE shard' = shard /\ Good(life', shard)
  <2>1. shard' = shard
    BY <1>3, Zenon DEF Commit, shardVars
  <2> QED BY <1>3, <2>1, CommitSettles, Zenon
<1>4. ASSUME NEW c \in Conns, RemoveIncarnation(c) PROVE shard' = shard /\ Good(life', shard)
  <2>1. shard' = shard /\ life' = TerminateIncarnation(life, c)
    BY <1>4, Zenon DEF RemoveIncarnation, shardVars
  <2> QED BY <1>0, <2>1, TerminationGood, Zenon
<1>5. ASSUME NEW s \in Shards, Handle(s) PROVE shard' = shard /\ Good(life', shard)
  <2>0. shard' = shard
    BY <1>5, Zenon DEF Handle, HandleStaleEvent, HandleTrackEvent, HandleExit, HandleOrphan,
                HandleEvent, shardVars
  <2>1. CASE HandleStaleEvent(s) \/ HandleOrphan(s)
    <3>1. life' = life
      BY <2>1, Zenon DEF HandleStaleEvent, HandleOrphan
    <3> QED BY <1>0, <2>0, <3>1, Zenon
  <2>2. CASE HandleTrackEvent(s)
    BY <2>0, <2>2, TrackEventSettles, Zenon
  <2>3. CASE HandleExit(s)
    <3>1. life' = TerminateIncarnation(life, Event(s).conn)
      BY <2>3, Zenon DEF HandleExit
    <3> QED BY <1>0, <2>0, <3>1, TerminationGood, Zenon
  <2> QED BY <1>5, <2>1, <2>2, <2>3, Zenon DEF Handle
<1> QED BY <1>0, <1>1, <1>2, <1>3, <1>4, <1>5, Zenon DEF Controller

\* A connection is seated: only the held effects of its shard move.
LEMMA MaterializeSettles ==
  ASSUME SettleIInv, NEW s \in Shards, Materialize(s)
  PROVE  ShardShape' /\ Good(life, shard')
<1> DEFINE held == Deliver(peer, IF SeatFree(Owner[Head(commands[s])])
                                 THEN [seat EXCEPT ![Owner[Head(commands[s])]] = Head(commands[s])]
                                 ELSE seat, shard[s].runtime, shard[s].held).held
<1>1. shard' = [shard EXCEPT ![s].held = held]
  BY Zenon DEF Materialize
<1> HIDE DEF held
<1>2. ShardShape
  BY DEF SettleIInv
<1>3. ASSUME NEW x \in Shards
      PROVE  /\ shard'[x].runtime = shard[x].runtime /\ shard'[x].routes = shard[x].routes
             /\ shard'[x].plans = shard[x].plans
             /\ shard'[x] = [f \in ShardFields |-> shard'[x][f]]
  BY <1>1, <1>2, Zenon DEF ShardShape, ShardFields
<1>4. ShardShape'
  <2>1. shard' = [x \in Shards |-> shard'[x]]
    BY <1>1, <1>2, Zenon DEF ShardShape
  <2> QED BY <1>3, <2>1, Zenon DEF ShardShape
<1>5. ASSUME NEW x \in Shards
      PROVE  LaneSound(life.lane[x], shard'[x], life.resident, life.routed, x)
  <2>1. LaneSound(life.lane[x], shard[x], life.resident, life.routed, x)
    BY DEF SettleIInv, Good, Sound
  <2> QED BY <1>3, <2>1, Zenon DEF LaneSound
<1> QED BY <1>4, <1>5, Zenon DEF SettleIInv, Good, Sound

\* A shard applies the oldest update of its lane.
LEMMA ApplySettles ==
  ASSUME SettleIInv, NEW s \in Shards, ApplyUpdate(s)
  PROVE  ShardShape' /\ Good(life', shard')
<1> DEFINE q == life.lane[s]
           u == Head(q)
           old == shard[s]
           plans == [t \in (DOMAIN old.plans \cup DOMAIN u.views) \ u.withdraws |->
                       IF t \in DOMAIN u.views THEN Resolve(u.views[t], seat)
                       ELSE old.plans[t]]
<1>1. \E held : shard' = [shard EXCEPT ![s] =
        [runtime |-> (old.runtime \cup DOMAIN u.views) \ u.withdraws,
         routes |-> (old.routes \cup (u.installs \cap (old.runtime \cup DOMAIN u.views)))
                       \ u.retires,
         plans |-> plans, held |-> held]]
  BY Zenon DEF ApplyUpdate
<1>2. q # <<>> /\ life' = [life EXCEPT !.lane[s] = Tail(@)]
  BY ZenonT(60) DEF ApplyUpdate
<1>3. PICK held : shard' = [shard EXCEPT ![s] =
        [runtime |-> (old.runtime \cup DOMAIN u.views) \ u.withdraws,
         routes |-> (old.routes \cup (u.installs \cap (old.runtime \cup DOMAIN u.views)))
                       \ u.retires,
         plans |-> plans, held |-> held]]
  BY <1>1
<1> DEFINE new == shard'[s]
<1>4. LifeShape(life) /\ ShardShape /\ Sound(life, shard) /\ Compiled(life)
  BY DEF SettleIInv, Good, Sound, Ledger
<1>5. /\ LifeShape(life') /\ life'.tracks = life.tracks /\ life'.subs = life.subs
      /\ life'.allocated = life.allocated /\ life'.resident = life.resident
      /\ life'.routed = life.routed /\ life'.lane = [life.lane EXCEPT ![s] = Tail(@)]
  BY <1>2, <1>4, Zenon DEF LifeShape, LifeFields
<1>6. /\ new.runtime = (old.runtime \cup DOMAIN u.views) \ u.withdraws
      /\ new.routes = (old.routes \cup (u.installs \cap (old.runtime \cup DOMAIN u.views)))
                        \ u.retires
      /\ new.plans = plans
      /\ new = [f \in ShardFields |-> new[f]]
  BY <1>3, <1>4, Zenon DEF ShardShape, ShardFields
<1>7. ASSUME NEW x \in Shards, x # s PROVE shard'[x] = shard[x]
  BY <1>3, <1>4, <1>7, Zenon DEF ShardShape
<1>8. ShardShape'
  <2>1. shard' = [x \in Shards |-> shard'[x]]
    BY <1>3, <1>4, Zenon DEF ShardShape
  <2> QED BY <1>4, <1>6, <1>7, <2>1, Zenon DEF ShardShape
<1>9. /\ DOMAIN new.plans = (DOMAIN old.plans \cup DOMAIN u.views) \ u.withdraws
      /\ \A t \in DOMAIN new.plans : new.plans[t].remote =
           (IF t \in DOMAIN u.views THEN u.views[t].remote ELSE old.plans[t].remote)
  <2>1. DOMAIN new.plans = (DOMAIN old.plans \cup DOMAIN u.views) \ u.withdraws
    BY <1>6, Zenon
  <2>2. ASSUME NEW t \in DOMAIN new.plans
        PROVE new.plans[t] = (IF t \in DOMAIN u.views THEN Resolve(u.views[t], seat)
                              ELSE old.plans[t])
    BY <1>6, <2>1, Zenon
  <2>3. ASSUME NEW v PROVE Resolve(v, seat).remote = v.remote
    BY DEF Resolve
  <2> QED BY <2>1, <2>2, <2>3, Zenon
<1> HIDE DEF new, u, old, plans
<1>10. LaneSound(Tail(q), new, life.resident, life.routed, s)
  <2>1. LaneSound(q, old, life.resident, life.routed, s)
    BY <1>4, Zenon DEF Sound, old
  <2>2. u = Head(q)
    BY DEF u
  <2> HIDE DEF q
  <2>3. Steps(old, u, new)
    BY <1>6, <1>9, Zenon DEF Steps
  <2> QED BY <1>2, <2>1, <2>2, <2>3, ApplyHead, Zenon
<1>11. ASSUME NEW x \in Shards
       PROVE  LaneSound(life'.lane[x], shard'[x], life'.resident, life'.routed, x)
  <2>0. LaneSound(life.lane[x], shard[x], life.resident, life.routed, x)
    BY <1>4, Zenon DEF Sound
  <2>1. CASE x = s
    <3>1. s \in DOMAIN life.lane
      BY <1>4, Zenon DEF Sound, Ledger
    <3>2. life'.lane[x] = Tail(q)
      BY <1>5, <2>1, <3>1, Zenon
    <3> QED BY <1>5, <1>10, <2>1, <3>2, Zenon DEF new
  <2>2. CASE x # s
    <3>0. x \in DOMAIN life.lane
      BY <1>4, Zenon DEF Sound, Ledger
    <3>1. life'.lane[x] = life.lane[x]
      BY <1>5, <2>2, <3>0, Zenon
    <3> QED BY <1>5, <1>7, <2>0, <2>2, <3>1, Zenon
  <2> QED BY <2>1, <2>2, Zenon
<1>12. Ledger(life')
  <2>1. DOMAIN life'.lane = DOMAIN life.lane
    BY <1>5, Zenon
  <2> QED BY <1>4, <1>5, <2>1, Zenon DEF Sound, Ledger
<1>13. ASSUME NEW t \in life'.tracks PROVE Placed(life', t)
  <2>1. Placed(life, t) /\ Candidates(life', t) = Candidates(life, t)
    BY <1>4, <1>5, Zenon DEF Compiled, Candidates
  <2>2. Resident(life', t) = Resident(life, t) /\ Routed(life', t) = Routed(life, t)
    BY <1>5, <2>1, Unconcerned, Zenon
  <2> QED BY <1>5, <2>1, <2>2, Zenon DEF Placed
<1> QED BY <1>8, <1>11, <1>12, <1>13, Zenon DEF Good, Sound, Compiled

\* Every step of the system keeps the invariant.
LEMMA SettleStep == SettleIInv /\ [Next]_vars => SettleIInv'
<1> SUFFICES ASSUME SettleIInv, [Next]_vars PROVE SettleIInv'
  OBVIOUS
<1>0. PublicationIInv'
  BY PublicationStep DEF SettleIInv
<1>1. CASE Controller
  BY <1>0, <1>1, ControllerSettles, LifeMoves, Zenon
<1>2. ASSUME NEW s \in Shards, Materialize(s) PROVE SettleIInv'
  <2>1. life' = life
    BY <1>2, Zenon DEF Materialize, ctlVars
  <2> QED BY <1>0, <1>2, <2>1, MaterializeSettles, Zenon DEF SettleIInv
<1>3. ASSUME NEW s \in Shards, ApplyUpdate(s) PROVE SettleIInv'
  BY <1>0, <1>3, ApplySettles, Zenon DEF SettleIInv
<1>4. ASSUME NEW c \in Conns, Client(c) PROVE SettleIInv'
  <2>1. life' = life /\ shard' = shard
    BY <1>4, Zenon DEF Client, PublishTrack, UnpublishTrack, ReconcileRoutes, ToggleTopic, Exit,
                ctlVars, shardVars
  <2> QED BY <1>0, <2>1, LifeMoves, Zenon DEF SettleIInv
<1>5. CASE UNCHANGED vars
  <2>1. life' = life /\ shard' = shard
    BY <1>5, Zenon DEF vars, ctlVars, shardVars
  <2> QED BY <1>0, <2>1, LifeMoves, Zenon DEF SettleIInv
<1> QED BY <1>1, <1>2, <1>3, <1>4, <1>5, Zenon DEF Next, Shard

\* A recipient is a candidate, so what a shard needs it has a placement for.
LEMMA NeededResident ==
  ASSUME NEW s \in Shards
  PROVE  Needed(s) \subseteq {t \in life.tracks : s \in Resident(life, t)}
<1>1. ASSUME NEW t PROVE ShardsOf(Bindings(life, t)) \subseteq ShardsOf(Candidates(life, t))
  BY Zenon DEF ShardsOf, Bindings
<1> QED BY <1>1, Zenon DEF Needed, Resident

\* For any number of shards, tracks and connections and every interleaving of
\* joins, replacements, exits, publications and demands: a shard that has applied
\* all it was sent runs, plans and routes what the topology now says, and the
\* publisher's shard forwards to exactly the shards with a recipient.
THEOREM NothingEverLeaks == Spec => []NothingLeaks
<1>1. ASSUME SettleIInv PROVE NothingLeaks
  <2> SUFFICES ASSUME NEW s \in Shards, life.lane[s] = <<>>
               PROVE  /\ Needed(s) \subseteq shard[s].runtime
                      /\ shard[s].runtime \subseteq {t \in life.tracks : s \in Resident(life, t)}
                      /\ DOMAIN shard[s].plans = shard[s].runtime
                      /\ shard[s].routes = {t \in life.tracks : s \in Routed(life, t)}
                      /\ \A t \in DOMAIN shard[s].plans : shard[s].plans[t].remote =
                           (IF s = OriginShard(t) THEN Active(life, t) ELSE {})
    BY ZenonT(60) DEF NothingLeaks
  <2>1. LaneSound(<<>>, shard[s], life.resident, life.routed, s) /\ Ledger(life) /\ Compiled(life)
    BY <1>1 DEF SettleIInv, Good, Sound
  <2>2. /\ shard[s].runtime \subseteq Tracks /\ shard[s].routes \subseteq Tracks
        /\ DOMAIN shard[s].plans = shard[s].runtime
        /\ Holding(shard[s].runtime, <<>>) = Here(life.resident, s)
        /\ Routing(shard[s].routes, <<>>) = Here(life.routed, s)
        /\ \A t \in Here(life.resident, s) :
             Fanned(shard[s].plans, <<>>, t, Fan(life.routed, s, t))
    BY <2>1, ZenonT(60) DEF LaneSound
  <2>3. shard[s].runtime = Here(life.resident, s) /\ shard[s].routes = Here(life.routed, s)
    BY <2>2, LaneOfOne
  <2>4. /\ Here(life.resident, s) = {t \in life.tracks : s \in Resident(life, t)}
        /\ Here(life.routed, s) = {t \in life.tracks : s \in Routed(life, t)}
    BY <2>1 DEF Here, Ledger, LifeShape, Compiled, Placed
  <2>5. ASSUME NEW t \in DOMAIN shard[s].plans
        PROVE  shard[s].plans[t].remote = IF s = OriginShard(t) THEN Active(life, t) ELSE {}
    <3>1. t \in Here(life.resident, s) /\ t \in Tracks /\ t \in life.tracks
      BY <2>2, <2>3, <2>4
    <3>2. shard[s].plans[t].remote = Fan(life.routed, s, t)
      BY <2>2, <3>1 DEF Fanned
    <3>3. life.routed[t] = Routed(life, t)
      BY <2>1, <3>1, Zenon DEF Compiled, Placed
    <3>4. Active(life, t) = Routed(life, t) \ {OriginShard(t)}
      BY <3>1, PlacementsNested, Zenon
    <3> QED BY <3>2, <3>3, <3>4 DEF Fan
  <2>6. Needed(s) \subseteq shard[s].runtime
    BY <2>3, <2>4, NeededResident, Zenon
  <2> QED BY <2>2, <2>3, <2>4, <2>5, <2>6, Zenon
<1> QED BY <1>1, SettleInit, SettleStep, PTL DEF Spec

\* Every update a shard is about to apply fits it.
UpdatesFit == \A s \in Shards : life.lane[s] # <<>> => Fits(Head(life.lane[s]), s)

\* The assertions of apply_lifecycle_op never fail: whenever a shard takes an
\* update, its routes are for tracks the shard runs and its withdrawals are of
\* plans the shard holds.  (The other clauses of UpdatesApplyCleanly depend on who
\* is seated and are not proved.)
THEOREM UpdatesAlwaysFit == Spec => []UpdatesFit
<1>1. ASSUME SettleIInv PROVE UpdatesFit
  <2> SUFFICES ASSUME NEW s \in Shards, life.lane[s] # <<>>
               PROVE  Fits(Head(life.lane[s]), s)
    BY Zenon DEF UpdatesFit
  <2> DEFINE q == life.lane[s]
  <2>1. LaneSound(q, shard[s], life.resident, life.routed, s)
    BY <1>1, ZenonT(60) DEF SettleIInv, Good, Sound
  <2>2. PICK U : q \in Seq(U)
    BY <2>1, Zenon DEF LaneSound, IsSeq
  <2> HIDE DEF q
  <2>3. q # <<>>
    BY DEF q
  <2>4. 1 \in DOMAIN q /\ Head(q) = q[1] /\ \A j \in DOMAIN q : ~(j < 1)
    BY <2>2, <2>3
  <2>5. q[1].installs \subseteq DOMAIN q[1].views
    BY <2>1, <2>4, Zenon DEF LaneSound, WellFormed
  <2>6. q[1].withdraws \subseteq shard[s].runtime
    BY <2>1, <2>4, ZenonT(60) DEF LaneSound, Clean
  <2>7. DOMAIN shard[s].plans = shard[s].runtime
    BY <2>1 DEF LaneSound
  <2> QED BY <2>4, <2>5, <2>6, <2>7, Zenon DEF Fits, q
<1> QED BY <1>1, SettleInit, SettleStep, PTL DEF Spec
=============================================================================
