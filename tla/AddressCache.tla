---------------------------- MODULE AddressCache ----------------------------
(***************************************************************************)
(* The demultiplexer of a shard (shard/demux.rs): which transport address  *)
(* a packet's source belongs to.  Four kinds of recency lists thread the   *)
(* entries: one global list and one list per route, each split by whether  *)
(* the source has authenticated.  A list is a sequence here, most recent   *)
(* first; the code links the entries through prev and next fields.         *)
(*                                                                         *)
(* A transport address is a route and an epoch.  The cache is a record C   *)
(* that the methods of Demuxer transform; ShardSeats calls them.           *)
(***************************************************************************)
EXTENDS Naturals, FiniteSets, SequenceOps

CONSTANTS
  Sources,     \* source socket addresses
  Routes,      \* transport routes
  Epochs,      \* epochs of a route
  MaxPerRoute, \* MAX_ADDRS_PER_ROUTE (16)
  MaxEntries   \* MAX_ADDR_ENTRIES (65,536)

ASSUME CacheAssumption ==
  /\ MaxPerRoute \in Nat \ {0} /\ MaxEntries \in Nat \ {0}
  /\ "none" \notin Routes

VARIABLE cache

Address == [route : Routes, epoch : Epochs]
Unbound == [route |-> "none", epoch |-> 0]

Empty ==
  [bound  |-> [x \in Sources |-> Unbound],  \* addr_map: CachedRoute.address
   authed |-> [x \in Sources |-> FALSE],    \* addr_map: CachedRoute.authenticated
   global |-> [flag \in BOOLEAN |-> <<>>],  \* Demuxer.authenticated, unauthenticated
   local  |-> [r \in Routes |-> [flag \in BOOLEAN |-> <<>>]]]  \* route_addrs

Cached(C) == {x \in Sources : C.bound[x] # Unbound}
Size(C) == Cardinality(Cached(C))
RouteLen(C, r) == Len(C.local[r][TRUE]) + Len(C.local[r][FALSE])

\* unlink_global and unlink_route
Unlink(C, x) ==
  [C EXCEPT !.global[C.authed[x]] = RemoveFirst(@, x),
            !.local[C.bound[x].route][C.authed[x]] = RemoveFirst(@, x)]

\* Mutant: a source goes to the wrong end of its route's list.
LinkFrontGlobal(C, x) ==
  [C EXCEPT !.global[C.authed[x]] = <<x>> \o @,
            !.local[C.bound[x].route][C.authed[x]] = Append(@, x)]

\* link_global_front and link_route_front
LinkFront(C, x) ==
  [C EXCEPT !.global[C.authed[x]] = <<x>> \o @,
            !.local[C.bound[x].route][C.authed[x]] = <<x>> \o @]

Touch(C, x) == LinkFront(Unlink(C, x), x)

RemoveEntry(C, x) ==
  IF C.bound[x] = Unbound THEN C
  ELSE [Unlink(C, x) EXCEPT !.bound[x] = Unbound, !.authed[x] = FALSE]

\* Mutant: authenticated entries are evicted first.
VictimAny(lists) == IF lists[TRUE] # <<>> THEN Last(lists[TRUE]) ELSE Last(lists[FALSE])

\* The least recent unauthenticated entry, or else the least recent one.
Victim(lists) == IF lists[FALSE] # <<>> THEN Last(lists[FALSE]) ELSE Last(lists[TRUE])

EvictGlobal(C) == IF Size(C) >= MaxEntries THEN RemoveEntry(C, Victim(C.global)) ELSE C

EvictRoute(C, r) ==
  IF RouteLen(C, r) >= MaxPerRoute THEN RemoveEntry(C, Victim(C.local[r])) ELSE C

\* admit, always of an unauthenticated source that is not cached
Admit(C, x, address) ==
  LET room == EvictRoute(EvictGlobal(C), address.route)
  IN LinkFront([room EXCEPT !.bound[x] = address], x)

\* Mutant: the new epoch of a route inherits the authentication of the old one.
RebindTrusting(C, x, address) ==
  LinkFront([Unlink(C, x) EXCEPT !.bound[x] = address], x)

\* learn for a source cached under the same route
Rebind(C, x, address) ==
  LinkFront([Unlink(C, x) EXCEPT
               !.bound[x] = address,
               !.authed[x] = @ /\ C.bound[x].epoch = address.epoch], x)

\* demux of a STUN bootstrap that names an address of this node
Bootstrapped(C, x, address) ==
  IF C.bound[x] = address THEN Touch(C, x)
  ELSE Admit(RemoveEntry(C, x), x, address)

\* learn: a sibling shard resolved the source and forwarded its packet
Learned(C, x, address) ==
  IF C.bound[x] # Unbound /\ C.bound[x].route = address.route
  THEN Rebind(C, x, address)
  ELSE Admit(RemoveEntry(C, x), x, address)

\* authenticate: nothing happens unless the source is bound to that address
Authenticated(C, x, address) ==
  IF C.bound[x] = address
  THEN LinkFront([Unlink(C, x) EXCEPT !.authed[x] = TRUE], x)
  ELSE C

\* unregister: the participant behind the route is gone; the heads of its lists are
\* removed until none is left
Unregistered(C, r) ==
  LET list == C.local[r][FALSE] \o C.local[r][TRUE]
      gone[i \in 0 .. Len(list)] == IF i = 0 THEN C ELSE RemoveEntry(gone[i - 1], list[i])
  IN gone[Len(list)]

-----------------------------------------------------------------------------
(* Properties.                                                             *)

\* x is more recent than y.
Before(list, x, y) == \E i, j \in DOMAIN list : i < j /\ list[i] = x /\ list[j] = y

\* Every cached source is once in the global list and once in the list of its
\* route that match its authentication, and nothing else is in them; a route's
\* list has the order of the global list, so both evict the same way.  Neither grows
\* past its limit: unregister collects the sources of a route in an array of
\* MAX_ADDRS_PER_ROUTE places.
ListsAgree ==
  /\ \A flag \in BOOLEAN :
       /\ IsInjective(cache.global[flag])
       /\ Range(cache.global[flag]) = {x \in Cached(cache) : cache.authed[x] = flag}
       /\ \A r \in Routes :
            /\ IsInjective(cache.local[r][flag])
            /\ Range(cache.local[r][flag]) =
                 {x \in Range(cache.global[flag]) : cache.bound[x].route = r}
            /\ \A x, y \in Sources :
                 Before(cache.local[r][flag], x, y) => Before(cache.global[flag], x, y)
  /\ Size(cache) <= MaxEntries
  /\ \A r \in Routes : RouteLen(cache, r) <= MaxPerRoute

\* A source is authenticated only by authenticate() for the very address it is
\* bound to, and stays so only while it keeps that address.
AuthenticationEarned ==
  [][\A x \in Sources :
       cache'.authed[x] =>
         \/ cache.authed[x] /\ cache'.bound[x] = cache.bound[x]
         \/ cache' = Authenticated(cache, x, cache'.bound[x])]_cache

\* To admit a source the cache never drops an authenticated one while it holds
\* another of that route that is not: eviction prefers what anyone can create.
AuthenticatedKept ==
  [][\A x \in Sources, y \in Sources :
       /\ cache.authed[x] /\ y \in Cached(cache) /\ ~cache.authed[y]
       /\ cache.bound[x].route = cache.bound[y].route
       /\ x \notin Cached(cache')
       => y \notin Cached(cache') \/ cache'.bound[y] # cache.bound[y]]_cache
=============================================================================
