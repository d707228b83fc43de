----------------------------- MODULE RouteTable -----------------------------
(***************************************************************************)
(* Route addresses end to end, for one destination shard: the controller   *)
(* reserves a slot for a tenant, installs and retires its route, releases  *)
(* the slot and reuses it (lifecycle.rs over SlotAllocator); the shard     *)
(* applies those operations later and in order (RouteRuntime); envelopes   *)
(* addressed to a tenant keep arriving for a while after it is gone.       *)
(*                                                                         *)
(* The slot is released when the controller stages the retirement, before  *)
(* the shard has applied it, so controller and shard disagree about a slot *)
(* for as long as the update is in flight.                                 *)
(***************************************************************************)
EXTENDS SlotAllocator

CONSTANTS
  FrameLifetime,  \* how long after release an envelope may still arrive
  LaneLag,        \* how far behind the shard may be in applying updates
  LaneCapacity    \* bound on updates in flight

ASSUME RouteAssumption ==
  /\ FrameLifetime \in Nat
  /\ LaneLag \in Nat
  /\ LaneCapacity \in Nat \ {0}

\* Stands for the const assertion that ties ROUTE_QUARANTINE to the width of
\* the epoch (route.rs): a slot cannot go once around its epochs while an
\* envelope or an update of the old tenant is still on its way.
ASSUME EpochOutlivesTraffic == FrameLifetime + LaneLag < Quarantine * EpochModulus

VARIABLES
  installed,  \* TrackDestination.route_installed of the placement in a slot
  lane,       \* InstallRoute / RetireRoute updates the shard has not applied
  table,      \* RouteRuntime.slots: what the shard resolves
  stale       \* addresses of released tenants that may still be in flight

routeVars == <<installed, lane, table, stale>>
vars == <<slotVars, routeVars>>

NoEntry == [tenant |-> NoTenant, epoch |-> 0]

Init ==
  /\ SlotInit
  /\ installed = [s \in Slots |-> FALSE]
  /\ lane = << >>
  /\ table = [s \in Slots |-> NoEntry]
  /\ stale = {}

Address(s) == [slot |-> s, epoch |-> epochs[s], tenant |-> holder[s]]

Staged(kind, s) ==
  Append(lane, [kind |-> kind, address |-> Address(s), age |-> 0])

\* ensure_destination: a placement is reserved before any route is installed.
Reserve(t) ==
  /\ \A s \in Slots : holder[s] # t
  /\ Allocate(t)
  /\ UNCHANGED routeVars

InstallRoute(s) ==
  /\ ~exhausted
  /\ holder[s] # NoTenant /\ ~installed[s]
  /\ Len(lane) < LaneCapacity
  /\ lane' = Staged("install", s)
  /\ installed' = [installed EXCEPT ![s] = TRUE]
  /\ UNCHANGED <<slotVars, table, stale>>

RetireRoute(s) ==
  /\ ~exhausted
  /\ installed[s]
  /\ Len(lane) < LaneCapacity
  /\ lane' = Staged("retire", s)
  /\ installed' = [installed EXCEPT ![s] = FALSE]
  /\ UNCHANGED <<slotVars, table, stale>>

\* Mutant: the route is not retired before its slot is released.
ReleaseSilently(s) ==
  /\ Retire(s)
  /\ Len(lane) < LaneCapacity
  /\ installed' = [installed EXCEPT ![s] = FALSE]
  /\ stale' = stale \cup {[address |-> Address(s), age |-> 0]}
  /\ UNCHANGED <<lane, table>>

\* stage_shard_withdrawal then allocator.release, in one reconciliation.
Release(s) ==
  /\ Retire(s)
  /\ Len(lane) < LaneCapacity
  /\ lane' = IF installed[s] THEN Staged("retire", s) ELSE lane
  /\ installed' = [installed EXCEPT ![s] = FALSE]
  /\ stale' = stale \cup {[address |-> Address(s), age |-> 0]}
  /\ UNCHANGED table

Installs(op) ==
  table' = [table EXCEPT ![op.address.slot] =
              [tenant |-> op.address.tenant, epoch |-> op.address.epoch]]

\* Epoch-checked: a teardown never drops the route that replaced its own.
Retires(op) ==
  LET slot == op.address.slot IN
  table' = IF table[slot].tenant # NoTenant /\ table[slot].epoch = op.address.epoch
           THEN [table EXCEPT ![slot] = NoEntry]
           ELSE table

ApplyUpdate ==
  /\ ~exhausted
  /\ lane # << >>
  /\ LET op == Head(lane) IN
       \/ op.kind = "install" /\ Installs(op)
       \/ op.kind = "retire" /\ Retires(op)
  /\ lane' = Tail(lane)
  /\ UNCHANGED <<slotVars, installed, stale>>

\* One tick for everything that ages.  The shard has applied an update before
\* it is LaneLag old; an envelope older than FrameLifetime is gone.
Tick ==
  /\ Elapse
  /\ \A i \in 1 .. Len(lane) : lane[i].age < LaneLag
  /\ lane' = [i \in 1 .. Len(lane) |-> [lane[i] EXCEPT !.age = @ + 1]]
  /\ stale' = {[f EXCEPT !.age = @ + 1] : f \in {g \in stale : g.age < FrameLifetime}}
  /\ UNCHANGED <<installed, table>>

Next ==
  \/ \E t \in Tenants : Reserve(t)
  \/ \E s \in Slots : InstallRoute(s) \/ RetireRoute(s) \/ Release(s)
  \/ ApplyUpdate
  \/ Tick

Spec == Init /\ [][Next]_vars

-----------------------------------------------------------------------------
\* RouteRuntime::resolve: who an envelope with this address reaches.
Resolve(a) ==
  IF table[a.slot].tenant # NoTenant /\ table[a.slot].epoch = a.epoch
  THEN table[a.slot].tenant
  ELSE NoTenant

InFlight ==
  {Address(s) : s \in {r \in Slots : holder[r] # NoTenant}}
    \cup {f.address : f \in stale}

\* An envelope reaches the tenant it was addressed to or nobody, however late
\* it is and however far the shard's table is behind the controller: the epoch
\* check of resolve() never lets it land on a later tenant of the same slot.
NoMisdelivery ==
  \A a \in InFlight : Resolve(a) \in {a.tenant, NoTenant}

\* Once the shard has applied every update, it routes exactly the placements
\* the controller believes installed, under the epochs the controller granted.
TableConverges ==
  lane = << >> =>
    \A s \in Slots :
      table[s] = IF installed[s]
                 THEN [tenant |-> holder[s], epoch |-> epochs[s]]
                 ELSE NoEntry
=============================================================================
