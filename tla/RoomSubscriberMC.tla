-------------------------- MODULE RoomSubscriberMC -------------------------
(***************************************************************************)
(* RoomRouting with a subscriber that reconnects, in one of three ways.    *)
(* Its first two connections meet a publisher, which publishes a video     *)
(* track or an audio track, and their joins may race; or the publisher     *)
(* stays away, and three joins of the subscriber may race.                 *)
(***************************************************************************)
EXTENDS RoomMC

VARIABLES
  scenario,  \* who joins and what is published
  displaced  \* history: participants that became current behind a rival

Joins(c) == phase[c] = "new" /\ phase'[c] # "new"
Commits(c) == phase[c] = "joining" /\ phase'[c] = "answered"
Publishes(t) == offered[t] = "no" /\ offered'[t] # "no"

Follows ==
  /\ \A c \in Conns : Joins(c) => IF scenario = "race" THEN Owner[c] = b ELSE c < 4
  /\ \A t \in Tracks : Publishes(t) => Label[t] = scenario

\* Another connection of the participant, not committed either, has the seat or
\* is before c in the line for it.
BehindRival(c) ==
  LET line == <<seat[Owner[c]]>> \o waiting[Owner[c]]
  IN \E i, j \in DOMAIN line : i < j /\ line[j] = c /\ line[i] \in InFlight(Owner[c])

ScenarioInit == Init /\ scenario \in {"video", "audio", "race"} /\ displaced = {}

ScenarioNext ==
  /\ Next /\ Follows
  /\ displaced' = displaced \cup
       {Owner[c] : c \in {d \in Conns : Commits(d) /\ BehindRival(d)}}
  /\ UNCHANGED scenario

ScenarioSpec == ScenarioInit /\ [][ScenarioNext]_<<vars, scenario, displaced>> /\ Fairness

\* A plan never forwards a track to its own publisher, and it forwards only to
\* connections seated on the shard that have the track bound in their catalog:
\* on_track_packet meets no stale handle and no unknown track, however updates,
\* joins, replacements and exits interleave.  Excepted is a participant that
\* became current while a rival join of its own was ahead of it for the seat: the
\* code does leave it such plans, and ForwardingConverges shows what it loses.
PlansReachTheBound ==
  \A s \in Shards : \A t \in DOMAIN shard[s].plans :
    /\ t \in shard[s].runtime
    /\ \A c \in shard[s].plans[t].local :
         /\ Owner[c] # Publisher(t)
         /\ Owner[c] \in displaced \/ (seat[Owner[c]] = c /\ t \in peer[c].bound)
===========================================================================
