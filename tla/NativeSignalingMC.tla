-------------------------- MODULE NativeSignalingMC --------------------------
(***************************************************************************)
(* Small instances of NativeSignaling.  A large record fits a frame with   *)
(* one small one, and not with the session's row, so that a key may be     *)
(* left out of a batch while later ones are in it; a full frame has no     *)
(* room for the marker.  The room changes freely, or the client sends      *)
(* frames faster than they are executed, or a little of both; or the room  *)
(* is crowded before the client opens its channel.                         *)
(***************************************************************************)
EXTENDS NativeSignaling

CONSTANTS a, b, c, d, u, NoName

MCKeys == {a, b, c, d} \cup NoName
MCUnnameable == NoName
MCLimits == {[versions |-> 4, grants |-> 2, frames |-> 0, crowd |-> FALSE],
             [versions |-> 3, grants |-> 1, frames |-> 1, crowd |-> FALSE],
             [versions |-> 2, grants |-> 1, frames |-> 3, crowd |-> FALSE],
             [versions |-> 10, grants |-> 3, frames |-> 0, crowd |-> TRUE]}
MCSize == [k \in MCKeys \cup {SessionKey, "own"} |->
             CASE k \in {a, b} -> 3 [] k = SessionKey -> 2 [] OTHER -> 1]

\* The crowd, version by version: four arrive, the two with large records leave,
\* and the grant is renewed twice, each time while a batch is outstanding.
Crowd == <<"own", SessionKey, a, b, c, d, a, b, SessionKey, SessionKey>>
Leaves(n) == n \in {7, 8}

Changes(k) == session'.version > session.version /\ session'.rows[k].version = session'.version

InCrowd(k) ==
    /\ k = Crowd[session'.version]
    /\ IsAbsent(session'.rows[k].value) = Leaves(session'.version)
    /\ k = SessionKey => session.pending.present

Follows ==
    /\ \A k \in DOMAIN session'.rows : Changes(k) =>
          IF limit.crowd THEN InCrowd(k) ELSE k \in {a, SessionKey} \cup NoName
    /\ limit.crowd /\ frames'.opened => session.version >= 8

MCSpec == Init /\ [][Next /\ Follows /\ limit' = limit]_vars /\ Fairness
=============================================================================
