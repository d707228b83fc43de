----------------------------- MODULE Membership -----------------------------
(***************************************************************************)
(* Optional cluster membership: how a node comes by the identity of an     *)
(* incarnation, across crashes (Identity::allocate, cluster/identity.rs),  *)
(* and how another node judges the incarnations that gossip reports        *)
(* (View::update, pulsebeam-membership/src/view.rs).                       *)
(*                                                                         *)
(* A node's directory holds one state file.  Starting takes the directory  *)
(* lock, writes the next generation beside it, synchronises, renames and   *)
(* synchronises the directory; a process may die, and the machine may lose *)
(* power, between any two of these.  The gossip library is external: it    *)
(* reports any incarnation that ever joined, live or not, drops and        *)
(* reports it again.  Time is counted in ages, up to Retention + 1.        *)
(***************************************************************************)
EXTENDS Naturals, FiniteSets, FiniteSetsExt, SequencesExt

CONSTANTS
  Addresses,  \* gossip addresses, numbers
  Retention,  \* HISTORY_RETENTION
  Limits      \* bounds: records with
              \*   processes started with the same data directory
              \*   joins     incarnations that come up
              \*   files     state files written
              \*   failures  power failures
              \*   restores  times an old state file is put back
              \*   doubts    times gossip gives up a running incarnation
              \*   observed  whether the other node runs

None == 0

ASSUME MembershipAssumption ==
  /\ IsFiniteSet(Addresses) /\ Addresses \subseteq Nat
  /\ Retention \in Nat
  /\ \A l \in Limits :
       /\ {l.joins, l.files, l.failures, l.restores, l.doubts} \subseteq Nat
       /\ IsFiniteSet(l.processes) /\ None \notin l.processes
       /\ l.observed \in BOOLEAN

VARIABLES
  \* the directory
  lock,     \* the process that holds membership.lock, or None
  visible,  \* membership-state.json as a process reads it
  durable,  \* membership-state.json as it is after a power failure
  next,     \* membership-state.next
  pc,       \* per process: how far allocate has come, or "off"
  \* the incarnations
  joined,   \* sequence: the incarnations that came up
  running,  \* the incarnation that is up, or NoOne
  \* the other node
  records,  \* what gossip reports: incarnation -> live with a supported schema
  history,  \* View.history of this node
  usable,   \* the members of the snapshot that are is_usable
  \* bookkeeping
  leading,  \* incarnation -> age of the last reconciliation that found it and
            \* knew of no higher generation
  spent,    \* what has been used of the limits
  limit

disk == <<lock, visible, durable, next, pc>>
observer == <<records, history, usable, leading>>
vars == <<disk, joined, running, observer, spent, limit>>

\* A state file: node_id, generation, and whether its content is synchronised.
Absent == [id |-> 0, generation |-> 0, synced |-> TRUE]
Torn == [id |-> 1, generation |-> 0, synced |-> TRUE]
NoOne == [generation |-> 0, addr |-> 0]
Forgotten == [generation |-> 0, age |-> 0, first |-> 0, conflicting |-> FALSE]

Init ==
  /\ limit \in Limits
  /\ lock = None
  /\ visible = Absent /\ durable = Absent /\ next = Absent
  /\ pc = [p \in limit.processes |-> "off"]
  /\ joined = <<>> /\ running = NoOne
  /\ records = <<>> /\ history = Forgotten /\ usable = {}
  /\ leading = <<>>
  /\ spent = [what \in {"files", "failures", "restores", "doubts"} |-> 0]

Spend(what) == /\ spent[what] < limit[what]
               /\ spent' = [spent EXCEPT ![what] = @ + 1]

-----------------------------------------------------------------------------
(* Identity::allocate.                                                     *)

\* try_lock
TakeLock(p) == lock = None /\ lock' = p

\* A fresh node identity is a number no file has used.
Following(state) ==
  [id |-> IF state = Absent THEN spent["files"] + 1 ELSE state.id,
   generation |-> state.generation + 1, synced |-> FALSE]

\* Lock, read, and write the replacement.  An unreadable state or a generation
\* of zero is an error.
Write(p) ==
  /\ pc[p] = "off" /\ TakeLock(p)
  /\ visible = Absent \/ visible.generation > 0
  /\ Spend("files")
  /\ next' = Following(visible)
  /\ pc' = [pc EXCEPT ![p] = "written"]
  /\ UNCHANGED <<visible, durable, joined, running, observer, limit>>

SyncFile(p) ==
  /\ pc[p] = "written"
  /\ next' = [next EXCEPT !.synced = TRUE]
  /\ pc' = [pc EXCEPT ![p] = "synced"]
  /\ UNCHANGED <<lock, visible, durable, joined, running, observer, spent, limit>>

Rename(p) ==
  /\ pc[p] = "synced"
  /\ visible' = next /\ next' = Absent
  /\ pc' = [pc EXCEPT ![p] = "renamed"]
  /\ UNCHANGED <<lock, durable, joined, running, observer, spent, limit>>

\* Mutant: the directory is not synchronised after the rename.
SyncRenameSkipped == UNCHANGED durable

SyncRename == durable' = visible

\* The directory is synchronised, allocate returns, and the service starts with
\* the advertised address it is configured with.
Join(p) ==
  /\ pc[p] = "renamed" /\ SyncRename
  /\ Len(joined) < limit.joins
  /\ \E a \in Addresses :
       LET i == [generation |-> visible.generation, addr |-> a] IN
       /\ running' = i
       /\ joined' = Append(joined, [node |-> visible.id, as |-> i])
  /\ pc' = [pc EXCEPT ![p] = "up"]
  /\ UNCHANGED <<lock, visible, next, observer, spent, limit>>

\* A step of allocate fails, the service ends, or the process is killed: the
\* socket closes and the lock is released.
End(p) ==
  /\ pc[p] # "off"
  /\ pc' = [pc EXCEPT ![p] = "off"]
  /\ lock' = IF lock = p THEN None ELSE lock
  /\ running' = IF pc[p] = "up" THEN NoOne ELSE running
  /\ UNCHANGED <<visible, durable, next, joined, observer, spent, limit>>

\* Everything stops.  A rename that was not synchronised may be undone, and a
\* file that was not may have lost its content.
PowerFailure ==
  /\ Spend("failures")
  /\ \E file \in {durable, visible} :
       \E kept \in {file} \cup (IF file.synced THEN {} ELSE {Torn}) :
         visible' = kept /\ durable' = kept
  /\ next' = Absent /\ lock' = None /\ running' = NoOne
  /\ pc' = [p \in limit.processes |-> "off"]
  /\ UNCHANGED <<joined, observer, limit>>

\* Somebody puts an older state file back, which operators are told not to do.
Restore ==
  /\ lock = None /\ visible.generation > 1 /\ Spend("restores")
  /\ \E g \in 1..visible.generation - 1 :
       /\ visible' = [visible EXCEPT !.generation = g]
       /\ durable' = visible'
  /\ UNCHANGED <<lock, next, pc, joined, running, observer, limit>>

-----------------------------------------------------------------------------
(* Gossip, as the other node sees it.                                      *)

Incarnations == {joined[n].as : n \in DOMAIN joined}

Without(f, i) == [j \in DOMAIN f \ {i} |-> f[j]]
With(f, i, v) == [j \in DOMAIN f \cup {i} |-> IF j = i THEN v ELSE f[j]]

\* A record appears or changes: it may lack a supported schema still, or be of an
\* incarnation that is long gone and taken for live.
Report(i, sound) ==
  /\ limit.observed /\ i \in Incarnations
  /\ i \in DOMAIN records => sound /\ ~records[i]
  /\ records' = With(records, i, sound)
  /\ UNCHANGED <<disk, joined, running, history, usable, leading, spent, limit>>

\* The failure detector suspects an incarnation, or its record is collected.
GiveUp(i) ==
  /\ i \in DOMAIN records
  /\ IF i = running THEN Spend("doubts") ELSE UNCHANGED spent
  /\ records' \in {Without(records, i), With(records, i, FALSE)}
  /\ UNCHANGED <<disk, joined, running, history, usable, leading, limit>>

-----------------------------------------------------------------------------
(* View::update.                                                           *)

\* Mutant: history is dropped as soon as the retention is reached.
RetainedLess == IF history.age < Retention THEN history ELSE Forgotten

Retained == IF history.age <= Retention THEN history ELSE Forgotten

Generations == {i.generation : i \in DOMAIN records}
At(g) == {i.addr : i \in {j \in DOMAIN records : j.generation = g}}

\* The records are folded into the history in ascending order.
Observed ==
  LET old == Retained
      g == Max({old.generation} \cup Generations)
      first == IF g > old.generation THEN Min(At(g)) ELSE old.first
  IN  IF g = 0 THEN Forgotten
      ELSE [generation |-> g,
            age |-> IF g \in Generations THEN 0 ELSE old.age,
            first |-> first,
            conflicting |-> \/ g = old.generation /\ old.conflicting
                            \/ At(g) \ {first} # {}]

Conflicting(i, known) ==
  \/ Cardinality(At(i.generation)) > 1
  \/ known.generation = i.generation /\ known.conflicting

\* Mutant: the highest generation supersedes itself.
SupersededByItself(i, known) == known.generation >= i.generation

Superseded(i, known) == known.generation > i.generation

\* The members that are is_usable.
Judged ==
  LET known == Observed IN
  {i \in DOMAIN records :
     records[i] /\ ~Superseded(i, known) /\ ~Conflicting(i, known)}

Reconcile ==
  /\ limit.observed
  /\ history' = Observed
  /\ usable' = Judged
  /\ leading' = LET led == {i \in DOMAIN records : ~Superseded(i, Observed)}
                IN  [i \in DOMAIN leading \cup led |->
                       IF i \in led THEN 0 ELSE leading[i]]
  /\ UNCHANGED <<disk, joined, running, records, spent, limit>>

Older(age) == IF age > Retention THEN age ELSE age + 1

\* Time passes.
Tick ==
  /\ history # Forgotten
  /\ history' = [history EXCEPT !.age = Older(@)]
  /\ leading' = [i \in DOMAIN leading |-> Older(leading[i])]
  /\ UNCHANGED <<disk, joined, running, records, usable, spent, limit>>

Next ==
  \/ \E p \in limit.processes : Write(p) \/ SyncFile(p) \/ Rename(p) \/ Join(p) \/ End(p)
  \/ PowerFailure \/ Restore
  \/ \E i \in Incarnations : GiveUp(i) \/ \E sound \in BOOLEAN : Report(i, sound)
  \/ Reconcile \/ Tick

\* The view is reconciled at an interval, and gossip reaches the other node from
\* an incarnation that is up.
Spec ==
  /\ Init /\ [][Next]_vars
  /\ []<>~(limit.observed /\ (Judged # usable \/ Observed # history))
       \/ []<><<Reconcile>>_vars
  /\ WF_vars(Report(running, TRUE))

-----------------------------------------------------------------------------
(* Properties.                                                             *)

\* No two incarnations of a directory share a generation, later ones have higher
\* ones, and all have one node identity: allocate returns only what survives a
\* power failure, and the lock keeps two processes apart.  Unless an old state
\* file was put back.
GenerationsFresh ==
  spent["restores"] = 0 =>
    \A m, n \in DOMAIN joined : m < n =>
      /\ joined[m].node = joined[n].node
      /\ joined[m].as.generation < joined[n].as.generation

\* The fence holds for as long as it is promised, with restored state files too:
\* while an incarnation is usable, no higher generation, and no other address of
\* its generation, was the highest one known within the retention; and never two
\* incarnations at once.
FenceHolds ==
  /\ Cardinality(usable) <= 1
  /\ \A i \in usable : \A j \in DOMAIN leading :
       \/ leading[j] > Retention
       \/ j.generation < i.generation \/ j = i

\* An incarnation that stays up becomes the usable one, however many came before
\* it and whatever gossip still reports of them; unless a state file was put back.
UpIsUsable ==
  []<>(\/ running \in usable
       \/ running = NoOne \/ ~limit.observed \/ spent["restores"] > 0)
=============================================================================
