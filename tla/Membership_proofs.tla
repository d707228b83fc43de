------------------------- MODULE Membership_proofs -------------------------
(***************************************************************************)
(* Proof that the generations of a data directory are fresh, for every     *)
(* number of processes, failures and incarnations.                         *)
(*                                                                         *)
(* A generation is compared with those before it only when it joins, but   *)
(* it was computed from the state file much earlier, and the file may have *)
(* been set back by a power failure meanwhile.  The invariant follows the  *)
(* generation through the files: what has joined is never ahead of either  *)
(* copy of the state file, and strictly behind the one that is being       *)
(* installed, as long as the lock keeps a second process out.              *)
(***************************************************************************)
EXTENDS Membership, FiniteSetTheorems, WellFoundedInduction, TLAPS

File == [id : Nat, generation : Nat, synced : BOOLEAN]
Stage == {"off", "written", "synced", "renamed", "up"}
Incarnation == [node : Nat, as : [generation : Nat, addr : Nat]]

SpentTypeOK == spent \in [{"files", "failures", "restores", "doubts"} -> Nat]

\* The lists and files have their types.
FileTypeOK ==
  /\ limit \in Limits
  /\ visible \in File /\ durable \in File /\ next \in File
  /\ pc \in [limit.processes -> Stage]
  /\ joined \in Seq(Incarnation)

\* What has joined is in file, with no higher generation.
Covers(file) ==
  \A n \in DOMAIN joined :
    /\ joined[n].node = file.id
    /\ joined[n].as.generation <= file.generation

\* file holds a generation that nobody has joined with.
Exceeds(file) ==
  /\ file.generation > 0
  /\ \A n \in DOMAIN joined :
       /\ joined[n].node = file.id
       /\ joined[n].as.generation < file.generation

\* A process inside allocate has the lock, and the file it is installing holds
\* a fresh generation.
Installing ==
  \A p \in limit.processes :
    /\ pc[p] # "off" => lock = p
    /\ pc[p] \in {"written", "synced"} => Exceeds(next)
    /\ pc[p] = "synced" => next.synced
    /\ pc[p] = "renamed" => Exceeds(visible)

\* Both copies of the state file are synchronised and cover what has joined.
FilesSound ==
  /\ visible.synced /\ durable.synced
  /\ Covers(visible) /\ Covers(durable)

\* Every generation that joined is at least one.
JoinedPositive == \A n \in DOMAIN joined : joined[n].as.generation > 0

Fresh ==
  \A m, n \in DOMAIN joined : m < n =>
    /\ joined[m].node = joined[n].node
    /\ joined[m].as.generation < joined[n].as.generation

Inner == FileTypeOK /\ Installing /\ FilesSound /\ JoinedPositive /\ Fresh

\* The inductive invariant.
FreshIInv ==
  /\ SpentTypeOK
  /\ spent["restores"] = 0 => Inner

-----------------------------------------------------------------------------
\* The initial directory is empty.
LEMMA FreshInit == Init => FreshIInv
BY MembershipAssumption
   DEF Init, FreshIInv, Inner, SpentTypeOK, FileTypeOK, Installing, FilesSound, JoinedPositive,
       Fresh, Covers, Exceeds, File, Stage, Incarnation, Absent

\* Nothing lowers the number of restored files.
LEMMA SpentGrows ==
  ASSUME SpentTypeOK, [Next]_vars
  PROVE  /\ SpentTypeOK'
         /\ spent'["restores"] = 0 => spent["restores"] = 0 /\ ~Restore
<1> USE DEF Spend, SpentTypeOK
<1> DEFINE Goal == /\ SpentTypeOK'
                   /\ spent'["restores"] = 0 => spent["restores"] = 0 /\ ~Restore
<1>1. CASE Restore
  BY <1>1 DEF Restore
<1>2. CASE ~Restore /\ UNCHANGED spent
  BY <1>2
<1>3. ASSUME ~Restore, NEW what \in {"files", "failures", "doubts"}, Spend(what)
      PROVE Goal
  BY <1>3
<1>4. ASSUME NEW p, Write(p), ~Restore PROVE Goal
  BY <1>3, <1>4 DEF Write
<1>5. CASE PowerFailure /\ ~Restore
  BY <1>3, <1>5 DEF PowerFailure
<1>6. ASSUME NEW i, GiveUp(i), ~Restore PROVE Goal
  BY <1>3, <1>2, <1>6 DEF GiveUp
<1> QED
  BY <1>1, <1>2, <1>4, <1>5, <1>6, Zenon
     DEF Next, vars, SyncFile, Rename, Join, End, Report, Reconcile, Tick

\* The generations compared below are numbers.
LEMMA JoinedNat ==
  ASSUME FileTypeOK, NEW n \in DOMAIN joined
  PROVE  joined[n].as.generation \in Nat
<1>1. joined[n] \in Incarnation
  BY DEF FileTypeOK
<1> QED
  BY <1>1 DEF Incarnation

\* A process writes the generation after the one it reads: with the lock free, no
\* other process is inside allocate.
LEMMA WriteStep ==
  ASSUME SpentTypeOK, Inner, NEW p \in limit.processes, Write(p)
  PROVE  Inner'
<1> USE DEF Inner
<1>1. limit \in Limits /\ None \notin limit.processes
  BY MembershipAssumption DEF FileTypeOK
<1>2. next' \in File /\ Exceeds(next)'
  <2>1. next'.generation = visible.generation + 1 /\ next' \in File
    BY DEF Write, Following, FileTypeOK, File, SpentTypeOK, Absent
  <2>2. ASSUME NEW n \in DOMAIN joined PROVE visible # Absent
    <3>1. joined[n].as.generation \in Nat
      BY <2>2, JoinedNat
    <3>2. joined[n].as.generation > 0 /\ joined[n].as.generation <= visible.generation
      BY <2>2 DEF FilesSound, Covers, JoinedPositive
    <3>3. visible.generation # 0
      BY <3>1, <3>2 DEF FileTypeOK, File
    <3> QED
      BY <3>3 DEF Absent
  <2>3. ASSUME NEW n \in DOMAIN joined PROVE next'.id = visible.id
    BY <2>2, <2>3 DEF Write, Following
  <2>4. joined' = joined
    BY DEF Write
  <2> QED
    <3>1. ASSUME NEW n \in DOMAIN joined
          PROVE  /\ joined[n].node = next'.id
                 /\ joined[n].as.generation < next'.generation
      <4>1. joined[n].as.generation \in Nat
        BY <3>1, JoinedNat
      <4>2. joined[n].node = visible.id /\ joined[n].as.generation <= visible.generation
        BY <3>1 DEF FilesSound, Covers
      <4>3. visible.generation \in Nat
        BY DEF FileTypeOK, File
      <4> QED
        BY <2>1, <2>3, <3>1, <4>1, <4>2, <4>3
    <3>2. next'.generation > 0
      BY <2>1 DEF FileTypeOK, File
    <3> QED
      BY <2>1, <2>4, <3>1, <3>2 DEF Exceeds
<1>3. \A q \in limit.processes : pc[q] = "off"
  BY <1>1 DEF Write, TakeLock, Installing
<1>4. FileTypeOK'
  BY <1>2 DEF Write, FileTypeOK, Stage
<1>5. Installing'
  BY <1>2, <1>3 DEF Write, TakeLock, Installing, FileTypeOK, Stage
<1> QED
  BY <1>4, <1>5 DEF Write, FilesSound, Covers, JoinedPositive, Fresh

\* The content is synchronised before the rename.
LEMMA SyncFileStep ==
  ASSUME Inner, NEW p \in limit.processes, SyncFile(p)
  PROVE  Inner'
<1> USE DEF Inner
<1>1. next' \in File /\ next'.synced /\ next'.generation = next.generation /\ next'.id = next.id
  BY Zenon DEF SyncFile, FileTypeOK, File
<1>2. Installing'
  BY <1>1 DEF SyncFile, Installing, Exceeds, FileTypeOK
<1> QED
  BY <1>1, <1>2 DEF SyncFile, FileTypeOK, Stage, FilesSound, Covers, JoinedPositive, Fresh

\* What a process installs, it alone installs.
LEMMA Alone ==
  ASSUME Inner, NEW p \in limit.processes, pc[p] # "off"
  PROVE  \A q \in limit.processes : q # p => pc[q] = "off"
BY DEF Inner, Installing

\* The fresh generation becomes visible, and is not durable yet.
LEMMA RenameStep ==
  ASSUME Inner, NEW p \in limit.processes, Rename(p)
  PROVE  Inner'
<1> USE DEF Inner
<1>1. \A q \in limit.processes : q # p => pc[q] = "off"
  BY Alone DEF Rename
<1>2. Exceeds(next) /\ next.synced
  BY DEF Rename, Installing
<1>3. Covers(visible)' /\ Exceeds(visible)'
  <2>1. next.generation \in Nat /\ visible' = next /\ joined' = joined
    BY DEF Rename, FileTypeOK, File
  <2> QED
    BY <1>2, <2>1, JoinedNat DEF Exceeds, Covers
<1>4. FileTypeOK'
  BY DEF Rename, FileTypeOK, File, Absent, Stage
<1>5. Installing'
  BY <1>1, <1>3 DEF Rename, Installing, FileTypeOK
<1> QED
  BY <1>2, <1>3, <1>4, <1>5 DEF Rename, FilesSound, Covers, JoinedPositive, Fresh

\* A process joins with a generation that is durable in the same step.
LEMMA JoinStep ==
  ASSUME Inner, NEW p \in limit.processes, Join(p)
  PROVE  Inner'
<1> USE DEF Inner
<1>1. \A q \in limit.processes : q # p => pc[q] = "off"
  BY Alone DEF Join
<1>2. Exceeds(visible)
  BY DEF Join, Installing
<1>3. PICK a \in Addresses :
        joined' = Append(joined, [node |-> visible.id,
                                  as |-> [generation |-> visible.generation, addr |-> a]])
  BY DEF Join
<1> DEFINE entry == [node |-> visible.id, as |-> [generation |-> visible.generation, addr |-> a]]
<1>4. entry \in Incarnation /\ entry.node = visible.id
      /\ entry.as.generation = visible.generation
  BY MembershipAssumption DEF Incarnation, FileTypeOK, File
<1>5. joined \in Seq(Incarnation) /\ joined' = Append(joined, entry)
  BY <1>3 DEF FileTypeOK
<1> HIDE DEF entry
<1>6. /\ joined' \in Seq(Incarnation)
      /\ Len(joined) \in Nat /\ DOMAIN joined = 1 .. Len(joined)
      /\ DOMAIN joined' = 1 .. Len(joined) + 1
      /\ joined'[Len(joined) + 1] = entry
      /\ \A n \in DOMAIN joined : joined'[n] = joined[n]
  BY <1>4, <1>5
<1>7. FileTypeOK'
  BY <1>6 DEF Join, SyncRename, FileTypeOK, Stage
<1>8. Installing'
  BY <1>1 DEF Join, Installing, FileTypeOK
<1>9. visible' = visible /\ durable' = visible
  BY DEF Join, SyncRename
<1>10. \A n \in DOMAIN joined' :
         \/ n \in DOMAIN joined /\ joined'[n] = joined[n]
         \/ joined'[n] = entry
  BY <1>6
<1>11. Covers(visible)' /\ Covers(durable)' /\ JoinedPositive'
  BY <1>2, <1>4, <1>9, <1>10, SMTT(30) DEF Exceeds, Covers, JoinedPositive, FilesSound, FileTypeOK, File
<1>12. Fresh'
  <2> SUFFICES ASSUME NEW m \in DOMAIN joined', NEW n \in DOMAIN joined', m < n
               PROVE  /\ joined'[m].node = joined'[n].node
                      /\ joined'[m].as.generation < joined'[n].as.generation
    BY DEF Fresh
  <2>1. m \in DOMAIN joined /\ joined'[m] = joined[m]
    BY <1>6
  <2>2. CASE n \in DOMAIN joined
    BY <2>1, <2>2, <1>6 DEF Fresh
  <2>3. CASE joined'[n] = entry
    BY <2>1, <2>3, <1>2, <1>4, Zenon DEF Exceeds
  <2> QED
    BY <2>2, <2>3, <1>10, Zenon
<1> QED
  BY <1>7, <1>8, <1>9, <1>11, <1>12, Zenon DEF FilesSound

\* A process that ends leaves the directory as it is, and the lock with nobody.
LEMMA EndStep ==
  ASSUME Inner, NEW p \in limit.processes, End(p)
  PROVE  Inner'
<1> USE DEF Inner
<1>1. \A q \in limit.processes : pc'[q] = "off"
  BY Alone DEF End, FileTypeOK
<1> QED
  BY <1>1 DEF End, FileTypeOK, Stage, Installing, FilesSound, Covers, JoinedPositive, Fresh

\* After a loss of power one of the two copies is left, and both are synchronised.
LEMMA PowerFailureStep ==
  ASSUME Inner, PowerFailure
  PROVE  Inner'
<1> USE DEF Inner
<1>1. /\ visible' \in {durable, visible} /\ durable' = visible'
      /\ next' = Absent /\ joined' = joined /\ limit' = limit
      /\ pc' = [p \in limit.processes |-> "off"]
  BY DEF PowerFailure, FilesSound
<1>2. Absent \in File
  BY DEF Absent, File
<1>3. FileTypeOK'
  BY <1>1, <1>2 DEF FileTypeOK, Stage
<1>4. Installing'
  BY <1>1 DEF Installing
<1> QED
  BY <1>1, <1>3, <1>4 DEF FilesSound, Covers, JoinedPositive, Fresh

\* Every step keeps the invariant.
LEMMA FreshStep == FreshIInv /\ [Next]_vars => FreshIInv'
<1> SUFFICES ASSUME FreshIInv, [Next]_vars PROVE FreshIInv'
  OBVIOUS
<1>1. SpentTypeOK' /\ (spent'["restores"] = 0 => spent["restores"] = 0 /\ ~Restore)
  BY SpentGrows DEF FreshIInv
<1>2. ASSUME Inner, ~Restore, SpentTypeOK PROVE Inner'
  <2>1. ASSUME NEW p \in limit.processes,
               Write(p) \/ SyncFile(p) \/ Rename(p) \/ Join(p) \/ End(p)
        PROVE Inner'
    BY <1>2, <2>1, WriteStep, SyncFileStep, RenameStep, JoinStep, EndStep, Zenon
  <2>2. CASE PowerFailure
    BY <1>2, <2>2, PowerFailureStep, Zenon
  <2>3. CASE UNCHANGED <<disk, joined, limit>>
    BY <1>2, <2>3 DEF Inner, disk, FileTypeOK, Installing, Exceeds, FilesSound, Covers,
                      JoinedPositive, Fresh
  <2> QED
    BY <1>2, <2>1, <2>2, <2>3, Zenon DEF Next, vars, GiveUp, Report, Reconcile, Tick
<1> QED
  BY <1>1, <1>2 DEF FreshIInv

\* No two incarnations that start from one data directory share a generation, later
\* ones have higher ones, and all have one node identity, whatever processes are
\* killed or started twice and wherever the machine loses power (Identity::allocate);
\* unless an old state file was put back.
THEOREM GenerationsAlwaysFresh == Spec => []GenerationsFresh
<1>1. FreshIInv => GenerationsFresh
  BY DEF FreshIInv, Inner, GenerationsFresh, Fresh
<1> QED
  BY <1>1, FreshInit, FreshStep, PTL DEF Spec

-----------------------------------------------------------------------------
(* The other node.  What it keeps of the past is one entry: the highest     *)
(* generation it knew, how long ago it last saw it, the first address and   *)
(* whether there was another.  The invariant says that this is enough: for  *)
(* every incarnation that led within the retention, the entry is at least   *)
(* as high and no older.                                                    *)

Name == [generation : Nat, addr : Nat]
Entry == [generation : Nat, age : Nat, first : Nat, conflicting : BOOLEAN]

\* The generations in the files and of the incarnations are counted by the files
\* written, and those of incarnations are at least one: restored files included.
Numbered ==
  /\ SpentTypeOK /\ FileTypeOK
  /\ \A file \in {visible, durable, next} : file.generation <= spent["files"]
  /\ \A p \in limit.processes :
       /\ pc[p] # "off" => lock = p
       /\ pc[p] \in {"written", "synced"} => next.generation > 0
       /\ pc[p] = "renamed" => visible.generation > 0
  /\ \A n \in DOMAIN joined :
       joined[n].as.generation > 0 /\ joined[n].as.generation <= spent["files"]

\* Gossip reports incarnations only.
Reported == \A i \in DOMAIN records : \E n \in DOMAIN joined : i = joined[n].as

\* The entry h covers j, which led a ticks ago.
Remembers(h, j, a) ==
  \/ a > Retention
  \/ /\ j.generation <= h.generation /\ h.age <= a
     /\ j.generation = h.generation => j.addr = h.first \/ h.conflicting

\* The entry h is of i and of nobody else.
Singles(h, i) == h.generation = i.generation /\ h.first = i.addr /\ ~h.conflicting

ViewSound ==
  /\ history \in Entry
  /\ \A j \in DOMAIN leading :
       /\ j \in Name /\ j.generation > 0 /\ leading[j] \in Nat
       /\ Remembers(history, j, leading[j])
  /\ \A i \in usable : i \in Name /\ Singles(history, i)

\* The inductive invariant.
ViewIInv == Numbered /\ Reported /\ ViewSound

-----------------------------------------------------------------------------
\* A set of numbers that is not empty has a least one, ...
LEMMA LeastExists ==
  ASSUME NEW S, S \subseteq Nat, S # {}
  PROVE  \E x \in S : \A y \in S : x <= y
<1>1. PICK x \in S : \A y \in S : ~(<<y, x>> \in OpToRel(<, Nat))
  BY NatLessThanWellFounded, WFMin, Zenon
<1>2. ASSUME NEW y \in S PROVE x <= y
  <2>1. OpToRel(<, Nat) = {ss \in Nat \X Nat : ss[1] < ss[2]}
    BY Zenon DEF OpToRel
  <2>2. x \in Nat /\ y \in Nat
    BY <1>2
  <2>3. ASSUME y < x PROVE <<y, x>> \in {ss \in Nat \X Nat : ss[1] < ss[2]}
    BY <2>2, <2>3
  <2>4. ~(y < x)
    BY <1>1, <1>2, <2>1, <2>3, Zenon
  <2> QED BY <2>2, <2>4
<1> QED BY <1>2

\* ... and a bounded one has a greatest.
LEMMA GreatestExists ==
  ASSUME NEW S, S \subseteq Nat, S # {}, NEW b \in Nat, \A y \in S : y <= b
  PROVE  \E x \in S : \A y \in S : x >= y
<1> DEFINE Bounds == {n \in Nat : \A y \in S : y <= n}
<1>1. Bounds \subseteq Nat /\ b \in Bounds
  OBVIOUS
<1>2. PICK x \in Bounds : \A y \in Bounds : x <= y
  BY <1>1, LeastExists, Zenon
<1>3. x \in S
  <2> SUFFICES ASSUME x \notin S PROVE FALSE
    OBVIOUS
  <2>1. PICK s \in S : TRUE
    BY Zenon
  <2>2. s <= x /\ s # x /\ s \in Nat /\ x \in Nat
    BY <2>1
  <2>3. x - 1 \in Nat
    BY <2>2
  <2>4. \A y \in S : y <= x - 1
    OBVIOUS
  <2>5. x - 1 \in Bounds
    BY <2>3, <2>4
  <2> QED BY <1>2, <2>2, <2>5
<1> QED BY <1>3

\* Which are the ones chosen.
LEMMA MinFacts ==
  ASSUME NEW S, S \subseteq Nat, S # {}
  PROVE  Min(S) \in S /\ \A y \in S : Min(S) <= y
BY LeastExists, Zenon DEF Min

\* So is the greatest.
LEMMA MaxFacts ==
  ASSUME NEW S, S \subseteq Nat, S # {}, NEW b \in Nat, \A y \in S : y <= b
  PROVE  Max(S) \in S /\ \A y \in S : Max(S) >= y
BY GreatestExists, Zenon DEF Max

-----------------------------------------------------------------------------
\* The directory is empty and nobody has joined.
LEMMA ViewInit == Init => ViewIInv
<1> SUFFICES ASSUME Init PROVE ViewIInv
  OBVIOUS
<1>1. Numbered
  BY MembershipAssumption
     DEF Init, Numbered, SpentTypeOK, FileTypeOK, File, Stage, Incarnation, Absent
<1>2. Reported
  BY DEF Init, Reported
<1>3. ViewSound
  BY DEF Init, ViewSound, Entry, Forgotten
<1> QED BY <1>1, <1>2, <1>3 DEF ViewIInv

\* The number of files written does not fall.
LEMMA FilesGrow ==
  ASSUME SpentTypeOK, NEW what \in {"files", "failures", "restores", "doubts"}, Spend(what)
  PROVE  /\ SpentTypeOK' /\ spent'["files"] >= spent["files"]
         /\ what = "files" => spent'["files"] = spent["files"] + 1
BY DEF SpentTypeOK, Spend

\* Nothing but the files and the count of what was spent changes.
LEMMA JoinedStay ==
  ASSUME Numbered, joined' = joined, SpentTypeOK', spent'["files"] >= spent["files"],
         NEW n \in DOMAIN joined'
  PROVE  joined'[n].as.generation > 0 /\ joined'[n].as.generation <= spent'["files"]
<1>1. joined[n].as.generation \in Nat
  BY JoinedNat DEF Numbered
<1> QED BY <1>1 DEF Numbered, SpentTypeOK

\* A file written has the next generation and is one more.
LEMMA NumberedWrite ==
  ASSUME Numbered, NEW p \in limit.processes, Write(p)
  PROVE  Numbered'
<1>1. limit \in Limits /\ None \notin limit.processes
  BY MembershipAssumption DEF Numbered, FileTypeOK
<1>2. SpentTypeOK' /\ spent'["files"] = spent["files"] + 1
  BY FilesGrow DEF Write, Numbered
<1>3. next' \in File /\ next'.generation = visible.generation + 1
  BY DEF Write, Following, Numbered, FileTypeOK, File, SpentTypeOK, Absent
<1>4. FileTypeOK'
  BY <1>3 DEF Write, Numbered, FileTypeOK, Stage
<1>5. spent["files"] \in Nat /\ visible.generation \in Nat /\ durable.generation \in Nat
  BY DEF Numbered, SpentTypeOK, FileTypeOK, File
<1>6. \A file \in {visible', durable', next'} : file.generation <= spent'["files"]
  BY <1>2, <1>3, <1>5 DEF Write, Numbered
<1>7. \A q \in limit.processes : pc[q] = "off"
  BY <1>1 DEF Write, TakeLock, Numbered
<1>8. \A q \in limit'.processes :
       /\ pc'[q] # "off" => lock' = q
       /\ pc'[q] \in {"written", "synced"} => next'.generation > 0
       /\ pc'[q] = "renamed" => visible'.generation > 0
  BY <1>3, <1>5, <1>7 DEF Write, TakeLock, Numbered, FileTypeOK
<1>9. \A n \in DOMAIN joined' :
       joined'[n].as.generation > 0 /\ joined'[n].as.generation <= spent'["files"]
  BY <1>2, <1>5, JoinedStay DEF Write
<1> QED BY <1>2, <1>4, <1>6, <1>8, <1>9, Zenon DEF Numbered

\* Synchronising changes no generation.
LEMMA NumberedSync ==
  ASSUME Numbered, NEW p \in limit.processes, SyncFile(p)
  PROVE  Numbered'
<1>1. next' \in File /\ next'.generation = next.generation
  BY Zenon DEF SyncFile, Numbered, FileTypeOK, File
<1> QED BY <1>1 DEF SyncFile, Numbered, SpentTypeOK, FileTypeOK, Stage

\* The process with the lock is the only one inside allocate.
LEMMA NumberedRename ==
  ASSUME Numbered, NEW p \in limit.processes, Rename(p)
  PROVE  Numbered'
<1>1. \A q \in limit.processes : q # p => pc[q] = "off"
  BY DEF Rename, Numbered
<1>2. next.generation > 0 /\ Absent \in File /\ Absent.generation = 0
  BY DEF Rename, Numbered, Absent, File
<1>3. FileTypeOK'
  BY <1>2 DEF Rename, Numbered, FileTypeOK, Stage
<1>4. \A q \in limit'.processes :
       /\ pc'[q] # "off" => lock' = q
       /\ pc'[q] \in {"written", "synced"} => next'.generation > 0
       /\ pc'[q] = "renamed" => visible'.generation > 0
  BY <1>1, <1>2 DEF Rename, Numbered, FileTypeOK
<1>5. spent["files"] \in Nat
  BY DEF Numbered, SpentTypeOK
<1> QED BY <1>2, <1>3, <1>4, <1>5 DEF Rename, Numbered, SpentTypeOK

\* An incarnation has the generation of the file its process renamed.
LEMMA NumberedJoin ==
  ASSUME Numbered, NEW p \in limit.processes, Join(p)
  PROVE  Numbered' /\ \A n \in DOMAIN joined : n \in DOMAIN joined' /\ joined'[n] = joined[n]
<1>1. PICK a \in Addresses :
        joined' = Append(joined, [node |-> visible.id,
                                  as |-> [generation |-> visible.generation, addr |-> a]])
  BY DEF Join
<1> DEFINE entry == [node |-> visible.id, as |-> [generation |-> visible.generation, addr |-> a]]
<1>2. entry \in Incarnation /\ entry.as.generation = visible.generation
  BY MembershipAssumption DEF Incarnation, Numbered, FileTypeOK, File
<1>3. joined \in Seq(Incarnation) /\ joined' = Append(joined, entry)
  BY <1>1 DEF Numbered, FileTypeOK
<1> HIDE DEF entry
<1>4. /\ joined' \in Seq(Incarnation)
      /\ \A n \in DOMAIN joined : n \in DOMAIN joined' /\ joined'[n] = joined[n]
      /\ \A n \in DOMAIN joined' : (n \in DOMAIN joined /\ joined'[n] = joined[n]) \/ joined'[n] = entry
  BY <1>2, <1>3
<1>5. FileTypeOK'
  BY <1>4 DEF Join, SyncRename, Numbered, FileTypeOK, Stage
<1>6. visible.generation > 0 /\ visible.generation <= spent["files"]
  BY DEF Join, Numbered
<1>7. \A n \in DOMAIN joined' :
       joined'[n].as.generation > 0 /\ joined'[n].as.generation <= spent["files"]
  BY <1>2, <1>4, <1>6, Zenon DEF Numbered
<1> QED BY <1>4, <1>5, <1>7, Zenon DEF Join, SyncRename, Numbered, SpentTypeOK, FileTypeOK

\* A process that ends leaves the files.
LEMMA NumberedEnd ==
  ASSUME Numbered, NEW p \in limit.processes, End(p)
  PROVE  Numbered'
BY DEF End, Numbered, SpentTypeOK, FileTypeOK, Stage

\* A power failure leaves one of the two files, or one without content.
LEMMA NumberedPowerFailure ==
  ASSUME Numbered, PowerFailure
  PROVE  Numbered'
<1>1. /\ visible' \in {durable, visible, Torn} /\ durable' = visible'
      /\ next' = Absent /\ joined' = joined /\ limit' = limit
      /\ pc' = [p \in limit.processes |-> "off"]
  BY DEF PowerFailure
<1>2. Absent \in File /\ Torn \in File /\ Absent.generation = 0 /\ Torn.generation = 0
  BY DEF Absent, Torn, File
<1>3. FileTypeOK'
  BY <1>1, <1>2, Zenon DEF Numbered, FileTypeOK, Stage
<1>4. SpentTypeOK' /\ spent'["files"] >= spent["files"]
  BY FilesGrow DEF PowerFailure, Numbered
<1>5. /\ spent["files"] \in Nat /\ spent'["files"] \in Nat
      /\ visible.generation \in Nat /\ durable.generation \in Nat
  BY <1>4 DEF Numbered, SpentTypeOK, FileTypeOK, File
<1>6. \A file \in {visible', durable', next'} : file.generation <= spent'["files"]
  BY <1>1, <1>2, <1>4, <1>5 DEF Numbered
<1>7. \A n \in DOMAIN joined' :
       joined'[n].as.generation > 0 /\ joined'[n].as.generation <= spent'["files"]
  BY <1>1, <1>4, JoinedStay
<1> QED BY <1>1, <1>3, <1>4, <1>6, <1>7, Zenon DEF Numbered

\* A file that is put back has a lower generation, and at least one.
LEMMA NumberedRestore ==
  ASSUME Numbered, Restore
  PROVE  Numbered'
<1>1. PICK g \in 1 .. visible.generation - 1 :
        visible' = [visible EXCEPT !.generation = g] /\ durable' = visible'
  BY DEF Restore
<1>2. visible.generation \in Nat
  BY DEF Numbered, FileTypeOK, File
<1>3. visible' \in File /\ visible'.generation = g
  BY <1>1, <1>2 DEF Numbered, FileTypeOK, File
<1>4. FileTypeOK'
  BY <1>1, <1>3 DEF Restore, Numbered, FileTypeOK
<1>5. SpentTypeOK' /\ spent'["files"] >= spent["files"]
  BY FilesGrow DEF Restore, Numbered
<1>6. spent["files"] \in Nat /\ spent'["files"] \in Nat /\ next.generation \in Nat
  BY <1>5 DEF Numbered, SpentTypeOK, FileTypeOK, File
<1>7. \A file \in {visible', durable', next'} : file.generation <= spent'["files"]
  <2>1. visible'.generation <= spent["files"]
    BY <1>2, <1>3, <1>6 DEF Numbered
  <2>2. next'.generation = next.generation /\ next.generation <= spent["files"]
    BY DEF Restore, Numbered
  <2>3. visible'.generation \in Nat
    BY <1>2, <1>3
  <2>4. visible'.generation <= spent'["files"] /\ next'.generation <= spent'["files"]
    BY <1>5, <1>6, <2>1, <2>2, <2>3
  <2>5. durable' = visible'
    BY <1>1
  <2> QED BY <2>4, <2>5, Zenon
<1>8. \A n \in DOMAIN joined' :
       joined'[n].as.generation > 0 /\ joined'[n].as.generation <= spent'["files"]
  BY <1>5, JoinedStay DEF Restore
<1>9. \A q \in limit'.processes :
       /\ pc'[q] # "off" => lock' = q
       /\ pc'[q] \in {"written", "synced"} => next'.generation > 0
       /\ pc'[q] = "renamed" => visible'.generation > 0
  BY <1>2, <1>3 DEF Restore, Numbered
<1> QED BY <1>4, <1>5, <1>7, <1>8, <1>9, Zenon DEF Numbered

\* The other node changes neither the directory nor the incarnations; gossip may
\* have given up a running one.
LEMMA NumberedElse ==
  ASSUME Numbered, UNCHANGED <<disk, joined, limit>>,
         UNCHANGED spent \/ Spend("doubts")
  PROVE  Numbered'
<1>1. SpentTypeOK' /\ spent'["files"] >= spent["files"]
  <2>1. CASE UNCHANGED spent
    BY <2>1 DEF Numbered, SpentTypeOK
  <2>2. CASE Spend("doubts")
    BY <2>2, FilesGrow DEF Numbered
  <2> QED BY <2>1, <2>2
<1>2. \A n \in DOMAIN joined' :
       joined'[n].as.generation > 0 /\ joined'[n].as.generation <= spent'["files"]
  BY <1>1, JoinedStay
<1>3. FileTypeOK'
  BY DEF Numbered, FileTypeOK, disk
<1>4. /\ spent["files"] \in Nat /\ spent'["files"] \in Nat /\ visible.generation \in Nat
      /\ durable.generation \in Nat /\ next.generation \in Nat
  BY <1>1 DEF Numbered, SpentTypeOK, FileTypeOK, File
<1>5. \A file \in {visible', durable', next'} : file.generation <= spent'["files"]
  BY <1>1, <1>4 DEF Numbered, disk
<1> QED BY <1>1, <1>2, <1>3, <1>5 DEF Numbered, disk

-----------------------------------------------------------------------------
\* What gossip reports are names with a positive and bounded generation.
LEMMA ReportedNames ==
  ASSUME Numbered, Reported, NEW i \in DOMAIN records
  PROVE  i \in Name /\ i.generation > 0 /\ i.generation <= spent["files"]
<1>1. PICK n \in DOMAIN joined : i = joined[n].as
  BY DEF Reported
<1>2. joined[n] \in Incarnation
  BY DEF Numbered, FileTypeOK
<1> QED BY <1>1, <1>2 DEF Incarnation, Name, Numbered

\* What a reconciliation makes of an entry: it never goes below the retained one nor
\* below a record, and it is new, or as old as the retained one.
LEMMA ObservedFacts ==
  ASSUME Numbered, Reported, history \in Entry
  PROVE  /\ Observed \in Entry
         /\ \A i \in DOMAIN records :
              /\ i.generation <= Observed.generation
              /\ i.generation = Observed.generation =>
                   Observed.age = 0 /\ (i.addr = Observed.first \/ Observed.conflicting)
         /\ Retained.generation <= Observed.generation
         /\ Observed.age = 0 \/ Observed.age = Retained.age
         /\ Observed.generation = Retained.generation /\ Observed.generation > 0 =>
              /\ Observed.first = Retained.first
              /\ Retained.conflicting => Observed.conflicting
<1> DEFINE old == Retained
           S == {old.generation} \cup Generations
           g == Max(S)
           first == IF g > old.generation THEN Min(At(g)) ELSE old.first
<1>1. old \in Entry
  BY DEF Retained, Forgotten, Entry
<1>2. \A x \in Generations : x \in Nat /\ x > 0 /\ x <= spent["files"]
  BY ReportedNames DEF Generations, Name
<1>3. spent["files"] \in Nat
  BY DEF Numbered, SpentTypeOK
<1>4. old.generation \in Nat /\ old.first \in Nat /\ old.age \in Nat /\ old.conflicting \in BOOLEAN
  BY <1>1 DEF Entry
<1> HIDE DEF old
<1>5. S \subseteq Nat /\ S # {}
  BY <1>2, <1>4
<1>6. spent["files"] + old.generation \in Nat /\ \A y \in S : y <= spent["files"] + old.generation
  BY <1>2, <1>3, <1>4
<1>7. g \in S /\ \A y \in S : g >= y
  <2> HIDE DEF S
  <2> QED BY <1>5, <1>6, MaxFacts, Zenon
<1>8. g \in Nat /\ g >= old.generation /\ (g > old.generation => g \in Generations)
  BY <1>5, <1>7, <1>4
<1>9. \A i \in DOMAIN records : i.generation \in Nat /\ i.generation > 0 /\ i.generation <= g
  <2> TAKE i \in DOMAIN records
  <2>1. i.generation \in S
    BY DEF Generations
  <2>2. i.generation \in Nat /\ i.generation > 0
    BY ReportedNames DEF Name
  <2> QED BY <2>1, <2>2, <1>7, <1>8, Zenon
<1> HIDE DEF g, S
<1>10. At(g) \subseteq Nat /\ (g \in Generations => At(g) # {})
  BY ReportedNames DEF At, Generations, Name
<1>11. first \in Nat
  <2>1. CASE g > old.generation
    <3>1. At(g) # {} /\ At(g) \subseteq Nat
      BY <2>1, <1>8, <1>10, Zenon
    <3>2. Min(At(g)) \in At(g)
      BY <3>1, MinFacts, Zenon
    <3> QED BY <2>1, <3>1, <3>2, Zenon
  <2>2. CASE ~(g > old.generation)
    BY <2>2, <1>4, Zenon
  <2> QED BY <2>1, <2>2
<1>12. first = old.first \/ g # old.generation
  BY <1>8
<1> HIDE DEF first
<1> DEFINE age == IF g \in Generations THEN 0 ELSE old.age
           clash == (g = old.generation /\ old.conflicting) \/ At(g) \ {first} # {}
           new == [generation |-> g, age |-> age, first |-> first, conflicting |-> clash]
<1>13. Observed = IF g = 0 THEN Forgotten ELSE new
  BY Zenon DEF Observed, old, S, g, first, age, clash, new
<1>14. age \in Nat /\ (age = 0 \/ age = old.age) /\ clash \in BOOLEAN
  BY <1>4
<1>15. \A i \in DOMAIN records : i.generation = g => age = 0 /\ (i.addr = first \/ clash)
  <2> SUFFICES ASSUME NEW i \in DOMAIN records, i.generation = g
               PROVE  g \in Generations /\ i.addr \in At(g)
    OBVIOUS
  <2> QED BY DEF Generations, At
<1>16. g = old.generation /\ old.conflicting => clash
  OBVIOUS
<1> HIDE DEF age, clash
<1>17. CASE g = 0
  <2>1. Observed = Forgotten /\ DOMAIN records = {}
    <3>1. ASSUME NEW i \in DOMAIN records PROVE FALSE
      <4>1. i.generation \in Nat /\ i.generation > 0 /\ i.generation <= 0
        BY <1>9, <1>17, <3>1, Zenon
      <4> QED BY <4>1
    <3> QED BY <1>13, <1>17, <3>1, Zenon
  <2> QED BY <2>1, <1>4, <1>8, <1>17 DEF old, Forgotten, Entry
<1>18. CASE g # 0
  <2>1. Observed = new
    BY <1>13, <1>18
  <2>2. new \in Entry
    BY <1>8, <1>11, <1>14, Zenon DEF Entry
  <2>3. new.generation = g /\ new.age = age /\ new.first = first /\ new.conflicting = clash
    OBVIOUS
  <2> HIDE DEF new
  <2> QED BY <2>1, <2>2, <2>3, <1>8, <1>9, <1>12, <1>14, <1>15, <1>16, Zenon DEF old
<1> QED BY <1>17, <1>18

\* A reconciliation keeps what is remembered within the retention, and whoever is
\* judged usable leads alone.
LEMMA ViewReconcile ==
  ASSUME Numbered, Reported, ViewSound, Reconcile
  PROVE  ViewSound'
<1> DEFINE new == Observed
           led == {i \in DOMAIN records : ~Superseded(i, Observed)}
<1>1. history \in Entry /\ history' = new /\ usable' = Judged
      /\ leading' = [i \in DOMAIN leading \cup led |-> IF i \in led THEN 0 ELSE leading[i]]
  BY DEF ViewSound, Reconcile
<1>2. new \in Entry
  BY <1>1, ObservedFacts, Zenon
<1>3. \A i \in DOMAIN records :
        /\ i \in Name /\ i.generation > 0 /\ i.generation <= new.generation
        /\ i.generation = new.generation =>
             new.age = 0 /\ (i.addr = new.first \/ new.conflicting)
  BY <1>1, ObservedFacts, ReportedNames, Zenon
<1>4. /\ Retained.generation <= new.generation
      /\ new.age = 0 \/ new.age = Retained.age
      /\ new.generation = Retained.generation /\ new.generation > 0 =>
           new.first = Retained.first /\ (Retained.conflicting => new.conflicting)
  BY <1>1, ObservedFacts
<1>5. new.generation \in Nat /\ new.age \in Nat
  BY <1>2 DEF Entry
<1>6. history.generation \in Nat /\ history.age \in Nat
  BY <1>1 DEF Entry
<1>7. led \subseteq DOMAIN records /\ \A i \in led : i.generation = new.generation
  BY <1>3, <1>5 DEF Superseded, Name
<1>8. \A i \in Judged : i \in Name /\ Singles(new, i)
  <2> TAKE i \in Judged
  <2>1. i \in DOMAIN records /\ ~Superseded(i, new) /\ ~Conflicting(i, new)
    BY DEF Judged
  <2>2. i \in Name /\ i.generation = new.generation
    BY <2>1, <1>3, <1>5 DEF Superseded, Name
  <2> QED BY <2>1, <2>2, <1>3, Zenon DEF Conflicting, Singles
<1> HIDE DEF new, led
<1>9. ASSUME NEW j \in DOMAIN leading'
      PROVE  j \in Name /\ j.generation > 0 /\ leading'[j] \in Nat /\ Remembers(new, j, leading'[j])
  <2>1. CASE j \in led
    <3>1. leading'[j] = 0 /\ j \in DOMAIN records /\ j.generation = new.generation
      BY <1>1, <1>7, <2>1, Zenon
    <3> QED BY <3>1, <1>3 DEF Remembers
  <2>2. CASE j \notin led
    <3>1. j \in DOMAIN leading /\ leading'[j] = leading[j]
      BY <1>1, <1>9, <2>2, Zenon
    <3>2. j \in Name /\ j.generation > 0 /\ leading[j] \in Nat /\ Remembers(history, j, leading[j])
      BY <3>1 DEF ViewSound
    <3>3. ASSUME ~(leading[j] > Retention) PROVE Remembers(new, j, leading[j])
      <4>1. /\ j.generation <= history.generation /\ history.age <= leading[j]
            /\ j.generation = history.generation => j.addr = history.first \/ history.conflicting
        BY <3>2, <3>3 DEF Remembers
      <4>2. Retained = history
        BY <3>2, <3>3, <4>1, <1>6, MembershipAssumption DEF Retained
      <4>3. j.generation \in Nat
        BY <3>2 DEF Name
      <4>4. j.generation <= new.generation /\ new.age <= leading[j]
        BY <1>4, <1>5, <1>6, <3>2, <4>1, <4>2, <4>3, SMTT(30)
      <4>5. j.generation = new.generation =>
              new.generation = history.generation /\ j.generation = history.generation
              /\ new.generation > 0
        BY <1>4, <1>5, <1>6, <3>2, <4>1, <4>2, <4>3, SMTT(30)
      <4>6. j.generation = new.generation => j.addr = new.first \/ new.conflicting
        BY <4>1, <4>2, <4>5, <1>4
      <4> QED BY <4>4, <4>6 DEF Remembers
    <3> QED BY <3>1, <3>2, <3>3, Zenon DEF Remembers
  <2> QED BY <2>1, <2>2
<1> QED BY <1>1, <1>2, <1>8, <1>9, Zenon DEF ViewSound

\* The entry and the incarnations it covers age alike.
LEMMA ViewTick ==
  ASSUME ViewSound, Tick
  PROVE  ViewSound'
<1>1. /\ history \in Entry /\ history' = [history EXCEPT !.age = Older(@)]
      /\ leading' = [i \in DOMAIN leading |-> Older(leading[i])] /\ usable' = usable
  BY DEF ViewSound, Tick
<1>2. Retention \in Nat
  BY MembershipAssumption
<1>3. \A a \in Nat : Older(a) \in Nat
  BY <1>2 DEF Older
<1>4. history.age \in Nat
  BY <1>1 DEF Entry
<1>5. /\ history' \in Entry /\ history'.age = Older(history.age)
      /\ history'.generation = history.generation /\ history'.first = history.first
      /\ history'.conflicting = history.conflicting
  BY <1>1, <1>3, <1>4, Zenon DEF Entry
<1>6. ASSUME NEW j \in DOMAIN leading'
      PROVE  /\ j \in Name /\ j.generation > 0 /\ leading'[j] \in Nat
             /\ Remembers(history', j, leading'[j])
  <2>1. j \in DOMAIN leading /\ leading'[j] = Older(leading[j])
    BY <1>1, <1>6
  <2>2. j \in Name /\ j.generation > 0 /\ leading[j] \in Nat /\ Remembers(history, j, leading[j])
    BY <2>1 DEF ViewSound
  <2>3. \/ Older(leading[j]) > Retention
        \/ leading[j] <= Retention
           /\ (history.age <= leading[j] => Older(history.age) <= Older(leading[j]))
    BY <1>2, <1>4, <2>2 DEF Older
  <2>4. leading[j] > Retention => Older(leading[j]) > Retention
    BY <1>2, <2>2 DEF Older
  <2> QED BY <1>2, <1>3, <1>5, <2>1, <2>2, <2>3, <2>4, Zenon DEF Remembers
<1>7. \A i \in usable : i \in Name /\ Singles(history', i)
  BY <1>5 DEF ViewSound, Singles
<1> QED BY <1>1, <1>5, <1>6, <1>7 DEF ViewSound

\* Whatever leaves the view and the records alone keeps what they say, while
\* incarnations may join.
LEMMA ViewSame ==
  ASSUME Reported, ViewSound, UNCHANGED observer,
         \A n \in DOMAIN joined : n \in DOMAIN joined' /\ joined'[n] = joined[n]
  PROVE  Reported' /\ ViewSound'
<1>1. UNCHANGED <<records, history, usable, leading>>
  BY DEF observer
<1>2. Reported'
  BY <1>1 DEF Reported
<1>3. ViewSound'
  BY <1>1 DEF ViewSound
<1> QED BY <1>2, <1>3

\* Gossip reports what joined, and gives up what it reported.
LEMMA ReportedGossip ==
  ASSUME Reported, NEW i \in Incarnations,
         GiveUp(i) \/ \E sound \in BOOLEAN : Report(i, sound)
  PROVE  Reported'
<1>1. DOMAIN records' \subseteq DOMAIN records \cup {i} /\ joined' = joined
  BY Zenon DEF GiveUp, Report, With, Without
<1>2. \E n \in DOMAIN joined : i = joined[n].as
  BY DEF Incarnations
<1> QED BY <1>1, <1>2 DEF Reported

\* Every step keeps the invariant.
LEMMA ViewStep == ViewIInv /\ [Next]_vars => ViewIInv'
<1> SUFFICES ASSUME ViewIInv, [Next]_vars PROVE ViewIInv'
  OBVIOUS
<1>0. Numbered /\ Reported /\ ViewSound
  BY DEF ViewIInv
<1>1. ASSUME NEW p \in limit.processes,
             Write(p) \/ SyncFile(p) \/ Rename(p) \/ Join(p) \/ End(p)
      PROVE  ViewIInv'
  <2>1. Numbered' /\ \A n \in DOMAIN joined : n \in DOMAIN joined' /\ joined'[n] = joined[n]
    <3>1. CASE Join(p)
      BY <3>1, <1>0, NumberedJoin
    <3>2. CASE Write(p) \/ SyncFile(p) \/ Rename(p) \/ End(p)
      <4>1. joined' = joined
        BY <3>2 DEF Write, SyncFile, Rename, End
      <4>2. Numbered'
        BY <3>2, <1>0, NumberedWrite, NumberedSync, NumberedRename, NumberedEnd, Zenon
      <4> QED BY <4>1, <4>2
    <3> QED BY <1>1, <3>1, <3>2, Zenon
  <2>2. UNCHANGED observer
    BY <1>1 DEF Write, SyncFile, Rename, Join, End
  <2> QED BY <1>0, <2>1, <2>2, ViewSame, Zenon DEF ViewIInv
<1>2. CASE PowerFailure \/ Restore
  <2>1. UNCHANGED <<observer, joined>>
    BY <1>2 DEF PowerFailure, Restore
  <2>2. Numbered'
    BY <1>0, <1>2, NumberedPowerFailure, NumberedRestore
  <2> QED BY <1>0, <2>1, <2>2, ViewSame DEF ViewIInv
<1>3. ASSUME NEW i \in Incarnations, GiveUp(i) \/ \E sound \in BOOLEAN : Report(i, sound)
      PROVE  ViewIInv'
  <2>1. /\ UNCHANGED <<disk, joined, limit, history, usable, leading>>
        /\ UNCHANGED spent \/ Spend("doubts")
    BY <1>3, Zenon DEF GiveUp, Report
  <2>2. Numbered'
    BY <1>0, <2>1, NumberedElse
  <2>3. Reported'
    BY <1>0, <1>3, ReportedGossip
  <2>4. ViewSound'
    BY <1>0, <2>1 DEF ViewSound
  <2> QED BY <2>2, <2>3, <2>4 DEF ViewIInv
<1>4. CASE Reconcile \/ Tick
  <2>1. UNCHANGED <<disk, joined, limit, spent, records>>
    BY <1>4 DEF Reconcile, Tick
  <2>2. Numbered'
    BY <1>0, <2>1, NumberedElse
  <2>3. Reported'
    BY <1>0, <2>1 DEF Reported
  <2>4. ViewSound'
    BY <1>0, <1>4, ViewReconcile, ViewTick, Zenon
  <2> QED BY <2>2, <2>3, <2>4 DEF ViewIInv
<1>5. CASE UNCHANGED vars
  <2>1. UNCHANGED <<disk, joined, limit, spent, observer>>
    BY <1>5 DEF vars
  <2>2. Numbered'
    BY <1>0, <2>1, NumberedElse
  <2> QED BY <1>0, <2>1, <2>2, ViewSame, Zenon DEF ViewIInv
<1> QED BY <1>1, <1>2, <1>3, <1>4, <1>5, Zenon DEF Next

\* Only one incarnation can be the one of the entry.
LEMMA FenceFollows == ViewIInv => FenceHolds
<1> SUFFICES ASSUME ViewSound PROVE FenceHolds
  BY DEF ViewIInv
<1>1. \A i, j \in usable : i = j
  BY DEF ViewSound, Singles, Name
<1>2. Cardinality(usable) <= 1
  <2>1. CASE usable = {}
    BY <2>1, FS_EmptySet
  <2>2. ASSUME NEW i \in usable PROVE Cardinality(usable) <= 1
    <3>1. usable = {i}
      BY <1>1, <2>2
    <3>2. Cardinality({i}) = 1
      BY FS_Singleton, Zenon
    <3> QED BY <3>1, <3>2
  <2> QED BY <2>1, <2>2
<1>3. ASSUME NEW i \in usable, NEW j \in DOMAIN leading
      PROVE  leading[j] > Retention \/ j.generation < i.generation \/ j = i
  <2>1. i \in Name /\ Singles(history, i) /\ j \in Name /\ Remembers(history, j, leading[j])
    BY <1>3 DEF ViewSound
  <2> QED BY <2>1 DEF Singles, Remembers, Name
<1> QED BY <1>2, <1>3 DEF FenceHolds

\* While an incarnation is usable to another node, no higher generation and no other
\* address of its generation led within the retention, and no second one is usable
\* (View::update): whatever gossip reports, gives up and reports again, and with state
\* files put back too.
THEOREM FenceAlwaysHolds == Spec => []FenceHolds
BY ViewInit, ViewStep, FenceFollows, PTL DEF Spec
=============================================================================
