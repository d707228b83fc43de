-------------------------- MODULE ShardTurn_proofs --------------------------
(***************************************************************************)
(* The command lanes, for every number of shards, every budget and every   *)
(* capacity: a shard with commands is on the schedule exactly once, and a  *)
(* running shard takes its commands in the order they were pushed.         *)
(*                                                                         *)
(* flush pops the schedule and then the queue of the shard it popped, and  *)
(* the process aborts on an empty one.  The two lists of shards, scheduled *)
(* and set aside, therefore have to be exact at every attempt, between     *)
(* which shards take commands or end.                                      *)
(***************************************************************************)
EXTENDS ShardTurn, SequenceTheorems, TLAPS

Members(q) == {q[i] : i \in 1 .. Len(q)}
Distinct(q) == \A i, j \in 1 .. Len(q) : q[i] = q[j] => i = j

\* The lists have their types.
LaneTypeOK ==
  /\ pushed \in [Shards -> Nat] /\ alive \in [Shards -> BOOLEAN]
  /\ queues \in [Shards -> Seq(Nat)] /\ mailbox \in [Shards -> Seq(Nat)]
  /\ received \in [Shards -> Seq(Nat)]
  /\ pending \in Seq(Shards) /\ blocked \in Seq(Shards)

\* Scheduled and set aside are two lists without repetition and in common, and
\* together they are the shards with commands.
Listed(pend, block, with) ==
  /\ Distinct(pend) /\ Distinct(block)
  /\ Members(pend) \cap Members(block) = {}
  /\ Members(pend) \cup Members(block) = with

Waiting(qs) == {s \in Shards : qs[s] # <<>>}

\* The inductive invariant.
LaneIInv ==
  /\ LaneTypeOK
  /\ Listed(pending, blocked, Waiting(queues))
  /\ CommandsInOrder

-----------------------------------------------------------------------------
(* Lists without repetition.                                               *)

\* r has the elements of q and e; those of q without its first; those of q and q2.
Longer(S, q, e, r) ==
  r \in Seq(S) /\ Distinct(r) /\ Members(r) = Members(q) \cup {e}
Shorter(S, q, r) ==
  /\ r \in Seq(S) /\ Distinct(r) /\ Head(q) \in S
  /\ Head(q) \in Members(q) /\ Members(r) = Members(q) \ {Head(q)}
Joint(S, q, q2, r) ==
  r \in Seq(S) /\ Distinct(r) /\ Members(r) = Members(q) \cup Members(q2)

\* Appending a new element.
LEMMA AppendMember ==
  ASSUME NEW S, NEW q \in Seq(S), NEW e \in S, Distinct(q), e \notin Members(q)
  PROVE  Longer(S, q, e, Append(q, e))
<1>1. /\ Append(q, e) \in Seq(S) /\ Len(q) \in Nat /\ Len(Append(q, e)) = Len(q) + 1
      /\ Append(q, e)[Len(q) + 1] = e
      /\ \A i \in 1 .. Len(q) : Append(q, e)[i] = q[i]
  OBVIOUS
<1>2. ASSUME NEW r \in Seq(S), Len(r) = Len(q) + 1, r[Len(q) + 1] = e,
             \A i \in 1 .. Len(q) : r[i] = q[i]
      PROVE  Distinct(r) /\ Members(r) = Members(q) \cup {e}
  <2>1. \A i \in 1 .. Len(r) : i \in 1 .. Len(q) \/ i = Len(q) + 1
    BY <1>1, <1>2
  <2>2. Distinct(r)
    BY <1>1, <1>2, <2>1 DEF Distinct, Members
  <2>3. Members(r) = Members(q) \cup {e}
    BY <1>1, <1>2, <2>1 DEF Members
  <2> QED BY <2>2, <2>3
<1> QED BY <1>1, <1>2, Zenon DEF Longer

\* Taking the first element.
LEMMA TailMember ==
  ASSUME NEW S, NEW q \in Seq(S), q # <<>>, Distinct(q)
  PROVE  Shorter(S, q, Tail(q))
<1>1. /\ Tail(q) \in Seq(S) /\ Len(q) \in Nat \ {0} /\ Len(Tail(q)) = Len(q) - 1
      /\ Head(q) = q[1] /\ q[1] \in S
      /\ \A i \in 1 .. Len(q) - 1 : Tail(q)[i] = q[i + 1]
  OBVIOUS
<1>2. ASSUME NEW r \in Seq(S), Len(r) = Len(q) - 1, \A i \in 1 .. Len(q) - 1 : r[i] = q[i + 1]
      PROVE  Distinct(r) /\ Members(r) = Members(q) \ {q[1]}
  <2>1. \A i \in 1 .. Len(q) : i = 1 \/ i - 1 \in 1 .. Len(q) - 1
    BY <1>1
  <2>2. \A i \in 1 .. Len(r) : i + 1 \in 1 .. Len(q) /\ i + 1 # 1 /\ r[i] = q[i + 1]
    BY <1>1, <1>2
  <2>3. Distinct(r)
    BY <1>1, <2>2 DEF Distinct
  <2>4. ASSUME NEW x \in Members(r) PROVE x \in Members(q) /\ x # q[1]
    BY <1>1, <2>2, <2>4 DEF Members, Distinct
  <2>5. ASSUME NEW x \in Members(q), x # q[1] PROVE x \in Members(r)
    <3>1. PICK i \in 1 .. Len(q) : x = q[i]
      BY <2>5 DEF Members
    <3>2. i - 1 \in 1 .. Len(r) /\ r[i - 1] = x
      BY <1>1, <1>2, <2>1, <2>5, <3>1
    <3> QED BY <3>2 DEF Members
  <2> QED BY <2>3, <2>4, <2>5
<1>3. q[1] \in Members(q)
  BY <1>1 DEF Members
<1> QED BY <1>1, <1>2, <1>3, Zenon DEF Shorter

\* One list after the other.
LEMMA ConcatMember ==
  ASSUME NEW S, NEW q \in Seq(S), NEW r \in Seq(S), Distinct(q), Distinct(r),
         Members(q) \cap Members(r) = {}
  PROVE  Joint(S, q, r, q \o r)
<1>1. /\ q \o r \in Seq(S) /\ Len(q) \in Nat /\ Len(r) \in Nat /\ Len(q \o r) = Len(q) + Len(r)
      /\ \A i \in 1 .. Len(q) : (q \o r)[i] = q[i]
      /\ \A i \in 1 .. Len(r) : (q \o r)[Len(q) + i] = r[i]
  BY ConcatProperties
<1>2. ASSUME NEW t \in Seq(S), Len(t) = Len(q) + Len(r),
             \A i \in 1 .. Len(q) : t[i] = q[i], \A i \in 1 .. Len(r) : t[Len(q) + i] = r[i]
      PROVE  Distinct(t) /\ Members(t) = Members(q) \cup Members(r)
  <2>1. \A i \in 1 .. Len(t) :
          \/ i \in 1 .. Len(q) /\ t[i] = q[i] /\ t[i] \in Members(q)
          \/ i - Len(q) \in 1 .. Len(r) /\ t[i] = r[i - Len(q)] /\ t[i] \in Members(r)
    <3> TAKE i \in 1 .. Len(t)
    <3>1. CASE i \in 1 .. Len(q)
      BY <3>1, <1>2 DEF Members
    <3>2. CASE i \notin 1 .. Len(q)
      <4>1. i - Len(q) \in 1 .. Len(r) /\ i = Len(q) + (i - Len(q))
        BY <3>2, <1>1, <1>2
      <4>2. t[i] = r[i - Len(q)]
        BY <4>1, <1>2
      <4> QED BY <4>1, <4>2 DEF Members
    <3> QED BY <3>1, <3>2
  <2>2. Distinct(t)
    <3> SUFFICES ASSUME NEW i \in 1 .. Len(t), NEW j \in 1 .. Len(t), t[i] = t[j] PROVE i = j
      BY DEF Distinct
    <3>1. i \in Nat /\ j \in Nat
      BY <1>1, <1>2
    <3>2. CASE i \in 1 .. Len(q) /\ j \in 1 .. Len(q)
      BY <1>2, <3>2 DEF Distinct
    <3>3. CASE i \notin 1 .. Len(q) /\ j \notin 1 .. Len(q)
      <4>1. /\ i - Len(q) \in 1 .. Len(r) /\ t[i] = r[i - Len(q)]
            /\ j - Len(q) \in 1 .. Len(r) /\ t[j] = r[j - Len(q)]
        BY <2>1, <3>3, Zenon
      <4>2. i - Len(q) = j - Len(q)
        BY <4>1, Zenon DEF Distinct
      <4> QED BY <1>1, <3>1, <4>2
    <3>4. ~(i \in 1 .. Len(q) /\ j \notin 1 .. Len(q)) /\ ~(j \in 1 .. Len(q) /\ i \notin 1 .. Len(q))
      <4>1. ASSUME NEW a \in 1 .. Len(t), NEW b \in 1 .. Len(t), t[a] = t[b],
                   a \in 1 .. Len(q), b \notin 1 .. Len(q)
            PROVE  FALSE
        <5>1. t[a] \in Members(q) /\ t[b] \in Members(r)
          <6>1. t[a] = q[a]
            BY <1>2, <4>1, Zenon
          <6> QED BY <2>1, <4>1, <6>1, Zenon DEF Members
        <5> QED BY <4>1, <5>1, Zenon
      <4> QED BY <4>1, Zenon
    <3> QED BY <3>2, <3>3, <3>4, Zenon
  <2>3. \A i \in 1 .. Len(q) : i \in 1 .. Len(t)
    BY <1>1, <1>2
  <2>4. \A i \in 1 .. Len(r) : Len(q) + i \in 1 .. Len(t)
    BY <1>1, <1>2
  <2>5. Members(q) \subseteq Members(t)
    BY <1>2, <2>3 DEF Members
  <2>6. Members(r) \subseteq Members(t)
    BY <1>2, <2>4 DEF Members
  <2>7. Members(t) \subseteq Members(q) \cup Members(r)
    BY <2>1 DEF Members
  <2> QED BY <2>2, <2>5, <2>6, <2>7, Zenon
<1> QED BY <1>1, <1>2, Zenon DEF Joint

-----------------------------------------------------------------------------
(* The stream of commands.                                                 *)

Counting(n) == [i \in 1 .. n |-> i]

\* Concatenation of lists of commands is associative.
LEMMA Associates ==
  ASSUME NEW a \in Seq(Nat), NEW b \in Seq(Nat), NEW c \in Seq(Nat)
  PROVE  (a \o b) \o c = a \o (b \o c)
BY ConcatAssociative

\* A command is pushed.
LEMMA PushedNext ==
  ASSUME NEW t \in Seq(Nat), NEW q \in Seq(Nat), NEW n \in Nat, t \o q = Counting(n)
  PROVE  t \o Append(q, n + 1) = Counting(n + 1)
<1>1. t \o Append(q, n + 1) = Append(t \o q, n + 1)
  OBVIOUS
<1>2. Append(Counting(n), n + 1) = Counting(n + 1)
  <2>1. Counting(n) \in Seq(Nat) /\ Len(Counting(n)) = n
    BY DEF Counting
  <2>2. Counting(n + 1) \in Seq(Nat) /\ Len(Counting(n + 1)) = n + 1
    BY DEF Counting
  <2>3. /\ Append(Counting(n), n + 1) \in Seq(Nat)
        /\ Len(Append(Counting(n), n + 1)) = n + 1
        /\ \A i \in 1 .. n + 1 : Append(Counting(n), n + 1)[i] = i
    BY <2>1 DEF Counting
  <2>4. \A i \in 1 .. n + 1 : Counting(n + 1)[i] = i
    BY DEF Counting
  <2> QED BY <2>2, <2>3, <2>4, SeqEqual
<1> QED BY <1>1, <1>2, Zenon

\* The first command of the queue goes to the end of the mailbox.
LEMMA SentNext ==
  ASSUME NEW r \in Seq(Nat), NEW m \in Seq(Nat), NEW q \in Seq(Nat), q # <<>>
  PROVE  (r \o Append(m, Head(q))) \o Tail(q) = (r \o m) \o q
<1>1. Head(q) \in Nat /\ Tail(q) \in Seq(Nat) /\ q = <<Head(q)>> \o Tail(q)
  OBVIOUS
<1>2. r \o Append(m, Head(q)) = (r \o m) \o <<Head(q)>>
  BY <1>1
<1>3. r \o m \in Seq(Nat) /\ <<Head(q)>> \in Seq(Nat)
  BY <1>1
<1>4. ((r \o m) \o <<Head(q)>>) \o Tail(q) = (r \o m) \o (<<Head(q)>> \o Tail(q))
  <2> DEFINE a == r \o m
             b == <<Head(q)>>
             c == Tail(q)
  <2>1. a \in Seq(Nat) /\ b \in Seq(Nat) /\ c \in Seq(Nat)
    BY <1>1, <1>3
  <2> HIDE DEF a, b, c
  <2>2. (a \o b) \o c = a \o (b \o c)
    BY <2>1, Associates, ZenonT(60)
  <2> QED BY <2>2, Zenon DEF a, b, c
<1> QED BY <1>1, <1>2, <1>4, Zenon

\* The shard takes the first k commands of its mailbox.
LEMMA TakenNext ==
  ASSUME NEW r \in Seq(Nat), NEW m \in Seq(Nat), NEW k \in 0 .. Len(m)
  PROVE  (r \o SubSeq(m, 1, k)) \o SubSeq(m, k + 1, Len(m)) = r \o m
<1> DEFINE a == SubSeq(m, 1, k)
           b == SubSeq(m, k + 1, Len(m))
<1>1. a \in Seq(Nat) /\ b \in Seq(Nat) /\ SubSeq(m, 1, Len(m)) = m
  OBVIOUS
<1>2. a \o b = m
  <2>1. Len(m) \in Nat /\ 1 \in 1 .. Len(m) + 1 /\ k \in 1 - 1 .. Len(m) /\ Len(m) \in k .. Len(m)
    OBVIOUS
  <2>2. a \o b = SubSeq(m, 1, Len(m))
    BY <2>1, ConcatAdjacentSubSeq, Zenon
  <2> QED BY <1>1, <2>2, Zenon
<1> HIDE DEF a, b
<1>3. (r \o a) \o b = r \o (a \o b)
  BY <1>1, Associates, Zenon
<1> QED BY <1>2, <1>3, Zenon DEF a, b

\* The stream of a shard.
Stream(s) == (received[s] \o mailbox[s]) \o queues[s]

\* A step keeps the order if, of each shard still running, the stream and the number
\* pushed stay or both grow by one.
LEMMA OrderKept ==
  ASSUME CommandsInOrder, NEW t \in Shards,
         \A s \in Shards : s # t =>
           /\ alive'[s] = alive[s] /\ received'[s] = received[s] /\ mailbox'[s] = mailbox[s]
           /\ queues'[s] = queues[s] /\ pushed'[s] = pushed[s],
         alive'[t] =>
           alive[t] /\ (Stream(t) = Counting(pushed[t]) => Stream(t)' = Counting(pushed'[t]))
  PROVE  CommandsInOrder'
BY ZenonT(60) DEF CommandsInOrder, Stream, Counting

-----------------------------------------------------------------------------
(* The steps.                                                              *)

\* Nothing is pushed and nothing scheduled.
LEMMA LaneInit == Init => LaneIInv
<1> SUFFICES ASSUME Init PROVE LaneIInv
  OBVIOUS
<1>1. LaneTypeOK
  BY DEF Init, LanesInit, LaneTypeOK
<1>2. Listed(pending, blocked, Waiting(queues))
  BY DEF Init, LanesInit, Listed, Distinct, Members, Waiting
<1>3. CommandsInOrder
  <2> SUFFICES ASSUME NEW s \in Shards
               PROVE (received[s] \o mailbox[s]) \o queues[s] = [i \in 1 .. pushed[s] |-> i]
    BY Zenon DEF CommandsInOrder
  <2>1. received[s] = <<>> /\ mailbox[s] = <<>> /\ queues[s] = <<>> /\ pushed[s] = 0
    BY DEF Init, LanesInit
  <2>2. (<<>> \o <<>>) \o <<>> = <<>>
    OBVIOUS
  <2>3. [i \in 1 .. 0 |-> i] = <<>>
    OBVIOUS
  <2> QED BY <2>1, <2>2, <2>3, ZenonT(30)
<1> QED BY <1>1, <1>2, <1>3 DEF LaneIInv

\* A shard is scheduled with its first command.
LEMMA PushBackStep ==
  ASSUME LaneIInv, NEW t \in Shards, PushBack(t)
  PROVE  LaneIInv'
<1>1. /\ LaneTypeOK /\ blocked = <<>> /\ blocked' = blocked
      /\ pushed' = [pushed EXCEPT ![t] = @ + 1]
      /\ queues' = [queues EXCEPT ![t] = Append(@, pushed[t] + 1)]
      /\ pending' = IF queues[t] = <<>> THEN Append(pending, t) ELSE pending
      /\ UNCHANGED <<mailbox, alive, received>>
  BY DEF LaneIInv, PushBack, Scheduled
<1>2. /\ queues[t] \in Seq(Nat) /\ pushed[t] \in Nat /\ received[t] \in Seq(Nat)
      /\ mailbox[t] \in Seq(Nat) /\ pending \in Seq(Shards)
  BY <1>1 DEF LaneTypeOK
<1>3. Append(queues[t], pushed[t] + 1) \in Seq(Nat) /\ Append(queues[t], pushed[t] + 1) # <<>>
  <2>1. ASSUME NEW q \in Seq(Nat), NEW e \in Nat PROVE Append(q, e) \in Seq(Nat) /\ Append(q, e) # <<>>
    BY AppendProperties
  <2>2. pushed[t] + 1 \in Nat
    BY <1>2
  <2> QED BY <1>2, <2>1, <2>2, Zenon
<1>4. /\ queues'[t] = Append(queues[t], pushed[t] + 1) /\ pushed'[t] = pushed[t] + 1
      /\ \A s \in Shards : s # t => queues'[s] = queues[s] /\ pushed'[s] = pushed[s]
  BY <1>1 DEF LaneTypeOK
<1>5. Waiting(queues') = Waiting(queues) \cup {t}
  BY <1>3, <1>4, Zenon DEF Waiting
<1>6. /\ Distinct(pending) /\ Distinct(blocked) /\ Members(blocked) = {}
      /\ Members(pending) = Waiting(queues)
  BY <1>1 DEF LaneIInv, Listed, Members
<1>7. pending' \in Seq(Shards) /\ Distinct(pending') /\ Members(pending') = Waiting(queues')
  <2>1. CASE queues[t] = <<>>
    <3>1. t \notin Members(pending)
      BY <1>6, <2>1 DEF Waiting
    <3>2. Longer(Shards, pending, t, Append(pending, t))
      BY <1>2, <1>6, <3>1, AppendMember
    <3> QED BY <1>1, <1>5, <1>6, <2>1, <3>2, ZenonT(30) DEF Longer
  <2>2. CASE queues[t] # <<>>
    BY <1>1, <1>2, <1>5, <1>6, <2>2, Zenon DEF Waiting
  <2> QED BY <2>1, <2>2
<1>8. Listed(pending', blocked', Waiting(queues'))
  BY <1>1, <1>6, <1>7 DEF Listed
<1>9. LaneTypeOK'
  BY <1>1, <1>2, <1>3, <1>7 DEF LaneTypeOK
<1>10. CommandsInOrder'
  <2>1. Stream(t) = Counting(pushed[t]) => Stream(t)' = Counting(pushed'[t])
    <3>1. received[t] \o mailbox[t] \in Seq(Nat)
      BY <1>2
    <3>2. (received[t] \o mailbox[t]) \o queues[t] = Counting(pushed[t]) =>
            (received[t] \o mailbox[t]) \o Append(queues[t], pushed[t] + 1) = Counting(pushed[t] + 1)
      BY <1>2, <3>1, PushedNext, Zenon
    <3>3. received'[t] = received[t] /\ mailbox'[t] = mailbox[t]
      BY <1>1, Zenon
    <3> QED BY <1>4, <3>2, <3>3, Zenon DEF Stream
  <2> QED BY <1>1, <1>4, <2>1, OrderKept, Zenon DEF LaneIInv
<1> QED BY <1>8, <1>9, <1>10 DEF LaneIInv

\* The shard at the head of the schedule has a command.
LEMMA TargetWaits ==
  ASSUME LaneIInv, pending # <<>>
  PROVE  /\ Target \in Shards /\ queues[Target] \in Seq(Nat) /\ queues[Target] # <<>>
         /\ Head(queues[Target]) \in Nat /\ Tail(queues[Target]) \in Seq(Nat)
         /\ Tail(pending) \in Seq(Shards) /\ Distinct(Tail(pending))
         /\ Members(Tail(pending)) = Members(pending) \ {Target} /\ Target \in Members(pending)
<1>1. pending \in Seq(Shards) /\ Distinct(pending) /\ queues \in [Shards -> Seq(Nat)]
      /\ Members(pending) \subseteq Waiting(queues)
  BY DEF LaneIInv, LaneTypeOK, Listed
<1>2. /\ Tail(pending) \in Seq(Shards) /\ Distinct(Tail(pending)) /\ Target \in Shards
      /\ Target \in Members(pending) /\ Members(Tail(pending)) = Members(pending) \ {Target}
  <2>1. Shorter(Shards, pending, Tail(pending))
    BY <1>1, TailMember
  <2> QED BY <2>1, Zenon DEF Shorter, Target
<1>3. queues[Target] # <<>> /\ queues[Target] \in Seq(Nat)
  BY <1>1, <1>2 DEF Waiting
<1>4. ASSUME NEW q \in Seq(Nat), q # <<>> PROVE Head(q) \in Nat /\ Tail(q) \in Seq(Nat)
  BY <1>4
<1> QED BY <1>2, <1>3, <1>4

\* A shard whose queue lost its first command is scheduled again if it has more.
LEMMA RescheduledOnce ==
  ASSUME LaneIInv, pending # <<>>, queues' = [queues EXCEPT ![Target] = Tail(@)],
         pending' = Rescheduled(Target), blocked' = blocked
  PROVE  /\ Listed(pending', blocked', Waiting(queues'))
         /\ pending' \in Seq(Shards) /\ queues' \in [Shards -> Seq(Nat)]
<1> DEFINE t == Target
           rest == Tail(queues[t])
<1>1. /\ t \in Shards /\ queues[t] # <<>> /\ rest \in Seq(Nat)
      /\ Tail(pending) \in Seq(Shards) /\ Distinct(Tail(pending))
      /\ Members(Tail(pending)) = Members(pending) \ {t} /\ t \in Members(pending)
  BY TargetWaits
<1>2. /\ queues \in [Shards -> Seq(Nat)] /\ Distinct(blocked)
      /\ Members(pending) \cap Members(blocked) = {}
      /\ Members(pending) \cup Members(blocked) = Waiting(queues)
  BY DEF LaneIInv, LaneTypeOK, Listed
<1>3. queues' = [queues EXCEPT ![t] = rest]
      /\ pending' = IF rest # <<>> THEN Append(Tail(pending), t) ELSE Tail(pending)
  BY DEF Rescheduled
<1> HIDE DEF t, rest
<1>4. queues' \in [Shards -> Seq(Nat)] /\ queues'[t] = rest
      /\ \A s \in Shards : s # t => queues'[s] = queues[s]
  BY <1>1, <1>2, <1>3, Zenon
<1>5. CASE rest # <<>>
  <2>1. Waiting(queues') = Waiting(queues)
    BY <1>1, <1>4, <1>5, Zenon DEF Waiting
  <2>2. t \notin Members(Tail(pending))
    BY <1>1
  <2>3. /\ pending' \in Seq(Shards) /\ Distinct(pending')
        /\ Members(pending') = Members(Tail(pending)) \cup {t}
    <3>1. Longer(Shards, Tail(pending), t, Append(Tail(pending), t))
      BY <1>1, <2>2, AppendMember, Zenon
    <3> QED BY <1>3, <1>5, <3>1, Zenon DEF Longer
  <2>4. Members(pending') = Members(pending)
    BY <1>1, <2>3
  <2> QED BY <1>2, <1>4, <2>1, <2>3, <2>4, Zenon DEF Listed
<1>6. CASE rest = <<>>
  <2>1. Waiting(queues') = Waiting(queues) \ {t}
    BY <1>1, <1>4, <1>6 DEF Waiting
  <2>2. pending' = Tail(pending)
    BY <1>3, <1>6
  <2>3. /\ Members(pending') \cap Members(blocked) = {}
        /\ Members(pending') \cup Members(blocked) = Waiting(queues')
    BY <1>1, <1>2, <2>1, <2>2, Zenon
  <2> QED BY <1>1, <1>2, <1>4, <2>2, <2>3, Zenon DEF Listed
<1> QED BY <1>5, <1>6

\* A command is handed over.
LEMMA FlushSendStep ==
  ASSUME LaneIInv, FlushSend
  PROVE  LaneIInv'
<1>0. pending # <<>> /\ Target \in Shards
  BY TargetWaits DEF FlushSend, Attempt
<1> PICK t \in Shards : t = Target
  BY <1>0
<1>1. /\ pending # <<>> /\ mailbox' = [mailbox EXCEPT ![t] = Append(@, Head(queues[t]))]
      /\ queues' = [queues EXCEPT ![t] = Tail(@)] /\ pending' = Rescheduled(t)
      /\ UNCHANGED <<pushed, blocked, alive, received>>
  BY DEF FlushSend, Attempt
<1>2. /\ t \in Shards /\ queues[t] \in Seq(Nat) /\ queues[t] # <<>> /\ Head(queues[t]) \in Nat
  BY <1>1, TargetWaits
<1>3. /\ Listed(pending', blocked', Waiting(queues'))
      /\ pending' \in Seq(Shards) /\ queues' \in [Shards -> Seq(Nat)]
  BY <1>1, RescheduledOnce
<1>4. LaneTypeOK /\ mailbox[t] \in Seq(Nat) /\ received[t] \in Seq(Nat)
  BY <1>2 DEF LaneIInv, LaneTypeOK
<1>5. Append(mailbox[t], Head(queues[t])) \in Seq(Nat)
  BY <1>2, <1>4
<1>6. LaneTypeOK'
  BY <1>1, <1>3, <1>4, <1>5, Zenon DEF LaneTypeOK
<1>7. /\ mailbox'[t] = Append(mailbox[t], Head(queues[t])) /\ queues'[t] = Tail(queues[t])
      /\ \A s \in Shards : s # t => queues'[s] = queues[s] /\ mailbox'[s] = mailbox[s]
  BY <1>1, <1>2, <1>4, Zenon DEF LaneTypeOK
<1>8. Stream(t)' = Stream(t)
  <2>1. (received[t] \o Append(mailbox[t], Head(queues[t]))) \o Tail(queues[t])
          = (received[t] \o mailbox[t]) \o queues[t]
    BY <1>2, <1>4, SentNext, ZenonT(60)
  <2>2. received'[t] = received[t]
    BY <1>1, Zenon
  <2> QED BY <1>7, <2>1, <2>2, Zenon DEF Stream
<1>9. CommandsInOrder'
  <2>1. /\ \A s \in Shards : s # t =>
             /\ alive'[s] = alive[s] /\ received'[s] = received[s] /\ mailbox'[s] = mailbox[s]
             /\ queues'[s] = queues[s] /\ pushed'[s] = pushed[s]
        /\ alive'[t] = alive[t] /\ pushed'[t] = pushed[t]
    BY <1>1, <1>7, Zenon
  <2>2. CommandsInOrder
    BY DEF LaneIInv
  <2> QED BY <1>2, <1>8, <2>1, <2>2, OrderKept, Zenon
<1> QED BY <1>3, <1>6, <1>9, Zenon DEF LaneIInv

\* A refused command is put back where it was, and its shard set aside.
LEMMA FlushFullStep ==
  ASSUME LaneIInv, FlushFull
  PROVE  LaneIInv'
<1> DEFINE t == Target
<1>1. /\ pending # <<>> /\ queues' = [queues EXCEPT ![t] = <<Head(queues[t])>> \o Tail(queues[t])]
      /\ pending' = Tail(pending) /\ blocked' = Append(blocked, t)
      /\ UNCHANGED <<pushed, mailbox, alive, received>>
  BY DEF FlushFull, Attempt, Refused
<1>2. /\ t \in Shards /\ queues[t] \in Seq(Nat) /\ queues[t] # <<>>
      /\ Tail(pending) \in Seq(Shards) /\ Distinct(Tail(pending))
      /\ Members(Tail(pending)) = Members(pending) \ {t} /\ t \in Members(pending)
  BY <1>1, TargetWaits
<1> HIDE DEF t
<1>3. ASSUME NEW q \in Seq(Nat), q # <<>> PROVE <<Head(q)>> \o Tail(q) = q
  BY <1>3
<1>4. LaneTypeOK /\ queues' = queues
  <2>1. LaneTypeOK
    BY DEF LaneIInv
  <2>2. queues' = [queues EXCEPT ![t] = queues[t]]
    BY <1>1, <1>2, <1>3, Zenon
  <2> QED BY <2>1, <2>2 DEF LaneTypeOK
<1>5. /\ blocked \in Seq(Shards) /\ Distinct(blocked)
      /\ Members(pending) \cap Members(blocked) = {}
      /\ Members(pending) \cup Members(blocked) = Waiting(queues)
  BY DEF LaneIInv, LaneTypeOK, Listed
<1>6. t \notin Members(blocked)
  BY <1>2, <1>5
<1>7. /\ blocked' \in Seq(Shards) /\ Distinct(blocked')
      /\ Members(blocked') = Members(blocked) \cup {t}
  <2>1. Longer(Shards, blocked, t, Append(blocked, t))
    BY <1>2, <1>5, <1>6, AppendMember, Zenon
  <2> QED BY <1>1, <2>1, Zenon DEF Longer
<1>8. /\ Members(pending') = Members(pending) \ {t}
      /\ Members(pending') \cap Members(blocked') = {}
      /\ Members(pending') \cup Members(blocked') = Waiting(queues')
  BY <1>1, <1>2, <1>4, <1>5, <1>7, ZenonT(60)
<1>9. Listed(pending', blocked', Waiting(queues'))
  BY <1>1, <1>2, <1>7, <1>8, Zenon DEF Listed
<1>10. LaneTypeOK'
  BY <1>1, <1>2, <1>4, <1>7, Zenon DEF LaneTypeOK
<1>11. CommandsInOrder'
  BY <1>1, <1>4, Zenon DEF LaneIInv, CommandsInOrder
<1> QED BY <1>9, <1>10, <1>11, Zenon DEF LaneIInv

\* A command for a shard that ended is dropped.
LEMMA FlushClosedStep ==
  ASSUME LaneIInv, FlushClosed
  PROVE  LaneIInv'
<1> DEFINE t == Target
<1>1. /\ pending # <<>> /\ ~alive[t]
      /\ queues' = [queues EXCEPT ![t] = Tail(@)] /\ pending' = Rescheduled(t)
      /\ UNCHANGED <<pushed, blocked, alive, received, mailbox>>
  BY DEF FlushClosed, Attempt
<1>2. t \in Shards
  BY <1>1, TargetWaits
<1>3. /\ Listed(pending', blocked', Waiting(queues'))
      /\ pending' \in Seq(Shards) /\ queues' \in [Shards -> Seq(Nat)]
  BY <1>1, RescheduledOnce
<1> HIDE DEF t
<1>4. LaneTypeOK'
  BY <1>1, <1>3, Zenon DEF LaneIInv, LaneTypeOK
<1>5. \A s \in Shards : s # t => queues'[s] = queues[s]
  BY <1>1 DEF LaneIInv, LaneTypeOK
<1>6. CommandsInOrder'
  BY <1>1, <1>2, <1>5, OrderKept DEF LaneIInv
<1> QED BY <1>3, <1>4, <1>6 DEF LaneIInv

\* The shards set aside come back at the end of the schedule.
LEMMA FlushEndStep ==
  ASSUME LaneIInv, FlushEnd
  PROVE  LaneIInv'
<1>1. /\ pending' = pending \o blocked /\ blocked' = <<>>
      /\ UNCHANGED <<pushed, queues, mailbox, alive, received>>
  BY DEF FlushEnd, Restored
<1>2. /\ pending \in Seq(Shards) /\ blocked \in Seq(Shards) /\ Distinct(pending) /\ Distinct(blocked)
      /\ Members(pending) \cap Members(blocked) = {}
      /\ Members(pending) \cup Members(blocked) = Waiting(queues)
  BY DEF LaneIInv, LaneTypeOK, Listed
<1>3. /\ pending' \in Seq(Shards) /\ Distinct(pending')
      /\ Members(pending') = Members(pending) \cup Members(blocked)
  <2>1. Joint(Shards, pending, blocked, pending \o blocked)
    BY <1>2, ConcatMember
  <2> QED BY <1>1, <2>1, Zenon DEF Joint
<1>4. Distinct(<<>>) /\ Members(<<>>) = {}
  BY DEF Distinct, Members
<1>5. Listed(pending', blocked', Waiting(queues'))
  BY <1>1, <1>2, <1>3, <1>4 DEF Listed
<1>6. LaneTypeOK'
  BY <1>1, <1>3 DEF LaneIInv, LaneTypeOK
<1>7. CommandsInOrder'
  BY <1>1, Zenon DEF LaneIInv, CommandsInOrder
<1> QED BY <1>5, <1>6, <1>7 DEF LaneIInv

\* A turn takes the first commands of the mailbox.
LEMMA TickStep ==
  ASSUME LaneIInv, NEW t \in Shards, Tick(t)
  PROVE  LaneIInv'
<1>1. /\ LaneTypeOK /\ mailbox[t] \in Seq(Nat) /\ received[t] \in Seq(Nat)
      /\ queues[t] \in Seq(Nat)
  BY DEF LaneIInv, LaneTypeOK
<1>2. CommandBudget \in Nat \ {0}
  BY TurnAssumption
<1>3. ASSUME NEW m \in Seq(Nat) PROVE Len(Taken(m, CommandBudget)) \in 0 .. Len(m)
  <2>1. Least(CommandBudget, Len(m)) \in 0 .. Len(m)
    BY <1>2 DEF Least
  <2>2. \A k \in 0 .. Len(m) : Len(SubSeq(m, 1, k)) = k
    BY SMTT(30)
  <2> QED BY <2>1, <2>2 DEF Taken
<1>4. PICK k \in 0 .. Len(mailbox[t]) : Take(t, k)
  BY <1>1, <1>3 DEF Tick
<1> DEFINE took == SubSeq(mailbox[t], 1, k)
           left == SubSeq(mailbox[t], k + 1, Len(mailbox[t]))
<1>5. /\ received' = [received EXCEPT ![t] = @ \o took] /\ mailbox' = [mailbox EXCEPT ![t] = left]
      /\ UNCHANGED <<pushed, queues, pending, blocked, alive>>
  BY <1>4 DEF Take
<1>6. took \in Seq(Nat) /\ left \in Seq(Nat) /\ (received[t] \o took) \o left = received[t] \o mailbox[t]
  <2>1. ASSUME NEW m \in Seq(Nat), NEW n \in 0 .. Len(m)
        PROVE  SubSeq(m, 1, n) \in Seq(Nat) /\ SubSeq(m, n + 1, Len(m)) \in Seq(Nat)
    OBVIOUS
  <2>2. took \in Seq(Nat) /\ left \in Seq(Nat)
    BY <1>1, <2>1, Zenon
  <2>3. (received[t] \o took) \o left = received[t] \o mailbox[t]
    BY <1>1, TakenNext, Zenon
  <2> QED BY <2>2, <2>3, Zenon
<1> HIDE DEF took, left
<1>7. received[t] \o took \in Seq(Nat)
  BY <1>1, <1>6
<1>8. LaneTypeOK'
  BY <1>1, <1>5, <1>6, <1>7, Zenon DEF LaneTypeOK
<1>9. /\ received'[t] = received[t] \o took /\ mailbox'[t] = left
      /\ \A s \in Shards : s # t => received'[s] = received[s] /\ mailbox'[s] = mailbox[s]
  BY <1>1, <1>5, Zenon DEF LaneTypeOK
<1>10. Stream(t)' = Stream(t)
  BY <1>5, <1>6, <1>9, Zenon DEF Stream
<1>11. CommandsInOrder'
  BY <1>5, <1>9, <1>10, OrderKept, Zenon DEF LaneIInv
<1> QED BY <1>5, <1>8, <1>11 DEF LaneIInv

\* Of a shard that ended nothing is said.
LEMMA StopStep ==
  ASSUME LaneIInv, NEW t \in Shards, Stop(t)
  PROVE  LaneIInv'
<1>1. /\ LaneTypeOK /\ alive' = [alive EXCEPT ![t] = FALSE]
      /\ mailbox' = [mailbox EXCEPT ![t] = <<>>]
      /\ UNCHANGED <<pushed, queues, pending, blocked, received>>
  BY DEF LaneIInv, Stop, Close
<1>2. LaneTypeOK'
  BY <1>1 DEF LaneTypeOK
<1>3. ~alive'[t] /\ \A s \in Shards : s # t => alive'[s] = alive[s] /\ mailbox'[s] = mailbox[s]
  BY <1>1 DEF LaneTypeOK
<1>4. CommandsInOrder'
  BY <1>1, <1>3, OrderKept, Zenon DEF LaneIInv
<1> QED BY <1>1, <1>2, <1>4, Zenon DEF LaneIInv

\* Every step keeps the invariant.
LEMMA LaneStep == LaneIInv /\ [Next]_vars => LaneIInv'
<1> SUFFICES ASSUME LaneIInv, [Next]_vars PROVE LaneIInv'
  OBVIOUS
<1>1. CASE UNCHANGED <<pushed, queues, pending, blocked, mailbox, alive, received>>
  BY <1>1, ZenonT(30) DEF LaneIInv, LaneTypeOK, CommandsInOrder
<1>2. CASE Flush
  BY <1>1, <1>2, FlushSendStep, FlushFullStep, FlushClosedStep, FlushEndStep, Zenon DEF Flush, FlushBegin
<1>3. ASSUME NEW s \in Shards, PushBack(s) \/ Tick(s) \/ Stop(s) PROVE LaneIInv'
  BY <1>3, PushBackStep, TickStep, StopStep, Zenon
<1>4. ASSUME NEW s \in Shards, StatsDue(s) PROVE LaneIInv'
  BY <1>1, <1>4, Zenon DEF StatsDue, lanes
<1>5. CASE HandleEvent
  BY <1>1, <1>5 DEF HandleEvent, lanes
<1>6. CASE UNCHANGED vars
  BY <1>1, <1>6 DEF vars, lanes
<1> QED BY <1>2, <1>3, <1>4, <1>5, <1>6, Zenon DEF Next, Lanes

\* The two lists make up the schedule.
LEMMA ScheduleFollows == LaneIInv => EachScheduledOnce
<1> SUFFICES ASSUME LaneIInv PROVE EachScheduledOnce
  OBVIOUS
<1> DEFINE all == pending \o blocked
<1>1. all \in Seq(Shards) /\ Distinct(all) /\ Members(all) = Waiting(queues)
  <2>1. /\ pending \in Seq(Shards) /\ blocked \in Seq(Shards)
        /\ Distinct(pending) /\ Distinct(blocked)
        /\ Members(pending) \cap Members(blocked) = {}
        /\ Members(pending) \cup Members(blocked) = Waiting(queues)
    BY DEF LaneIInv, LaneTypeOK, Listed
  <2>2. Joint(Shards, pending, blocked, all)
    BY <2>1, ConcatMember
  <2> QED BY <2>1, <2>2, Zenon DEF Joint
<1> HIDE DEF all
<1>2. DOMAIN all = 1 .. Len(all)
  BY <1>1
<1>3. IsInjective(all)
  BY <1>1, <1>2, Zenon DEF IsInjective, Distinct
<1>4. Range(all) = Waiting(queues)
  BY <1>1, <1>2 DEF Range, Members
<1> QED BY <1>3, <1>4 DEF EachScheduledOnce, Waiting, all

\* The shards with commands are exactly those scheduled or set aside, each once
\* (CommandBacklog::push_back and ::flush): flush never finds an empty queue, and
\* forgets no shard, whichever of them are full, stop or stall.
THEOREM AlwaysScheduledOnce == Spec => []EachScheduledOnce
BY LaneInit, LaneStep, ScheduleFollows, PTL DEF Spec

\* A running shard takes the commands pushed to it in order, none lost and none twice.
THEOREM CommandsAlwaysInOrder == Spec => []CommandsInOrder
<1>1. LaneIInv => CommandsInOrder
  BY DEF LaneIInv
<1> QED BY <1>1, LaneInit, LaneStep, PTL DEF Spec
=============================================================================
