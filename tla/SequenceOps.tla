---------------------------- MODULE SequenceOps ----------------------------
(***************************************************************************)
(* The few operators on sequences that RoomRouting, TimerWheel and         *)
(* AddressCache need, with the meaning they have in SequencesExt.  That    *)
(* module also brings in Bags, and the definitions a proof has in scope    *)
(* set the price of each of its leaves: without Bags a leaf of             *)
(* RoomRouting_proofs costs a third.                                       *)
(***************************************************************************)
EXTENDS Naturals, Sequences, FiniteSets, FiniteSetsExt

\* The elements of the finite set S, each once, in some order.
SetToSeq(S) == CHOOSE q \in [1 .. Cardinality(S) -> S] : IsInjective(q)

\* op applied to the elements of q from the first to the last.
FoldLeft(op(_, _), start, q) ==
  MapThenFoldSet(LAMBDA e, acc : op(acc, e), start, LAMBDA i : q[i], Max, DOMAIN q)

Last(q) == q[Len(q)]

\* The index of the first element that passes Test, 0 when none does.
SelectInSeq(q, Test(_)) ==
  LET found == {i \in 1 .. Len(q) : Test(q[i])}
  IN IF found # {} THEN Min(found) ELSE 0

RemoveAt(q, i) == SubSeq(q, 1, i - 1) \o SubSeq(q, i + 1, Len(q))

\* q without the first occurrence of x.
RemoveFirst(q, x) ==
  IF \E i \in 1 .. Len(q) : q[i] = x
  THEN RemoveAt(q, SelectInSeq(q, LAMBDA e : e = x))
  ELSE q
=============================================================================
