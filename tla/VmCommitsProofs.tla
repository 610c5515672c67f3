--------------------------- MODULE VmCommitsProofs ---------------------------
(***************************************************************************)
(* What the abstract specification of the VM's commits guarantees: the    *)
(* finalized commit is always an ancestor of the current one, and finality *)
(* only moves forward along one chain, for every set of forks and height.  *)
(* The Acceptor inherits both through its refinement (AcceptorProofs).    *)
(***************************************************************************)
EXTENDS VmCommits, TLAPS

TypeOK == head \in Seq(Forks) /\ final \in Seq(Forks)

(* IsAncestor on sequences: reflexive, and kept when the descendant grows. *)
LEMMA AncestorSelf ==
  ASSUME NEW a \in Seq(Forks)
  PROVE  IsAncestor(a, a)
BY DEF IsAncestor

LEMMA AncestorAppend ==
  ASSUME NEW a \in Seq(Forks), NEW b \in Seq(Forks), NEW f \in Forks,
         IsAncestor(a, b)
  PROVE  IsAncestor(a, Append(b, f))
<1>1. Len(a) <= Len(b) /\ SubSeq(b, 1, Len(a)) = a
  BY DEF IsAncestor
<1>2. Len(Append(b, f)) = Len(b) + 1
  OBVIOUS
<1>3. SubSeq(Append(b, f), 1, Len(a)) = SubSeq(b, 1, Len(a))
  BY <1>1
<1> QED
  BY <1>1, <1>2, <1>3 DEF IsAncestor

(* The inductive invariant: the type, and the invariant itself.            *)
IInv == TypeOK /\ FinalBelowHead

LEMMA InitIInv == Init => IInv
<1> SUFFICES ASSUME Init PROVE IInv
  OBVIOUS
<1>1. final \in Seq(Forks)
  <2>1. PICK n \in 0..MaxHeight : final \in [1..n -> Forks]
    BY DEF Init, Blocks
  <2> QED
    BY <2>1
<1> QED
  BY <1>1, AncestorSelf DEF Init, IInv, TypeOK, FinalBelowHead

LEMMA NextIInv == IInv /\ [Next]_<<head, final>> => IInv'
<1> SUFFICES ASSUME IInv, [Next]_<<head, final>> PROVE IInv'
  OBVIOUS
<1>1. ASSUME NEW f \in Forks, Commit(f) PROVE IInv'
  <2>1. head \in Seq(Forks) /\ final \in Seq(Forks) /\ IsAncestor(final, head)
    BY DEF IInv, TypeOK, FinalBelowHead
  <2>2. IsAncestor(final, Append(head, f))
    BY <2>1, AncestorAppend
  <2>3. head' = Append(head, f) /\ final' = final
    BY <1>1 DEF Commit
  <2> QED
    BY <2>1, <2>2, <2>3 DEF IInv, TypeOK, FinalBelowHead
<1>2. ASSUME NEW f \in Forks, CommitFinal(f) PROVE IInv'
  <2>1. head' = Append(head, f) /\ final' = head' /\ head' \in Seq(Forks)
    BY <1>2 DEF CommitFinal, IInv, TypeOK
  <2>2. IsAncestor(head', head')
    BY <2>1, AncestorSelf
  <2> QED
    BY <2>1, <2>2 DEF IInv, TypeOK, FinalBelowHead
<1>3. CASE RevertToFinal
  BY <1>3, AncestorSelf DEF RevertToFinal, IInv, TypeOK, FinalBelowHead
<1>4. CASE UNCHANGED <<head, final>>
  BY <1>4 DEF IInv, TypeOK, FinalBelowHead
<1> QED
  BY <1>1, <1>2, <1>3, <1>4 DEF Next

LEMMA IInvHolds == Spec => []IInv
BY InitIInv, NextIInv, PTL DEF Spec

(* The VM's finalized commit is always an ancestor of its current commit: *)
(* a revert to the finalized state never goes to another branch.          *)
THEOREM FinalBelowHeadInvariant == Spec => []FinalBelowHead
BY IInvHolds, PTL DEF IInv

(* Finality only moves forward along one chain: every finalized commit    *)
(* descends from the one finalized before it.                             *)
THEOREM FinalityMonotoneHolds == Spec => FinalityMonotone
<1>1. IInv /\ [Next]_<<head, final>> => [IsAncestor(final, final')]_<<head, final>>
  <2> SUFFICES ASSUME IInv, [Next]_<<head, final>>
               PROVE  [IsAncestor(final, final')]_<<head, final>>
    OBVIOUS
  <2>1. ASSUME NEW f \in Forks, Commit(f) PROVE IsAncestor(final, final')
    BY <2>1, AncestorSelf DEF Commit, IInv, TypeOK
  <2>2. ASSUME NEW f \in Forks, CommitFinal(f) PROVE IsAncestor(final, final')
    <3>1. head \in Seq(Forks) /\ final \in Seq(Forks) /\ IsAncestor(final, head)
      BY DEF IInv, TypeOK, FinalBelowHead
    <3>2. IsAncestor(final, Append(head, f))
      BY <3>1, AncestorAppend
    <3>3. final' = Append(head, f)
      BY <2>2 DEF CommitFinal
    <3> QED
      BY <3>2, <3>3
  <2>3. CASE RevertToFinal
    BY <2>3, AncestorSelf DEF RevertToFinal, IInv, TypeOK
  <2>4. CASE UNCHANGED <<head, final>>
    BY <2>4
  <2> QED
    BY <2>1, <2>2, <2>3, <2>4 DEF Next
<1> QED
  BY <1>1, IInvHolds, PTL DEF FinalityMonotone, Spec

=============================================================================
