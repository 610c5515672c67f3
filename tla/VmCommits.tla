----------------------------- MODULE VmCommits -----------------------------
(***************************************************************************)
(* What the Acceptor promises about the VM's state: the abstract           *)
(* specification that module Acceptor is shown to implement.               *)
(*                                                                         *)
(* The VM has a current commit (head) and a finalized one (final). A block *)
(* is named by its path of fork choices from genesis, so a commit on top   *)
(* of head is head with one more choice appended.  The node only ever:    *)
(*   - commits a child of the current commit (vm.accept), and possibly     *)
(*     finalizes that child at once (finalize_state);                      *)
(*   - drops every commit above the finalized one (revert_to_finalized,    *)
(*     or a process restart that reopens the last finalized commit).       *)
(* Hence the finalized commit is always an ancestor of the current one,    *)
(* and finality only moves forward along one chain.                        *)
(***************************************************************************)
EXTENDS Naturals, Sequences

CONSTANTS
  Forks,      \* the different blocks that can be proposed on the same parent
  MaxHeight   \* bound on the height of the chain explored

Blocks == UNION {[1..n -> Forks] : n \in 0..MaxHeight}

(* a is b or an ancestor of b                                              *)
IsAncestor(a, b) == Len(a) <= Len(b) /\ SubSeq(b, 1, Len(a)) = a

VARIABLES
  head,    \* the VM's current commit
  final    \* the VM's last finalized commit

Init == head = final /\ final \in Blocks

(* A new commit on top of the current one, not finalized.                  *)
Commit(f) ==
  /\ Len(head) < MaxHeight
  /\ head' = Append(head, f)
  /\ UNCHANGED final

(* A new commit on top of the current one, finalized at once.              *)
CommitFinal(f) ==
  /\ Len(head) < MaxHeight
  /\ head' = Append(head, f)
  /\ final' = head'

(* Every commit above the finalized one is dropped.                        *)
RevertToFinal ==
  /\ head' = final
  /\ UNCHANGED final

Next == (\E f \in Forks : Commit(f) \/ CommitFinal(f)) \/ RevertToFinal

Spec == Init /\ [][Next]_<<head, final>>

-----------------------------------------------------------------------------
(* The finalized commit is an ancestor of the current one.                *)
FinalBelowHead == IsAncestor(final, head)

(* Finality only moves forward: every finalized commit descends from the  *)
(* one finalized before it.                                                *)
FinalityMonotone == [][IsAncestor(final, final')]_<<head, final>>

=============================================================================
