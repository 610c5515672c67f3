------------------------- MODULE QuorumVerifierProofs -------------------------
(***************************************************************************)
(* Proofs about verify_quorum (verifiers.rs): a Valid attestation it       *)
(* accepts carries a super-majority of each step's committee, signed by    *)
(* those voters, and an honest attestation is accepted, for every pair of  *)
(* step committees, bit width and set of votes.                            *)
(***************************************************************************)
EXTENDS QuorumVerifier, WeightSums

-----------------------------------------------------------------------------
(* Lemmas on the committee operations and on verify_votes.                 *)

(* A committee's size is a natural, so the super-majority is at least 1,  *)
(* and the occurrences of nobody add up to 0.                              *)
LEMMA CommitteeFacts ==
  ASSUME NEW step \in StepNames
  PROVE  /\ SuperMajorityQuorum(step) \in Nat \ {0}
         /\ TotalOccurrences(step, {}) = 0
<1>1. Committee[step] \in Seq(Nat \ {0})
  BY QuorumVerifierAssumption
<1>2. Positions(step) = 1..Len(Committee[step]) /\ IsFiniteSet(Positions(step))
  BY <1>1, FS_Interval DEF Positions
<1>3. \A i \in Positions(step) : Committee[step][i] \in Nat
  BY <1>1, <1>2
<1>4. CommitteeSize(step) \in Nat
  <2>1. Sum(Committee[step], Positions(step)) \in Nat
    BY <1>2, <1>3, SumNat
  <2> QED
    BY <2>1 DEF CommitteeSize, TotalOccurrences, Sum
<1>5. TotalOccurrences(step, {}) = 0
  <2>1. Sum(Committee[step], {}) = 0
    BY SumEmpty
  <2> QED
    BY <2>1 DEF TotalOccurrences, Sum
<1> QED
  BY <1>4, <1>5 DEF SuperMajorityQuorum

(* What verify_votes returns: Ok or one of its errors.                    *)
LEMMA VerifyVotesType ==
  ASSUME NEW step, NEW vote, NEW sv
  PROVE  VerifyVotes(step, vote, sv) \in {"Ok"} \cup Errors
BY DEF VerifyVotes, SignatureResult, Errors

(* verify_votes accepts a Valid vote only with a super-majority of the    *)
(* step's committee behind it and their aggregate signature.               *)
LEMMA ValidVotesBacked ==
  ASSUME NEW step \in StepNames, NEW sv \in StepVotesSet,
         VerifyVotes(step, Valid, sv) = "Ok"
  PROVE  Backing(step, sv) >= SuperMajorityQuorum(step) /\ Signed(step, sv)
<1> DEFINE sub == Intersect(step, sv.bits)
<1>1. ~(step = "Validation" /\ Valid = NoQuorum)
  BY QuorumVerifierAssumption
<1>2. QuorumReached(TotalOccurrences(step, sub), SuperMajorityQuorum(step))
  BY <1>1 DEF VerifyVotes, TargetQuorum
<1>3. Backing(step, sv) >= SuperMajorityQuorum(step)
  BY <1>2 DEF QuorumReached, Backing
<1>4. sv.bits # {}
  <2> SUFFICES ASSUME sv.bits = {} PROVE FALSE
    OBVIOUS
  <2>1. sub = {}
    BY DEF Intersect
  <2>2. TotalOccurrences(step, sub) = 0 /\ SuperMajorityQuorum(step) \in Nat \ {0}
    BY <2>1, CommitteeFacts
  <2> QED
    BY <1>2, <2>2 DEF QuorumReached
<1>5. SignatureResult(sub, sv) = "Ok"
  BY <1>1, <1>4 DEF VerifyVotes
<1>6. Signed(step, sv)
  BY <1>5 DEF SignatureResult, Signed
<1> QED
  BY <1>3, <1>6

(* verify_votes accepts votes that reach the threshold the spec sets and  *)
(* carry their voters' signature, whatever the vote.                       *)
LEMMA HonestVotesAccepted ==
  ASSUME NEW step \in StepNames, NEW vote, NEW sv \in StepVotesSet,
         Backing(step, sv) >= SpecQuorum(step, vote), Signed(step, sv)
  PROVE  VerifyVotes(step, vote, sv) = "Ok"
<1>1. QuorumReached(TotalOccurrences(step, Intersect(step, sv.bits)),
                    TargetQuorum(step, vote))
  BY DEF Backing, SpecQuorum, TargetQuorum, QuorumReached
<1>2. sv.bits # {} /\ SignatureResult(Intersect(step, sv.bits), sv) = "Ok"
  BY DEF Signed, Intersect, SignatureResult
<1> QED
  BY <1>1, <1>2 DEF VerifyVotes

-----------------------------------------------------------------------------
(* The inductive invariant: verify_quorum has accepted the Validation      *)
(* votes when it is at the Ratification step, and it returned Ok exactly  *)
(* when both steps' votes were accepted.                                   *)

VV(step) ==
  VerifyVotes(step, msg.vote,
              IF step = "Validation" THEN msg.validation ELSE msg.ratification)

IInv ==
  /\ msg \in QuorumMsgs
  /\ pc \in {"validation", "ratification", "done"}
  /\ pc = "validation" => result = "pending"
  /\ pc = "ratification" => result = "pending" /\ VV("Validation") = "Ok"
  /\ pc = "done" => (result = "Ok" <=> VV("Validation") = "Ok" /\ VV("Ratification") = "Ok")

LEMMA InitIInv == Init => IInv
BY DEF Init, IInv

LEMMA NextIInv == IInv /\ [Next]_vars => IInv'
<1> SUFFICES ASSUME IInv, [Next]_vars PROVE IInv'
  OBVIOUS
<1>0. /\ VV("Validation") \in {"Ok"} \cup Errors
      /\ VV("Ratification") \in {"Ok"} \cup Errors
      /\ "Ok" \notin Errors /\ "pending" \notin Errors
  BY VerifyVotesType DEF VV, Errors
<1>1. CASE VerifyValidation
  <2>1. VV("Validation") = VerifyVotes("Validation", msg.vote, msg.validation)
    BY DEF VV
  <2>2. msg' = msg /\ VV("Validation")' = VV("Validation")
        /\ VV("Ratification")' = VV("Ratification")
    BY <1>1 DEF VerifyValidation, VerifyStepVotes, VV
  <2>3. pc = "validation" /\ result = "pending"
    BY <1>1 DEF VerifyValidation, IInv
  <2>4. CASE VV("Validation") = "Ok"
    <3>1. pc' = "ratification" /\ result' = "pending"
      BY <1>1, <2>1, <2>3, <2>4 DEF VerifyValidation, VerifyStepVotes
    <3> QED
      BY <2>2, <2>4, <3>1 DEF IInv
  <2>5. CASE VV("Validation") # "Ok"
    <3>1. pc' = "done" /\ result' = VV("Validation")
      BY <1>1, <2>1, <2>5 DEF VerifyValidation, VerifyStepVotes
    <3> QED
      BY <1>0, <2>2, <2>5, <3>1 DEF IInv
  <2> QED
    BY <2>4, <2>5
<1>2. CASE VerifyRatification
  <2>1. VV("Ratification") = VerifyVotes("Ratification", msg.vote, msg.ratification)
    BY DEF VV
  <2>2. msg' = msg /\ VV("Validation")' = VV("Validation")
        /\ VV("Ratification")' = VV("Ratification")
    BY <1>2 DEF VerifyRatification, VerifyStepVotes, VV
  <2> QED
    BY <1>0, <1>2, <2>1, <2>2 DEF VerifyRatification, VerifyStepVotes, IInv
<1>3. CASE UNCHANGED vars
  BY <1>3 DEF vars, IInv, VV
<1> QED
  BY <1>1, <1>2, <1>3 DEF Next

LEMMA IInvHolds == Spec => []IInv
BY InitIInv, NextIInv, PTL DEF Spec

-----------------------------------------------------------------------------
(* Quorum soundness (spec 8), for every committee: a Quorum message for a  *)
(* Valid vote that verify_quorum accepts carries, in both steps, votes of *)
(* at least the super-majority signed by exactly those voters.            *)
THEOREM QuorumSoundnessInvariant == Spec => []QuorumSoundness
<1>1. IInv => QuorumSoundness
  <2> SUFFICES ASSUME IInv, result = "Ok", msg.vote = Valid,
                      NEW step \in StepNames
               PROVE  LET sv == IF step = "Validation" THEN msg.validation
                                                       ELSE msg.ratification
                      IN  Backing(step, sv) >= SuperMajorityQuorum(step)
                          /\ Signed(step, sv)
    BY DEF QuorumSoundness
  <2>1. pc = "done" /\ VV("Validation") = "Ok" /\ VV("Ratification") = "Ok"
    BY DEF IInv
  <2>2. VV(step) = "Ok"
    BY <2>1 DEF StepNames
  <2>3. (IF step = "Validation" THEN msg.validation ELSE msg.ratification)
          \in StepVotesSet
    BY DEF IInv, QuorumMsgs
  <2> QED
    BY <2>2, <2>3, ValidVotesBacked DEF VV
<1> QED
  BY <1>1, IInvHolds, PTL

(* An honest attestation is accepted, for every committee: when each step *)
(* carries votes of the threshold spec 4.2 sets for the vote, signed by   *)
(* those voters, verify_quorum ends with Ok.                               *)
THEOREM HonestQuorumAcceptedInvariant == Spec => []HonestQuorumAccepted
<1>1. IInv => HonestQuorumAccepted
  <2> SUFFICES ASSUME IInv, pc = "done",
                      \A step \in StepNames :
                        LET sv == IF step = "Validation" THEN msg.validation
                                                         ELSE msg.ratification
                        IN  Backing(step, sv) >= SpecQuorum(step, msg.vote)
                            /\ Signed(step, sv)
               PROVE  result = "Ok"
    BY DEF HonestQuorumAccepted
  <2>1. msg.validation \in StepVotesSet /\ msg.ratification \in StepVotesSet
    BY DEF IInv, QuorumMsgs
  <2>2. VV("Validation") = "Ok"
    BY <2>1, HonestVotesAccepted DEF VV, StepNames
  <2>3. VV("Ratification") = "Ok"
    BY <2>1, HonestVotesAccepted DEF VV, StepNames
  <2> QED
    BY <2>2, <2>3 DEF IInv
<1> QED
  BY <1>1, IInvHolds, PTL

=============================================================================
