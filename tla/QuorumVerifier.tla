--------------------------- MODULE QuorumVerifier ---------------------------
(***************************************************************************)
(* The quorum verifier of the consensus crate                              *)
(* (src/consensus/src/quorum/verifiers.rs): verify_quorum checks the       *)
(* Validation and then the Ratification StepVotes of a Quorum message      *)
(* against the committee of each step, created on demand in the            *)
(* CommitteeSet cache.                                                     *)
(*                                                                         *)
(* The committee of a step is a sequence of (member, occurrences): bit i  *)
(* of a bitset selects its i-th member.  The committee, the cache and the  *)
(* quorum thresholds are not under src/ and follow the spec (sections 4.2, *)
(* 4.5).  BLS is abstracted: an aggregate signature is "good" when it was  *)
(* made by exactly the selected members over this header, step and vote,  *)
(* and apk.verify accepts exactly the good ones.                           *)
(***************************************************************************)
EXTENDS Naturals, Sequences, FiniteSets, FiniteSetsExt

CONSTANTS
  Committee,   \* StepName -> sequence of occurrence counts of its members
  BitWidth,    \* number of bits of a bitset the inputs use (64 in the code)
  Votes,       \* Vote values
  Valid,       \* Vote::Valid(block_hash)
  NoQuorum     \* Vote::NoQuorum

StepNames == {"Validation", "Ratification"}

ASSUME QuorumVerifierAssumption ==
  /\ Committee \in [StepNames -> Seq(Nat \ {0})]
  /\ BitWidth \in Nat
  /\ {Valid, NoQuorum} \subseteq Votes /\ Valid # NoQuorum

Bits == 1..BitWidth

(* StepVotes { bitset, aggregate_signature }                               *)
StepVotesSet == [bits : SUBSET Bits, sig : {"good", "bad"}]

(* A Quorum message: its vote and the two StepVotes of its attestation.   *)
QuorumMsgs == [vote : Votes, validation : StepVotesSet,
               ratification : StepVotesSet]

Errors == {"VoteSetTooSmall", "EmptyApk", "InvalidSignature"}

-----------------------------------------------------------------------------
(* Committee operations (spec 4.2).                                        *)

Positions(step) == DOMAIN Committee[step]

(* committee.intersect(bitset): the members whose bit is set.             *)
Intersect(step, bits) == bits \cap Positions(step)

(* committee.total_occurrences(sub_committee)                              *)
TotalOccurrences(step, sub) ==
  MapThenSumSet(LAMBDA i : Committee[step][i], sub)

CommitteeSize(step) == TotalOccurrences(step, Positions(step))

(* super-majority = ceil(2 * size / 3) + 1                                  *)
SuperMajorityQuorum(step) == (2 * CommitteeSize(step) + 2) \div 3 + 1

MajorityQuorum(step) == CommitteeSize(step) \div 2 + 1

-----------------------------------------------------------------------------
(* Mutant: the quorum test is strict.                                     *)
QuorumReachedStrict(total, target) == total > target

(* QuorumResult::quorum_reached                                           *)
QuorumReached(total, target) == total >= target

(* Mutant: Valid votes are held to the simple majority.                   *)
TargetQuorumMajority(step, vote) == MajorityQuorum(step)

(* The threshold of verify_votes: super-majority for Valid, else majority. *)
TargetQuorum(step, vote) ==
  IF vote = Valid THEN SuperMajorityQuorum(step) ELSE MajorityQuorum(step)

(* aggregate_pks then verify_step_signature: an empty sub-committee gives *)
(* EmptyApk, otherwise the aggregate signature must verify.               *)
SignatureResult(sub, sv) ==
  IF sub = {} THEN "EmptyApk"
  ELSE IF sv.sig = "good" THEN "Ok" ELSE "InvalidSignature"

(* verify_votes: the quorum test, skipped for a NoQuorum vote in the      *)
(* Validation step, then the signature check when the bitset is not 0.    *)
VerifyVotes(step, vote, sv) ==
  LET sub  == Intersect(step, sv.bits)
      skip == step = "Validation" /\ vote = NoQuorum
  IN IF ~skip /\ ~QuorumReached(TotalOccurrences(step, sub),
                                TargetQuorum(step, vote))
       THEN "VoteSetTooSmall"
     ELSE IF sv.bits # {} THEN SignatureResult(sub, sv)
     ELSE "Ok"

-----------------------------------------------------------------------------
VARIABLES
  msg,         \* the Quorum message being verified
  pc,          \* where verify_quorum is
  committees,  \* the step committees in the CommitteeSet cache
  result       \* what verify_quorum returned

vars == <<msg, pc, committees, result>>

Init ==
  /\ msg \in QuorumMsgs
  /\ pc = "validation"
  /\ committees = {}
  /\ result = "pending"

(* verify_step_votes of one step: get_or_create the committee when the    *)
(* cache misses, then verify_votes; an error returns from verify_quorum    *)
(* through `?`.                                                            *)
VerifyStepVotes(step, sv, nextPc) ==
  LET r == VerifyVotes(step, msg.vote, sv)
  IN /\ committees' = committees \cup {step}
     /\ IF r = "Ok"
          THEN pc' = nextPc /\ result' = IF nextPc = "done" THEN "Ok" ELSE result
          ELSE pc' = "done" /\ result' = r
     /\ UNCHANGED msg

VerifyValidation ==
  /\ pc = "validation"
  /\ VerifyStepVotes("Validation", msg.validation, "ratification")

VerifyRatification ==
  /\ pc = "ratification"
  /\ VerifyStepVotes("Ratification", msg.ratification, "done")

Next == VerifyValidation \/ VerifyRatification

Spec == Init /\ [][Next]_vars

-----------------------------------------------------------------------------
(* The weight and the signature a step's votes really carry.               *)
Backing(step, sv) == TotalOccurrences(step, Intersect(step, sv.bits))

Signed(step, sv) == Intersect(step, sv.bits) # {} /\ sv.sig = "good"

(* The threshold spec 4.2 sets for a vote.                                 *)
SpecQuorum(step, vote) ==
  IF vote = Valid THEN SuperMajorityQuorum(step) ELSE MajorityQuorum(step)

(* Quorum soundness (spec 8): a Quorum message for a Valid vote accepted  *)
(* by verify_quorum carries, in both steps, committee votes of at least   *)
(* the super-majority, signed by exactly those voters.                     *)
QuorumSoundness ==
  (result = "Ok" /\ msg.vote = Valid) =>
    \A step \in StepNames :
      LET sv == IF step = "Validation" THEN msg.validation ELSE msg.ratification
      IN Backing(step, sv) >= SuperMajorityQuorum(step) /\ Signed(step, sv)

(* An honest attestation is accepted: when each step carries the votes of *)
(* the threshold the spec sets for the vote, signed by those voters,       *)
(* verify_quorum returns Ok.                                               *)
HonestQuorumAccepted ==
  (pc = "done" /\ \A step \in StepNames :
     LET sv == IF step = "Validation" THEN msg.validation ELSE msg.ratification
     IN Backing(step, sv) >= SpecQuorum(step, msg.vote) /\ Signed(step, sv))
  => result = "Ok"

=============================================================================
