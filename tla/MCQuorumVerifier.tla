------------------------- MODULE MCQuorumVerifier -------------------------
(* Two step committees of total weight 4: four single members for         *)
(* Validation, and members of 2, 1 and 1 occurrences for Ratification, so  *)
(* that bit 4 of a Ratification bitset selects nobody.                     *)
EXTENDS QuorumVerifier, TLC

CONSTANTS vValid, vInvalid, vNoQuorum

MCCommittee == [s \in StepNames |->
                  IF s = "Validation" THEN <<1, 1, 1, 1>> ELSE <<2, 1, 1>>]

MCVotes == {vValid, vInvalid, vNoQuorum}

=============================================================================
