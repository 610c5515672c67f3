CONSTANTS
  vValid = vValid
  vInvalid = vInvalid
  vNoQuorum = vNoQuorum
  Committee <- MCCommittee
  BitWidth = 4
  Votes <- MCVotes
  Valid = vValid
  NoQuorum = vNoQuorum
SPECIFICATION Spec
INVARIANTS
  QuorumSoundness
  HonestQuorumAccepted
\* verify_quorum returns once it has checked both steps or met an error.
CHECK_DEADLOCK FALSE
