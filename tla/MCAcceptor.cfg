CONSTANTS
  f1 = f1
  f2 = f2
  Forks <- MCForks
  MaxHeight = 3
  Threshold = 2
  NoBlock = NoBlock
SYMMETRY MCSymmetry
SPECIFICATION Spec
INVARIANTS
  TypeOK
  LedgerChain
  FinalizedBlockKept
\* A restart whose revert fails leaves the node down for good (init_consensus
\* returns Err): the system really stops there.
CHECK_DEADLOCK FALSE
