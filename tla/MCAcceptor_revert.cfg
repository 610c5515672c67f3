CONSTANTS
  f1 = f1
  f2 = f2
  Forks <- MCForks
  MaxHeight = 3
  Threshold = 2
  NoBlock = NoBlock
SYMMETRY MCSymmetry
SPECIFICATION Spec
INVARIANT RevertConverges
\* A restart whose revert fails leaves the node down for good.
CHECK_DEADLOCK FALSE
