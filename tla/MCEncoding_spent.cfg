CONSTANTS
  NoErr = NoErr
  Inputs <- MCSpentInputs
  Trailer <- MCTrailer
SPECIFICATION Spec
INVARIANT ReadConsumesWrite
\* Each value is written once and read once: the run stops there.
CHECK_DEADLOCK FALSE
