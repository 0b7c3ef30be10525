\* Who waits behind a deletion, who waits behind that, and the script. Bounds: the
\* script runs twice, one request is cancelled, one process dies.
CONSTANTS
  Requests = {r1, r2, r3}
  Script = script
  Nobody = Nobody
  MaxRuns = 2
  MaxCancels = 1
  MaxDeaths = 1
SPECIFICATION FairSpec
INVARIANTS Consistent OneAtATime NothingHalfDone
PROPERTY EveryTransactionEnds
CHECK_DEADLOCK FALSE
