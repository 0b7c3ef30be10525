\* Two builds that share one slot, or an install. Bounds: a program starts one
\* more process, one caller is cancelled, twice, and the server dies once.
CONSTANTS
  Builds = {b1, b2}
  Installs = {i1}
  Slots = 1
  Mixed = FALSE
  MaxForks = 1
  MaxCancels = 2
  MaxCrashes = 1
SPECIFICATION FairSpec
INVARIANT Consistent NothingLeftRunning GroupIsKilled
PROPERTIES SuccessWasChecked EveryCallEnds
CHECK_DEADLOCK FALSE
