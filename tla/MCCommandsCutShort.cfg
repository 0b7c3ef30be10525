\* One build or install without a second program: one cancellation after a timeout.
CONSTANTS
  Builds = {b1}
  Installs = {i1}
  Slots = 1
  Mixed = FALSE
  MaxForks = 1
  MaxCancels = 2
  MaxCrashes = 0
SPECIFICATION Spec
INVARIANT StoppedIsKilled
CHECK_DEADLOCK FALSE
