\* One build in the sandbox, without cancellations.
CONSTANTS
  Builds = {b1}
  Installs = {i1}
  Slots = 1
  Mixed = FALSE
  MaxForks = 0
  MaxCancels = 0
  MaxCrashes = 0
SPECIFICATION Spec
PROPERTY LargeIsNoSuccess
CHECK_DEADLOCK FALSE
