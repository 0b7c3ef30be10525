SPECIFICATION Spec
CONSTANTS
  Requests = {r1}
  Scripts = {"cleanup"}
  Nobody = Nobody
  MaxPulls = 1
PROPERTY CleanupDeletesOnlyDue
CHECK_DEADLOCK FALSE
