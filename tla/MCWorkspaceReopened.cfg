SPECIFICATION FairSpec
CONSTANTS
  Requests = {r1}
  Scripts = {"check"}
  Nobody = Nobody
  MaxPulls = 1
PROPERTY ReopenedIsReactivated
CHECK_DEADLOCK FALSE
