SPECIFICATION FairSpec
CONSTANTS
  Requests = {r1}
  Scripts = {"check", "cleanup"}
  Nobody = Nobody
  MaxPulls = 1
INVARIANTS Consistent NoOrphanTree
PROPERTIES DeletionDateKept ClosedIsArchived DueIsDeleted
CHECK_DEADLOCK FALSE
