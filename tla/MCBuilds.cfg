SPECIFICATION FairSpec
CONSTANTS
  Names = {t1, t2}
  MaxInstalls = 2
  Requests = {r1, r2}
  Users = {u1, u2}
  FirstUser = u1
  Workspaces = {w}
  Owner <- SameOwner
  Slots = 1
  Invalid = Invalid
INVARIANTS Consistent BuildsWithWholeToolchain PreviewsUndisturbed
PROPERTY EveryRequestEnds
