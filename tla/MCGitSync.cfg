SPECIFICATION Spec
CONSTANTS
  Files = {f, g}
  MaxVersion = 2
  MaxCommits = 3
  MaxOutside = 2
  MaxChanges = 4
SYMMETRY Symmetry
INVARIANTS
  Consistent
  UnsentWorkIsKept
  CommittedIsOnGitHub
  RefusedIsUndone
  NothingLeftBehind
PROPERTIES
  NeverBringsBack
CHECK_DEADLOCK FALSE
