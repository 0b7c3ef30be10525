SPECIFICATION Spec
CONSTANTS
  Requests = {r1, r2}
  Scripts = {}
  Nobody = Nobody
  MaxPulls = 2
SYMMETRY Symmetry
INVARIANTS OpenPullIsKnown ProposalHasWorkspace
CHECK_DEADLOCK FALSE
