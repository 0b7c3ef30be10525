SPECIFICATION Spec
CONSTANTS
  Providers = {"google"}
  Requests = {r1, r2}
  Nobody = Nobody
  MaxTokens = 2
  MaxLogouts = 1
PROPERTY NoUseAfterLogout
CHECK_DEADLOCK FALSE
