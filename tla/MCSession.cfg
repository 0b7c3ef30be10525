SPECIFICATION Spec
CONSTANTS
  Providers = {"github", "google"}
  Requests = {r1, r2}
  Nobody = Nobody
  MaxTokens = 4
  MaxLogouts = 2
SYMMETRY Symmetry
INVARIANTS Consistent StoredTokenWorks
PROPERTIES GitHubLogoutIsFinal SpentIsRefused
CHECK_DEADLOCK FALSE
