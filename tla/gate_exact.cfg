SPECIFICATION Spec
CONSTANTS
  Thread = {"t1", "t2"}
  Daemon = {"d1"}
  Home <- OneDaemon
  Calls <- ExactCalls
  Agent = {"ada"}
  Scopes <- AllScopes
  Ceiling <- ApiOnly
  KeyExpiry <- NeverExpires
  Capability = {}
  Definition = {}
  FirstDefinition <- NoCapability
  Host = {"api", "elsewhere"}
  Route = {"POST"}
  Item = {"i1", "i2"}
  FirstItem <- KeyStored
  Selector = {"key"}
  Value = {"s1", "s2"}
  Target <- ExactOnly
  Terms <- AskOne
  ReviewTTL = {0}
  ReviewUses <- ReviewBudgets
  Request = {r1, r2}
  MinTTL = 1
  MaxUses = 2
  MaxPending = 1
  MaxClock = 1
  MaxCrash = 1
  MaxChange = 1
  None = None
SYMMETRY RequestSymmetry
INVARIANTS
  UseMatchesApproval
  ReceiptOrder
  ReviewAudited
PROPERTIES
  StaleOnlyWhenChanged
