SPECIFICATION Spec
CONSTANTS
  Thread = {"t1", "t2"}
  Daemon = {"d1", "d2"}
  Home <- TwoDaemons
  Calls <- Anything
  Agent = {"ada"}
  Scopes <- AllScopes
  Ceiling <- ApiOnly
  KeyExpiry <- NeverExpires
  Capability = {}
  Definition = {}
  FirstDefinition <- NoCapability
  Host = {"api", "elsewhere"}
  Route = {"POST"}
  Item = {"i1"}
  FirstItem <- KeyStored
  Selector = {"key"}
  Value = {"s1", "s2"}
  Target <- RevealOnly
  Terms <- AskTwo
  ReviewTTL <- ReviewTTLs
  ReviewUses <- ReviewBudgets
  Request = {r1}
  MinTTL = 1
  MaxUses = 2
  MaxPending = 1
  MaxClock = 1
  MaxCrash = 1
  MaxChange = 1
  None = None
INVARIANTS
  SpendsWithinApproval
PROPERTIES
  LifecycleStep
  ImplementsContract
