SPECIFICATION Spec
CONSTANTS
  Thread = {"t1", "t2", "adm"}
  Daemon = {"d1"}
  Home <- OneDaemon
  Calls <- OneReviewer
  Agent = {"ada"}
  Scopes <- AllScopes
  Ceiling <- ApiOnly
  KeyExpiry <- NeverExpires
  Capability = {"infer"}
  Definition <- Definitions
  FirstDefinition <- InferPut
  Host = {"api", "elsewhere"}
  Route = {"POST"}
  Item = {"i1"}
  FirstItem <- KeyStored
  Selector = {"key"}
  Value = {"s1", "s2"}
  Target <- InvokeOnly
  Terms <- AskOne
  ReviewTTL = {2}
  ReviewUses <- ReviewBudgets
  Request = {r1, r2}
  MinTTL = 1
  MaxUses = 2
  MaxPending = 1
  MaxClock = 1
  MaxCrash = 0
  MaxChange = 1
  None = None
SYMMETRY RequestSymmetry
INVARIANTS
  TypeOK
  SpendsWithinApproval
  UseMatchesApproval
PROPERTIES
  LifecycleStep
  ImplementsContract
