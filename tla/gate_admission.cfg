SPECIFICATION Spec
CONSTANTS
  Thread = {"t1", "t2", "adm"}
  Daemon = {"d1"}
  Home <- OneDaemon
  Calls <- RequestsOnly
  Agent = {"ada"}
  Scopes <- AllScopes
  Ceiling <- NoCeiling
  KeyExpiry <- NeverExpires
  Capability = {"infer"}
  Definition <- Definitions
  FirstDefinition <- InferPut
  Host = {"api", "elsewhere"}
  Route = {"POST"}
  Item = {"i1"}
  FirstItem <- KeyStored
  Selector = {"key"}
  Value = {"s1", "s2"}
  Target <- InvokeOnly
  Terms <- AskEither
  ReviewTTL = {2}
  ReviewUses <- ReviewBudgets
  Request = {r1, r2, r3}
  MinTTL = 1
  MaxUses = 2
  MaxPending = 2
  MaxClock = 0
  MaxCrash = 0
  MaxChange = 1
  None = None
SYMMETRY RequestSymmetry
INVARIANTS
  NoDuplicatePending
  PendingBounded
