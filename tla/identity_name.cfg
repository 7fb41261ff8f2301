SPECIFICATION Spec
CONSTANTS
  Daemon = {"d1"}
  None = None
  Thread = {"t1"}
  Homes <- OnlyTogether
  Calls <- Offices
  Name = {hermes}
  MaxMint = 2
  MaxCrash = 0
INVARIANTS
  ActiveNameFound
