SPECIFICATION Spec
CONSTANTS
  Daemon = {"d1", "d2"}
  None = None
  Thread = {"t1", "t2", "t3"}
  Homes <- OneOrTwoDaemons
  Calls <- Offices
  Name = {hermes}
  MaxMint = 2
  MaxCrash = 1
INVARIANTS
  TypeOK
  IssuedKeyStored
PROPERTIES
  DeadKeyRefused
  RevokedStays
