SPECIFICATION Spec
CONSTANTS
  n1 = n1
  n2 = n2
  p1 = p1
  p2 = p2
  s1 = s1
  s2 = s2
  s3 = s3
  Daemon = {"d1", "d2"}
  None = None
  Thread = {"t1", "a1", "a2"}
  Reviewer = {"a1", "a2"}
  Request = {r1}
  Importer = {"t1"}
  Home <- Apart
  Name = {n1, n2}
  Source = {p1, p2, s1, s2, s3, u1}
  Uuid = {u1}
  Edition = {"e1", "e2"}
  Body = {"e1", "e2"}
  Vault = {v1, v2, v3, v4, v5}
  Item = {i1, i2, i3, i4, i5}
  Key = {k1, k2, k3, k4, k5, k6, k7}
  Export <- TwoVaults
  Creates <- AdminCreates
  Puts <- AdminPuts
  MaxUnsourced = 0
  MaxCrash = 1
INVARIANTS
  TypeOK
  Opens
  OneRowPerSource
  ImportComplete
PROPERTIES
  RepeatAddsNothing
