SPECIFICATION Spec
CONSTANTS
  u1 = u1
  r1 = r1
  r2 = r2
  r3 = r3
  Rows = {r1, r2, r3}
  Users = {u1}
  NoUser = NoUser
  Kind <- MCKind
  ScanLimit = 2
  BatchSize = 2
  MaxRetries = 2
  MaxFaults = 1
INVARIANTS SentIsDelivered DuplicatesNeedFaults NoInstantStranded
PROPERTIES InstantMailSettles
