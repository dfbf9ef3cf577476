SPECIFICATION MCSpec
CONSTANTS
  u1 = u1
  u2 = u2
  t1 = t1
  p1 = p1
  r1 = r1
  r2 = r2
  m1 = m1
  m2 = m2
  b1 = b1
  b2 = b2
  Addresses <- MCAddresses
  Users = {u1, u2}
  Nobody = Nobody
  Tunnels = {t1}
  Owner <- MCOwner
  Detached = Detached
  Pools = {p1}
  NoPool = NoPool
  Blocks = {b1, b2}
  NoBlock = NoBlock
  Requests = {r1, r2}
  Admins = {m1, m2}
  PoolCidrs <- MCPoolCidrs
  PlanCidrs <- MCPlanCidrs
  BlockSizes = {2}
  MaxCount = 4
CHECK_DEADLOCK FALSE
SYMMETRY Symmetry
INVARIANTS TypeOK BlocksStayWhole CountersMatch SoldOneWay
PROPERTIES ImplementsMarket
