SPECIFICATION ServingSpec
CONSTANTS
  t1 = t1
  t2 = t2
  u1 = u1
  u2 = u2
  c1 = c1
  c2 = c2
  Tunnels = {t1, t2}
  Ips = {i1}
  NoTunnel = NoTunnel
  NoMeta = NoMeta
  Stub = Stub
  NoUser = NoUser
  Users = {u1, u2}
  Owner <- SameOwner
  Clients = {c1, c2}
  MaxAttempts = 2
  MaxOps = 2
  MaxFaults = 1
INVARIANTS TypeOK AttachedToOwnTunnel AllowedWithinRecord
PROPERTIES RecordsConverge
