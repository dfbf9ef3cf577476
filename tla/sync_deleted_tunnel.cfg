SPECIFICATION Spec
CONSTANTS
  t1 = t1
  t2 = t2
  u1 = u1
  u2 = u2
  c1 = c1
  c2 = c2
  Tunnels = {t1}
  Ips = {i1}
  NoTunnel = NoTunnel
  NoMeta = NoMeta
  Stub = Stub
  NoUser = NoUser
  Users = {u1}
  Owner <- OneTunnel
  Clients = {c1, c2}
  MaxAttempts = 1
  MaxOps = 4
  MaxFaults = 0
INVARIANTS NoAddressOnDeletedTunnel
