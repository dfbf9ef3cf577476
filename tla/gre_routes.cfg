SPECIFICATION ServingSpec
CONSTANTS
  t1 = t1
  a1 = a1
  i1 = i1
  i2 = i2
  h1 = h1
  h2 = h2
  Tunnels = {t1, t2}
  Addresses = {a1}
  Ips = {i1, i2}
  NoLink = NoLink
  Hosts = {h1, h2}
  NoHost = NoHost
  Editors = {}
  Deleters = {d1}
  Slots = 2
  MaxTunnels = 1
  Budget = 2
INVARIANTS LinksApart
PROPERTIES GreConverges
