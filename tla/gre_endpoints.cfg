SPECIFICATION Spec
CONSTANTS
  Tunnels = {t1}
  Addresses = {}
  Ips = {i1, i2}
  NoLink = NoLink
  Hosts = {h1, h2}
  NoHost = NoHost
  Editors = {e1, e2}
  Deleters = {d1, d2}
  Slots = 1
  MaxTunnels = 1
  Budget = 2
INVARIANTS TypeOK CountsNoneTooMany
PROPERTIES EndpointFollowsDns
