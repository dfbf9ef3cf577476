SPECIFICATION Spec
CONSTANTS
  Users = {u1}
  Tunnels = {}
  Ips = {}
  Blocks = {b1}
  Tickers = {k1, k2}
  Prices <- MCPrices
  Adjustments <- MCAdjustments
  CycleDays = 2
  GraceDays = 1
  Isolated = FALSE
  NoUser = NoUser
  MaxDay = 4
  MaxBalance = 3
  MaxFaults = 0
INVARIANTS NoEarlyRenewal
