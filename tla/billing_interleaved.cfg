SPECIFICATION Spec
CONSTANTS
  Users = {u1}
  Tunnels = {}
  Ips = {p1}
  Blocks = {b1}
  Tickers = {k1, k2}
  Prices <- MCPrices
  Adjustments <- MCAdjustments
  CycleDays = 1
  GraceDays = 1
  Isolated = FALSE
  NoUser = NoUser
  MaxDay = 2
  MaxBalance = 2
  MaxFaults = 0
INVARIANTS TypeOK LedgerAccountsForBalance SuspendedHasDeadline
