SPECIFICATION FairSpec
CONSTANTS
  Users = {u1}
  Tunnels = {t1}
  Ips = {p1}
  Blocks = {b1}
  Tickers = {k1}
  Prices <- MCPrices
  Adjustments <- MCAdjustments
  CycleDays = 1
  GraceDays = 1
  Isolated = TRUE
  NoUser = NoUser
  MaxDay = 2
  MaxBalance = 1
  MaxFaults = 1
INVARIANTS NoEarlyRenewal SuspendedOnlyUnpaid RenewalsBehindNextBilling
PROPERTIES CancelledOnlyOverdue GoneStaysGone DueIsHandled OverdueIsEnded
