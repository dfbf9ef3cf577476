SPECIFICATION DialSpec
CONSTANTS
  p1 = p1
  p2 = p2
  i1 = i1
  Customers = {p1, p2}
  IPs = {i1}
  MaxTorn = 1
SYMMETRY Symmetry
INVARIANTS SuspendedCarriesNothing CarriesOnlyWhatWasTold
