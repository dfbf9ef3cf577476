SPECIFICATION Spec
CONSTANTS
  t1 = t1
  t2 = t2
  g1 = g1
  r1 = r1
  r2 = r2
  Tunnel = {t1, t2}
  Gateway = {g1}
  Run = {r1, r2}
  HomeOf <- MCHomeOf
  ProtocolOf <- MCProtocolOf
  Supports <- MCSupports
  Retention = 1
  PruneWindow = {1}
  MaxBytes = 2
  MaxBucket = 1
  Nothing = Nothing
INVARIANTS NeverOvercounts ExactUnlessDisturbed
SYMMETRY Symmetry
