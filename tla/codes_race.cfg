SPECIFICATION Spec
CONSTANTS
  c1 = c1
  c2 = c2
  c3 = c3
  b1 = b1
  b2 = b2
  u1 = u1
  u2 = u2
  r1 = r1
  r2 = r2
  Codes = {c1, c2, c3}
  Users = {u1, u2}
  Requests = {r1, r2}
  Batches = {b1, b2}
  Batch <- MCBatch
  Value <- MCValue
  MaxTotal <- MCMaxTotal
  MaxPerUser <- MCMaxPerUser
  MaxBatches = 1
  MaxDay = 1
SYMMETRY Symmetry
INVARIANTS TypeOK UsesMatchRedemptions WithinLimits CreditMatchesRedemptions BatchTotalsMatch ExhaustedIsUsedUp SomeoneGoesOn
PROPERTIES RedeemedOnlyWhileValid
