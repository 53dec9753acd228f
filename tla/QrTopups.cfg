SPECIFICATION TopupSpec
CONSTANTS
  a1 = a1
  a2 = a2
  d1 = d1
  s1 = s1
  s2 = s2
  q1 = q1
  q2 = q2
  p1 = p1
  p2 = p2
  None = None
  Account = {a1, a2}
  Driver = {d1}
  Reference = {s1, s2}
  Topup = {q1, q2}
  Payment = {p1, p2}
  Amount <- MCAmount
SYMMETRY Symmetry
INVARIANTS
  TopupTypeOK
  HoldsCovered
  LedgerOwesBalance
  RowsAddUp
  CreditedIffPaid
  ClearingHoldsPaid
PROPERTIES
  SettlementFinal
  PaidStays
CHECK_DEADLOCK FALSE
