SPECIFICATION ScheduledSpec
CONSTANTS
  r1 = r1
  t1 = t1
  w1 = w1
  q1 = q1
  wallet = wallet
  None = None
  Adjusted = Adjusted
  Request = {r1}
  CustomerRequest = {r1}
  Tx = {t1}
  StopKey = {}
  CancelKey = {}
  BudgetKey = {}
  Event <- StartStop
  Reported = {"available"}
  Reviewer = {w1}
  Total = {1, 2}
  MaxJobs = 1
  MaxVersion = 2
  Wallet = wallet
  Budget = 1
  Topup = {q1}
  Amount <- MCAmount
INVARIANTS
  PrepaidTypeOK
  HeldUntilSettled
  ChargedPerRecord
  FreeOnlyIfOver
PROPERTIES
  WalletSpec
  DueSettles
CHECK_DEADLOCK FALSE
