SPECIFICATION Spec
CONSTANTS
  r1 = r1
  r2 = r2
  t1 = t1
  t2 = t2
  w1 = w1
  w2 = w2
  None = None
  Adjusted = Adjusted
  Request = {r1}
  CustomerRequest = {}
  Tx = {t1, t2}
  StopKey = {}
  Event <- OrderEvidence
  Reported = {"preparing"}
  Reviewer = {}
  Total = {1}
  MaxJobs = 1
  MaxVersion = 1
INVARIANTS
  TypeOK
  OneSessionPerTx
PROPERTIES
  SessionsSpec
  TerminalStays
CHECK_DEADLOCK FALSE
