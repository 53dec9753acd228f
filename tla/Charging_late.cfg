SPECIFICATION Spec
CONSTANTS
  r1 = r1
  r2 = r2
  t1 = t1
  t2 = t2
  w1 = w1
  w2 = w2
  None = None
  Adjusted = Adjusted
  Request = {}
  CustomerRequest = {}
  Tx = {t1}
  StopKey = {}
  Event <- MeterEvidence
  Reported = {}
  Reviewer = {}
  Total = {1}
  MaxJobs = 1
  MaxVersion = 1
PROPERTIES
  TerminalMeasurementsStay
CHECK_DEADLOCK FALSE
