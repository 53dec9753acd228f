SPECIFICATION Spec
CONSTANTS
  r1 = r1
  r2 = r2
  t1 = t1
  t2 = t2
  w1 = w1
  w2 = w2
  None = None
  Adjusted = Adjusted
  Request = {r1, r2}
  CustomerRequest = {r1}
  Tx = {t1}
  StopKey = {}
  Event <- StartEvidence
  Reported = {"faulted", "available"}
  Reviewer = {}
  Total = {1}
  MaxJobs = 2
  MaxVersion = 1
INVARIANTS
  ReservedIffPending
  UncertainStartKept
  ExpiredNeverSent
PROPERTIES
  CommandsMoveLegally
CHECK_DEADLOCK FALSE
