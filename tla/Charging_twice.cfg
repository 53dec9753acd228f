SPECIFICATION Spec
CONSTANTS
  r1 = r1
  r2 = r2
  t1 = t1
  t2 = t2
  w1 = w1
  w2 = w2
  None = None
  Adjusted = Adjusted
  Request = {}
  CustomerRequest = {}
  Tx = {t1}
  StopKey = {}
  Event <- TwiceEvidence
  Reported = {}
  Reviewer = {w1, w2}
  Total = {1}
  MaxJobs = 1
  MaxVersion = 2
SYMMETRY Reviewers
INVARIANTS
  OneFinalizedRecord
CHECK_DEADLOCK FALSE
