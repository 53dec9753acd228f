SPECIFICATION ScheduledSpec
CONSTANTS
  r1 = r1
  t1 = t1
  None = None
  Adjusted = Adjusted
  Request = {r1}
  CustomerRequest = {r1}
  Tx = {t1}
  StopKey = {"k1"}
  Event <- StartAndEnd
  Reported = {}
  Reviewer = {}
  Total = {1}
  MaxJobs = 2
  MaxVersion = 1
INVARIANTS
  StartedIffPhysical
  RejectedStopResumes
PROPERTIES
  PendingResolves
CHECK_DEADLOCK FALSE
