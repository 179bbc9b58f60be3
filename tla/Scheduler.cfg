SPECIFICATION FairSpec
CONSTANTS
  Job = {j1, j2, j3}
  Service = {s1}
  ResumeId = {t1}
  Budget = {1}
  Transient = 1
  MaxWorkers = 2
  MaxMemory = 3
  Runtime = 1
  None = None
INVARIANTS AccountingExact ResumeExclusive
PROPERTIES AdmissionSettles SlotsReturn
CHECK_DEADLOCK FALSE
