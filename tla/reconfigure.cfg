\* The scheduler is replaced while a motor is held.
SPECIFICATION Spec
CONSTANTS
  t1 = t1
  t2 = t2
  v1 = v1
  v2 = v2
  Toys = {t1}
  Features = {v1}
  Reqs = {r1, r2}
  MaxLevel = 2
  Jobs <- ConfigJobs
  Additive = FALSE
  MaxFail = 0
  NoSlot = NoSlot
  NoJob = NoJob
SYMMETRY ReqSymmetry
PROPERTY ReconfigKeepsPlayback
