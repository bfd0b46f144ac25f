\* Stopping one of two held motors over BLE.
SPECIFICATION Spec
CONSTANTS
  t1 = t1
  t2 = t2
  v1 = v1
  v2 = v2
  Toys = {t1}
  Features = {v1, v2}
  Reqs = {r1, r2, r3}
  MaxLevel = 2
  Jobs <- ZeroJobs
  Additive = TRUE
  MaxFail = 0
  NoSlot = NoSlot
  NoJob = NoJob
SYMMETRY ReqSymmetry
INVARIANT RunningMotorHasSlot
