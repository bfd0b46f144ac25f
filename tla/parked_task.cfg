\* A timed hold and an indefinite one replace the same slot.
SPECIFICATION Spec
CONSTANTS
  t1 = t1
  t2 = t2
  v1 = v1
  v2 = v2
  Toys = {t1}
  Features = {v1, v2}
  Reqs = {r1, r2, r3}
  MaxLevel = 2
  Jobs <- MotorJobs
  Additive = FALSE
  MaxFail = 0
  NoSlot = NoSlot
  NoJob = NoJob
SYMMETRY ReqSymmetry
INVARIANT ParkedIsRegistered
