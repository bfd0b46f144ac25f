\* Every operation on two toys, with one backend failure.
SPECIFICATION Spec
CONSTANTS
  t1 = t1
  t2 = t2
  v1 = v1
  v2 = v2
  Toys = {t1, t2}
  Features = {v1}
  Reqs = {r1, r2, r3}
  MaxLevel = 2
  Jobs <- AllJobs
  Additive = TRUE
  MaxFail = 1
  NoSlot = NoSlot
  NoJob = NoJob
SYMMETRY ReqSymmetry
INVARIANTS RegisteredAlive LocksLive ClosedKeepsNothing
