\* Progress under fairness; no symmetry, the properties are temporal.
SPECIFICATION FairSpec
CONSTANTS
  t1 = t1
  t2 = t2
  v1 = v1
  v2 = v2
  Toys = {t1}
  Features = {v1}
  Reqs = {r1, r2, r3}
  MaxLevel = 2
  Jobs <- LiveJobs
  Additive = FALSE
  MaxFail = 0
  NoSlot = NoSlot
  NoJob = NoJob

PROPERTIES RequestsFinish TimedHoldsFallSilent
