\* An attempt on a toy that a request has connected meanwhile.
SPECIFICATION Spec
CONSTANTS
  a1 = a1
  a2 = a2
  m1 = m1
  m2 = m2
  p1 = p1
  p2 = p2
  Ids = {m1, m2}
  Devices = {p1, p2}
  Guess <- SameIds
  Mac <- SameIds
  Calls = {c1, c2, c3}
  Asks <- Stale
  Sup = Sup
  NoDevice = NoDevice
  NoAsk = NoAsk
  MaxDrops = 1
  MaxFails = 1
  MaxTries = 1
SYMMETRY CallSymmetry
INVARIANT OnlineIsClean
