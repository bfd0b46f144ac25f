\* Every route against the supervisor, on a toy whose id changes.
SPECIFICATION Spec
CONSTANTS
  a1 = a1
  a2 = a2
  m1 = m1
  m2 = m2
  p1 = p1
  p2 = p2
  Ids = {a1, m1}
  Devices = {p1}
  Guess <- OtherIds
  Mac <- SameIds
  Calls = {c1, c2, c3}
  Asks <- Routes
  Sup = Sup
  NoDevice = NoDevice
  NoAsk = NoAsk
  MaxDrops = 1
  MaxFails = 0
  MaxTries = 1
SYMMETRY CallSymmetry
INVARIANTS PausedIsDown
PROPERTY PauseWins
