\* Progress and recovery of the links of two toys under fairness.
SPECIFICATION FairSpec
CONSTANTS
  a1 = a1
  a2 = a2
  m1 = m1
  m2 = m2
  p1 = p1
  p2 = p2
  Ids = {m1, m2}
  Devices = {p1, p2}
  Guess <- SameIds
  Mac <- SameIds
  Calls = {c1, c2}
  Asks <- Lives
  Sup = Sup
  NoDevice = NoDevice
  NoAsk = NoAsk
  MaxDrops = 1
  MaxFails = 1
  MaxTries = 1

PROPERTIES KeptConnected CallsFinish
