\* Three calls of start() and stop() in any order and overlap.
SPECIFICATION FairSpec
CONSTANTS
  Calls = {c1, c2, c3}
  Asks <- AnyAsk
  Processes = {k1, k2, k3, k4}
  MaxExits = 2
  None = None
INVARIANTS CalmOneProcess CalmStoppedIsDown
PROPERTIES CalmStopsFinish CalmKeptAlive
