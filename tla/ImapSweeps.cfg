CONSTANTS
  r1 = r1
  r2 = r2
  l1 = l1
  Accts = {1, 2}
  Remote = {r1, r2}
  Local = {}
  WithId = {}
  Home <- TwoHomes
  MaxEpoch = 1
  MaxFaults = 0
  MaxChanges = 0
SPECIFICATION Spec
PROPERTIES SweepsOwn
CHECK_DEADLOCK FALSE
