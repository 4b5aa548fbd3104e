CONSTANTS
  r1 = r1
  r2 = r2
  l1 = l1
  Accts = {1}
  Remote = {r1, r2}
  Local = {l1}
  WithId = {r1, r2, l1}
  Home <- OneHome
  MaxEpoch = 2
  MaxFaults = 1
  MaxChanges = 2
SPECIFICATION Spec
INVARIANTS TypeOK RefetchNeedsCause
PROPERTIES InboxMirrored ExpungedGo LocalKept
SYMMETRY Symmetry
CHECK_DEADLOCK FALSE
