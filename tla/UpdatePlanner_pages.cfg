SPECIFICATION Spec
CONSTANTS
  Novel = {1, 2}
  Allowed = {1, 2}
  p1 = p1
  p2 = p2
  Probe = {p1, p2}
  NoToken = NoToken
  PageSize = 1
  Lease = 1
  MaxSlots = 2
  MaxFaults = 2
  MaxChanges = 1
INVARIANTS TypeOK Covered OncePerSlot
PROPERTIES GenerationEnds
CHECK_DEADLOCK FALSE
