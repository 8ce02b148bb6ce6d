SPECIFICATION HarnessFairSpec
CONSTANTS
  None = None
  Words = 2
  CallTicks = 1
  Deadline = 1
  RunTicks = 1
  Changes = {e1, e2}
  MaxSaves = 2
  MaxExports = 1
  Files = {a1, a2}
  Requests = {o1, o2, o3}
  Outputs = {x1, x2}
  MaxDown = 1
  Pages = {p1, p2}
  MaxVersions = 3
  MaxRestarts = 1
INVARIANTS StatesOK  CorrectionsKept
PROPERTY EditingEnds
CHECK_DEADLOCK FALSE
