\* Three requests, two imports, one league save or one draft change.
CONSTANTS
  Requests = {r1, r2, r3}
  Importers = {i1, i2}
  Configs <- MCConfigs
  Sets = {s1, s2}
  Asks = {None}
  Players = {p1, p2}
  Positions <- MCPositions
  MaxEntries = 1
  MaxChanges = 1
  Starts <- MCStarts
  Insufficient <- MCInsufficient
  None = None
SYMMETRY Symmetry
SPECIFICATION Spec
INVARIANTS
  RepliesMatchRequest
  FreshUnlessRaced
  InFlightIsLive
CHECK_DEADLOCK FALSE
