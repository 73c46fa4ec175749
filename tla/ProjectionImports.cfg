\* Three imports of any of nine files, side by side, into three databases.
CONSTANTS
  Importers = {i1, i2, i3}
  Jobs <- MCJobs
  Starts <- MCStarts
  None = None
SYMMETRY Symmetry
SPECIFICATION Spec
INVARIANTS
  SetsAreWhole
  EligibilityIsLatest
  ChecksAreBackstops
  ActivationsTakeTurns
CHECK_DEADLOCK FALSE
