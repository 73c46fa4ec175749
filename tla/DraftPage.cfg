SPECIFICATION FairSpec
CONSTANTS
  p1 = p1
  p2 = p2
  Players <- MCPlayers
  TotalPicks <- MCTotalPicks
  MaxSearches = 1
  MaxDrafts = 2
  MaxMishaps = 1
INVARIANT QuietPageIsCurrent
PROPERTIES ActsOnWhatIsShown ComesToRest
CHECK_DEADLOCK FALSE
