CONSTANTS
    r1 = r1
    r2 = r2
    r3 = r3
    p1 = p1
    p2 = p2
    p3 = p3
    p4 = p4
    Requests = {r1, r2}
    Players = {p1, p2, p3}
    LeagueConfigs <- OneRound
    Projected <- TwoSets
    MaxDrafts = 2
    MaxSets = 2
SPECIFICATION FairSpec
INVARIANTS
    PicksFromPinnedSet
PROPERTIES
    TermsAreFrozen
    EveryRequestEnds
