CONSTANTS
    r1 = r1
    r2 = r2
    r3 = r3
    p1 = p1
    p2 = p2
    p3 = p3
    p4 = p4
    Requests = {r1, r2, r3}
    Players = {p1, p2, p3}
    LeagueConfigs <- Settings
    Projected <- ThreePlayers
    MaxDrafts = 3
    MaxSets = 1
SYMMETRY Interchangeable
SPECIFICATION ApartSpec
INVARIANTS
    LeagueIsAsSubmitted
    DraftSnapshotsALeague
    ActiveDraftIsNewest
    WorksOnNewest
PROPERTIES
    LeagueLocked
