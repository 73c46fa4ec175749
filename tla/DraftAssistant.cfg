CONSTANTS
    Leagues <- ThreeLeagues
    Pools <- SomePools
    Reach <- Places
    MaxFilled = 4
SPECIFICATION Spec
INVARIANTS
    LevelsAreOptimal
    VorSeparatesStarters
    LineupIsBest
    BestAvailableAgrees
    OrderIsExplained
PROPERTIES
    OutlookFollowsPicks
    CutoffIsWhatIsLeft
    PredictedFitComesTrue
