CONSTANTS
    Leagues <- OneLeague
    Pools <- OnePool
    Reach <- Places
    MaxFilled = 4
SPECIFICATION Spec
INVARIANT RankFollowsVor
