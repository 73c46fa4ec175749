CONSTANTS
    MaxTeams = 5
    MaxRounds = 5
SPECIFICATION Spec
INVARIANTS
    TypeOK
    EachRoundEveryTeamOnce
    ContextUntilLastPick
    TurnStraddlesRoundEnd
PROPERTIES
    CountdownIsSteady
    SecondPickKeepsTurn
