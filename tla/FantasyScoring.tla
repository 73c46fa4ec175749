---------------------------- MODULE FantasyScoring ----------------------------
(***************************************************************************)
(* League scoring of a projected stat line: FantasyScorer of               *)
(* backend/app/shared/scoring/fantasy_scorer.py.                           *)
(*                                                                         *)
(* rules maps a configured stat_key to its weight; line maps the stats a   *)
(* projection has to their value per game (an absent stat is NULL).        *)
(***************************************************************************)
EXTENDS Integers, FiniteSetsExt

\* STAT_TO_SCORING_KEY and SCORING_KEY_ALIASES
ScoringKey ==
    [fgm |-> "FGM", fga |-> "FGA", ftm |-> "FTM", fta |-> "FTA",
     rebounds |-> "REB", assists |-> "AST", steals |-> "STL",
     blocks |-> "BLK", turnovers |-> "TOV", points |-> "PTS"]
Stats == DOMAIN ScoringKey

Aliases(key) == IF key = "TOV" THEN <<"TOV", "TO">> ELSE <<key>>
SupportedKeys == {ScoringKey[s] : s \in Stats} \cup {"TO"}

\* Configured rules that no projected stat feeds: they contribute nothing.
UnsupportedRules(rules) == DOMAIN rules \ SupportedKeys

\* _configured_stat_key: the places among the aliases of a key that the league
\* has configured; the first one is used, and there may be none.
ConfiguredAliases(rules, key) ==
    {i \in DOMAIN Aliases(key) : Aliases(key)[i] \in DOMAIN rules}

LeagueWeight(rules, key) ==
    LET found == ConfiguredAliases(rules, key)
    IN  IF found = {} THEN 0 ELSE rules[Aliases(key)[Min(found)]]

Contribution(rules, line, stat) ==
    IF stat \in DOMAIN line THEN line[stat] * LeagueWeight(rules, ScoringKey[stat]) ELSE 0

FantasyPointsPerGame(rules, line) ==
    SumFunction([stat \in Stats |-> Contribution(rules, line, stat)])

ProjectedFantasyPoints(rules, line, games) == FantasyPointsPerGame(rules, line) * games
===============================================================================
