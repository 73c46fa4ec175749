--------------------------- MODULE MCDraftAssistant ---------------------------
(* Small instances of DraftAssistant. *)
EXTENDS DraftAssistant

Slots(keys) == [i \in DOMAIN keys |-> [key |-> keys[i], count |-> 1]]
Rules == [PTS |-> 1, TO |-> -1, TEAM_WINS |-> 1]

\* Two teams: a starter and a flexible slot with a bench, listed out of order and
\* with an IR slot; two starters with a bench; three flexible slots.
ThreeLeagues == {[teams |-> 2, slots |-> Slots(<<"BE", "IR", "UTIL", "PG">>), rules |-> Rules],
                 [teams |-> 2, slots |-> Slots(<<"SG", "PG", "BE">>), rules |-> Rules],
                 [teams |-> 2, slots |-> Slots(<<"UTIL", "G", "F">>), rules |-> Rules]}
OneLeague == {[teams |-> 2, slots |-> Slots(<<"PG", "UTIL">>), rules |-> Rules]}

\* Eleven players by points per game, the ninth without eligibility; a turnover
\* costs a point under either of its keys.
PointsPerGame == <<30, 29, 26, 25, 25, 24, 20, 17, 22, 15, 13>>
Row(p, positions) ==
    [name |-> 20 - p, team |-> p % 3, primary |-> p % 5, positions |-> positions,
     line |-> [points |-> PointsPerGame[p] + (p % 3), turnovers |-> p % 3], games |-> 2]
Eligibility(a, b, c, d) ==
    <<a, b, {"SG"}, {"SF", "PF"}, {"C"}, {"PF", "C"}, {"PG", "SF"}, c, {},
      {"SG", "SF"}, d>>
PoolOf(eligibility) == [p \in DOMAIN eligibility |-> Row(p, eligibility[p])]

\* Pools that differ in who can play where; in some of them a position has
\* nobody left, so that there are no valuations.
SomePools ==
    {PoolOf(Eligibility(a, b, {"SG"}, {"PG", "PF", "C"})) :
        a \in {{"PG"}, {"C"}}, b \in {{"PG", "SG"}, {"PG", "SF"}}}
    \cup {PoolOf(Eligibility({"SG", "SF"}, {"C"}, {"PF"}, {"C"}))}
OnePool == {PoolOf(Eligibility({"PG"}, {"PG", "SG"}, {"SG"}, {"PG", "PF", "C"}))}
Places == {1, 3}
===============================================================================
