---------------------------- MODULE MCDraftSessions ----------------------------
(* Small instances of DraftSessions. *)
EXTENDS DraftSessions, TLC

CONSTANTS r1, r2, r3, p1, p2, p3, p4

\* Settings of the league: two teams and one round; two teams and two rounds,
\* where the snake turns; several that differ in the league row and in the
\* slots, one of which configures IR slots only.
OneRound == {[teams |-> 2, rounds |-> 1]}
TwoRounds == {[teams |-> 2, rounds |-> 2]}
Settings == {[teams |-> 2, rounds |-> 2], [teams |-> 3, rounds |-> 1],
             [teams |-> 2, rounds |-> 0]}

\* Projection sets: one with every player of the instance, or a first one and a
\* second one that drops a player and adds another.
OneSet == <<{p1, p2}>>
ThreePlayers == <<{p1, p2, p3}>>
FourPlayers == <<{p1, p2, p3, p4}>>
TwoSets == <<{p1, p2}, {p2, p3}>>

\* Where one projection set holds every player, players are interchangeable, and
\* so are requests.
Interchangeable == Permutations({r1, r2, r3}) \cup Permutations({p1, p2, p3, p4})
===============================================================================
