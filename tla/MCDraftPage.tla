----------------------------- MODULE MCDraftPage -----------------------------
(* A draft of two picks between two players.                                 *)
EXTENDS DraftPage, TLC

CONSTANTS p1, p2

MCPlayers == {p1, p2}
MCTotalPicks == 2
=============================================================================
