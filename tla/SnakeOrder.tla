------------------------------ MODULE SnakeOrder ------------------------------
(***************************************************************************)
(* The arithmetic of a snake draft: which team makes overall pick k.       *)
(* Code: snake_pick_details in backend/app/drafts/compatibility.py.        *)
(***************************************************************************)
EXTENDS Integers

\* snake_pick_details: the round, the pick within the round and the draft
\* position (the team's seat) of overall pick k in a draft of n teams.
RoundNumber(k, n) == ((k - 1) \div n) + 1
PickInRound(k, n) == ((k - 1) % n) + 1
\* Mutants of DraftPosition: every round in the same order, and even rounds one
\* seat too far.
DraftPosition_Linear(k, n) == PickInRound(k, n)
DraftPosition_OffByOne(k, n) ==
    IF RoundNumber(k, n) % 2 = 1 THEN PickInRound(k, n)
                                 ELSE n - PickInRound(k, n)

DraftPosition(k, n) ==
    IF RoundNumber(k, n) % 2 = 1 THEN PickInRound(k, n)
                                 ELSE n - PickInRound(k, n) + 1
===============================================================================
