------------------------------- MODULE UserTurn -------------------------------
(***************************************************************************)
(* Where the user's next pick lies as a draft moves forward (a pick) and   *)
(* back (an undo): next_user_pick_context of backend/app/drafts/order.py,  *)
(* which the draft assistant and the availability outlooks call with       *)
(* current = number of picks made + 1.                                     *)
(***************************************************************************)
EXTENDS SnakeOrder, FiniteSetsExt

CONSTANTS MaxTeams,  \* bound: the league schema allows 2..30 teams
          MaxRounds  \* bound: rounds of a roster

ASSUME SizeAssumption == /\ MaxTeams \in Nat \ {0, 1}
                         /\ MaxRounds \in Nat \ {0}

VARIABLES teams, rounds, user,  \* the frozen terms of one draft
          current               \* current_overall_pick

vars == <<teams, rounds, user, current>>

TotalPicks == teams * rounds
Position(k) == DraftPosition(k, teams)

-------------------------------------------------------------------------------
\* (UserPicksAhead_NotLast, a mutant, forgets that range excludes its end.)
\* The scan for the first pick of the user at or after the current one; the
\* set is empty when the code returns None.
UserPicksAhead_NotLast == {k \in current..(TotalPicks - 1) : Position(k) = user}
UserPicksAhead == {k \in current..TotalPicks : Position(k) = user}
HasContext == UserPicksAhead # {}
NextOverallPick == Min(UserPicksAhead)

\* The two while loops that widen the turn, back to its first pick and on to
\* its last one: the picks reached from the next one through picks of the user.
\* (Mutants: a turn that is not looked for backwards, or not forwards.)
ConsecutivePickOveralls_Forward ==
    {k \in NextOverallPick..TotalPicks :
        \A j \in NextOverallPick..k : Position(j) = user}
ConsecutivePickOveralls_Backward ==
    {k \in 1..NextOverallPick :
        \A j \in k..NextOverallPick : Position(j) = user}
ConsecutivePickOveralls ==
    {k \in 1..TotalPicks :
        \A j \in (k..NextOverallPick) \cup (NextOverallPick..k) : Position(j) = user}

TurnPickNumber ==
    Cardinality({k \in ConsecutivePickOveralls : k <= NextOverallPick})

PicksUntil_OffByOne == NextOverallPick - current + 1  \* mutant
PicksUntil == NextOverallPick - current
IsUserOnClock == PicksUntil = 0
IsConsecutiveTurn == Cardinality(ConsecutivePickOveralls) > 1

-------------------------------------------------------------------------------
Init == /\ teams \in 2..MaxTeams
        /\ rounds \in 1..MaxRounds
        /\ user \in 1..teams
        /\ current = 1

\* Mutant of Advance: one pick too many.
Advance_PastEnd == /\ current <= TotalPicks + 1
                   /\ current' = current + 1
                   /\ UNCHANGED <<teams, rounds, user>>

\* A pick is recorded: the count of picks grows by one.
Advance == /\ current <= TotalPicks
           /\ current' = current + 1
           /\ UNCHANGED <<teams, rounds, user>>

\* The latest pick is undone.
StepBack == /\ current > 1
            /\ current' = current - 1
            /\ UNCHANGED <<teams, rounds, user>>

Next == Advance \/ StepBack

Spec == Init /\ [][Next]_vars

-------------------------------------------------------------------------------
TypeOK == /\ teams \in 2..MaxTeams
          /\ rounds \in 1..MaxRounds
          /\ user \in 1..teams
          /\ current \in 1..(TotalPicks + 1)

\* Every round is a permutation of the teams, so that the schedule gives every
\* team exactly one pick of each round (snake_pick_details).
EachRoundEveryTeamOnce ==
    \A r \in 1..rounds :
        {Position(k) : k \in {j \in 1..TotalPicks : RoundNumber(j, teams) = r}} = 1..teams

\* The context is missing exactly when the user has made one pick of every
\* round: a user who still owes a pick is always told when it comes.
ContextUntilLastPick ==
    HasContext <=>
        Cardinality({k \in 1..(current - 1) : Position(k) = user}) < rounds

\* A turn is the user's next pick and whichever neighbour of it the user makes
\* too: two loops that could run to the ends of the draft find at most two
\* picks, the ones on both sides of a round's end.
TurnStraddlesRoundEnd ==
    HasContext =>
        /\ ConsecutivePickOveralls =
              {k \in 1..TotalPicks :
                  /\ Position(k) = user
                  /\ k \in (NextOverallPick - 1)..(NextOverallPick + 1)}
        /\ IsConsecutiveTurn =>
              \E r \in 1..(rounds - 1) :
                  ConsecutivePickOveralls = {r * teams, r * teams + 1}

\* While others pick, the countdown falls by one per pick and the announced
\* turn does not move; only the user's own pick may announce another one.
CountdownIsSteady ==
    [][ (HasContext /\ ~IsUserOnClock /\ current' = current + 1) =>
            /\ HasContext'
            /\ PicksUntil' = PicksUntil - 1
            /\ TurnPickNumber' = TurnPickNumber
            /\ ConsecutivePickOveralls' = ConsecutivePickOveralls ]_vars

\* Inside a two-pick turn, making the first pick leaves the user on the clock
\* with the second pick of the same turn (the code looks back for the first).
SecondPickKeepsTurn ==
    [][ (HasContext /\ IsUserOnClock /\ IsConsecutiveTurn /\ TurnPickNumber = 1
         /\ current' = current + 1) =>
            /\ HasContext'
            /\ IsUserOnClock'
            /\ TurnPickNumber' = 2
            /\ ConsecutivePickOveralls' = ConsecutivePickOveralls ]_vars
===============================================================================
