---------------------------- MODULE UserTurnProofs ----------------------------
(***************************************************************************)
(* Proofs about UserTurn, for every number of teams and rounds: each round *)
(* is a permutation of the teams, the user's context is missing only once  *)
(* the user has picked in every round, the countdown to the next turn is   *)
(* steady, and a turn is one pick or two on both sides of a round's end.   *)
(***************************************************************************)
EXTENDS UserTurn, SnakeOrderProofs

\* The bounds are numbers, so the sizes of a draft are.
LEMMA Sizes ==
    ASSUME TypeOK
    PROVE  /\ teams \in Nat \ {0} /\ rounds \in Nat \ {0} /\ user \in 1..teams
           /\ TotalPicks \in Nat \ {0} /\ current \in 1..(TotalPicks + 1)
BY SizeAssumption, SMT DEF TypeOK, TotalPicks

\* The draft keeps its terms, and the current pick stays on the board or one
\* past its end.
THEOREM TurnTypeCorrect == Spec => []TypeOK
<1>1. Init => TypeOK
  <2> SUFFICES ASSUME Init PROVE TypeOK
    OBVIOUS
  <2>1. teams \in Nat \ {0} /\ rounds \in Nat \ {0}
    BY SizeAssumption, SMT DEF Init
  <2>2. teams * rounds \in Nat
    BY <2>1, SMT
  <2>3. 1 \in 1..(TotalPicks + 1)
    BY <2>2, SMT DEF TotalPicks
  <2>4. QED
    BY <2>3 DEF Init, TypeOK
<1>2. TypeOK /\ [Next]_vars => TypeOK'
  <2> SUFFICES ASSUME TypeOK, [Next]_vars PROVE TypeOK'
    OBVIOUS
  <2>1. UNCHANGED <<teams, rounds, user>> /\ TotalPicks' = TotalPicks
    BY DEF Next, Advance, StepBack, vars, TotalPicks
  <2>2. TotalPicks \in Nat /\ current \in 1..(TotalPicks + 1)
    BY Sizes
  <2> HIDE DEF TotalPicks
  <2>3. current' \in 1..(TotalPicks + 1)
    BY <2>2, SMT DEF Next, Advance, StepBack, vars
  <2>4. QED
    BY <2>1, <2>3 DEF TypeOK
<1>3. QED
  BY <1>1, <1>2, PTL DEF Spec

\* Whatever the size of the league, every round has one pick of every team.
THEOREM RoundsAreFair == Spec => []EachRoundEveryTeamOnce
<1>1. TypeOK => EachRoundEveryTeamOnce
  BY Sizes, RoundIsPermutation DEF EachRoundEveryTeamOnce, Position, TotalPicks
<1>2. QED
  BY <1>1, TurnTypeCorrect, PTL

\* While the user still owes a pick, the code finds the next one.
THEOREM ContextIsThere == Spec => []ContextUntilLastPick
<1>1. TypeOK => ContextUntilLastPick
  <2> SUFFICES ASSUME TypeOK PROVE ContextUntilLastPick
    OBVIOUS
  <2> DEFINE S == {k \in 1..TotalPicks : Position(k) = user}
             past == {k \in 1..(current - 1) : Position(k) = user}
             ahead == {k \in current..TotalPicks : Position(k) = user}
  <2>1. IsFiniteSet(S) /\ Cardinality(S) = rounds
    BY Sizes, OnePickPerRound DEF TotalPicks, Position
  <2>2. past \subseteq S /\ ahead = S \ past
    <3>1. /\ \A k : k \in 1..(current - 1) => k \in 1..TotalPicks
          /\ \A k : k \in current..TotalPicks <=>
                       k \in 1..TotalPicks /\ k \notin 1..(current - 1)
      BY Sizes, SMT
    <3>2. QED
      BY <3>1
  <2> HIDE DEF S, past, ahead
  <2>3. /\ IsFiniteSet(past) /\ Cardinality(past) <= rounds
        /\ Cardinality(past) = rounds => past = S
    BY <2>1, <2>2, FS_Subset
  <2>4. Cardinality(past) \in Nat /\ rounds \in Nat
    BY <2>3, FS_CardinalityType, Sizes
  <2>5. ahead # {} <=> past # S
    BY <2>2
  <2>6. past = S <=> Cardinality(past) = rounds
    BY <2>1, <2>3
  <2>7. ahead # {} <=> Cardinality(past) < rounds
    BY <2>3, <2>4, <2>5, <2>6, SMT
  <2>8. QED
    BY <2>7 DEF ContextUntilLastPick, HasContext, UserPicksAhead, past, ahead
<1>2. QED
  BY <1>1, TurnTypeCorrect, PTL

-------------------------------------------------------------------------------
(* The next pick and its turn. *)

\* The scan stops at the first pick.
LEMMA LeastElement ==
    ASSUME NEW S \in SUBSET Nat, S # {}
    PROVE  Min(S) \in S /\ \A y \in S : Min(S) <= y
<1>1. \E x \in S : \A y \in S : ~ (<<y, x>> \in OpToRel(<, Nat))
  BY NatLessThanWellFounded, WFMin
<1>2. PICK x \in S : \A y \in S : ~ (<<y, x>> \in OpToRel(<, Nat))
  BY <1>1
<1>3. \A y \in S : x <= y
  <2>1. \A y, z \in Nat : y < z => <<y, z>> \in OpToRel(<, Nat)
    BY DEF OpToRel
  <2>2. \A y \in S : x \in Nat /\ y \in Nat /\ ~(y < x)
    BY <1>2, <2>1
  <2>3. QED
    BY <2>2, SMT
<1>4. QED
  BY <1>3 DEF Min

\* The next pick is a pick of the user, none of the user's lies between it and
\* the current one, and it is the current one when that is the user's.
LEMMA NextPick ==
    ASSUME TypeOK, HasContext
    PROVE  /\ NextOverallPick \in current..TotalPicks
           /\ NextOverallPick \in 1..TotalPicks
           /\ Position(NextOverallPick) = user
           /\ \A k \in UserPicksAhead : NextOverallPick <= k
<1> DEFINE S == UserPicksAhead
<1>1. /\ TotalPicks \in Nat /\ current \in Nat \ {0}
  BY Sizes, SMT
<1>2. \A k \in S : k \in current..TotalPicks /\ Position(k) = user
  BY DEF UserPicksAhead
<1>3. S \in SUBSET Nat /\ S # {}
  BY <1>1, <1>2, SMT DEF HasContext
<1>4. NextOverallPick \in S /\ \A k \in S : NextOverallPick <= k
  BY <1>3, LeastElement DEF NextOverallPick
<1>5. NextOverallPick \in current..TotalPicks /\ Position(NextOverallPick) = user
  BY <1>2, <1>4
<1>6. QED
  BY <1>1, <1>4, <1>5, SMT

\* While others pick, the countdown falls by one per pick and nothing else of
\* the announced turn changes.
THEOREM CountdownFalls == Spec => CountdownIsSteady
<1> DEFINE Waits == HasContext /\ ~IsUserOnClock /\ current' = current + 1
           Step == Waits => /\ HasContext'
                            /\ PicksUntil' = PicksUntil - 1
                            /\ TurnPickNumber' = TurnPickNumber
                            /\ ConsecutivePickOveralls' = ConsecutivePickOveralls
<1>1. TypeOK /\ [Next]_vars => Step
  <2> SUFFICES ASSUME TypeOK, [Next]_vars, Waits
               PROVE  /\ HasContext'
                      /\ PicksUntil' = PicksUntil - 1
                      /\ TurnPickNumber' = TurnPickNumber
                      /\ ConsecutivePickOveralls' = ConsecutivePickOveralls
    OBVIOUS
  <2>1. UNCHANGED <<teams, rounds, user>> /\ current' = current + 1
    BY DEF Next, Advance, StepBack, vars
  <2>2. /\ TotalPicks' = TotalPicks
        /\ \A k : Position(k)' = Position(k)
    BY <2>1 DEF TotalPicks, Position
  <2>3. /\ TotalPicks \in Nat /\ current \in Nat \ {0}
        /\ NextOverallPick \in current..TotalPicks
        /\ \A k \in UserPicksAhead : NextOverallPick <= k
    BY NextPick, Sizes, SMT
  <2>4. NextOverallPick # current
    BY <2>3, SMT DEF IsUserOnClock, PicksUntil
  <2>5. current \notin UserPicksAhead
    BY <2>3, <2>4, SMT
  <2>6. UserPicksAhead' = UserPicksAhead
    <3>1. UserPicksAhead' = {k \in (current + 1)..TotalPicks : Position(k) = user}
      BY <2>1, <2>2 DEF UserPicksAhead
    <3>2. \A k : k \in (current + 1)..TotalPicks <=> k \in current..TotalPicks /\ k # current
      BY <2>3, SMT
    <3>3. QED
      BY <2>5, <3>1, <3>2 DEF UserPicksAhead
  <2>7. HasContext' /\ NextOverallPick' = NextOverallPick
    BY <2>6 DEF HasContext, NextOverallPick
  <2>8. PicksUntil' = PicksUntil - 1
    BY <2>1, <2>3, <2>7, SMT DEF PicksUntil
  <2>9. ConsecutivePickOveralls' = ConsecutivePickOveralls
    BY <2>1, <2>2, <2>7 DEF ConsecutivePickOveralls
  <2>10. TurnPickNumber' = TurnPickNumber
    BY <2>7, <2>9 DEF TurnPickNumber
  <2>11. QED
    BY <2>7, <2>8, <2>9, <2>10
<1>2. Spec => [][Step]_vars
  BY <1>1, TurnTypeCorrect, PTL DEF Spec
<1>3. QED
  BY <1>2 DEF CountdownIsSteady

-------------------------------------------------------------------------------
(* Turns of two picks. *)

\* Pick p of seat u among n teams, with those of its neighbours that are u's.
NearPicks(p, u, n, T) ==
    {k \in 1..T : DraftPosition(k, n) = u /\ k \in (p - 1)..(p + 1)}

\* The loops that widen the turn of pick p stop at its neighbours.
LEMMA TurnIsLocal ==
    ASSUME NEW n \in Nat \ {0, 1}, NEW T \in Nat, NEW u, NEW p \in 1..T,
           DraftPosition(p, n) = u
    PROVE  {k \in 1..T : \A j \in (k..p) \cup (p..k) : DraftPosition(j, n) = u}
             = NearPicks(p, u, n, T)
<1>1. ASSUME NEW k \in 1..T, \A j \in (k..p) \cup (p..k) : DraftPosition(j, n) = u
      PROVE  DraftPosition(k, n) = u /\ k \in (p - 1)..(p + 1)
  <2>1. k \in (k..p) \cup (p..k)
    BY SMT
  <2>2. CASE k < p - 1
    <3>1. {k, k + 1, k + 2} \subseteq k..p /\ k \in Nat \ {0}
      BY <2>2, SMT
    <3>2. QED
      BY <1>1, <3>1, NotThreeInARow
  <2>3. CASE k > p + 1
    <3>1. {p, p + 1, p + 2} \subseteq p..k /\ p \in Nat \ {0}
      BY <2>3, SMT
    <3>2. QED
      BY <1>1, <3>1, NotThreeInARow
  <2>4. ~(k < p - 1) /\ ~(k > p + 1) => k \in (p - 1)..(p + 1)
    BY SMT
  <2>5. QED
    BY <1>1, <2>1, <2>2, <2>3, <2>4
<1>2. ASSUME NEW k \in 1..T, DraftPosition(k, n) = u, k \in (p - 1)..(p + 1),
             NEW j \in (k..p) \cup (p..k)
      PROVE  DraftPosition(j, n) = u
  <2>1. j = k \/ j = p
    BY <1>2, SMT
  <2>2. QED
    BY <1>2, <2>1
<1>3. QED
  BY <1>1, <1>2 DEF NearPicks

\* A turn of more than one pick is the end of a round and the beginning of the
\* next.
LEMMA TurnOfTwo ==
    ASSUME NEW n \in Nat \ {0, 1}, NEW r \in Nat, NEW u, NEW p \in 1..(n * r),
           DraftPosition(p, n) = u, Cardinality(NearPicks(p, u, n, n * r)) > 1
    PROVE  \E i \in 1..(r - 1) : /\ NearPicks(p, u, n, n * r) = {n * i, n * i + 1}
                               /\ p \in NearPicks(p, u, n, n * r)
<1> DEFINE C == NearPicks(p, u, n, n * r)
<1>0. \A k : k \in C <=> /\ k \in 1..(n * r) /\ DraftPosition(k, n) = u
                        /\ k \in (p - 1)..(p + 1)
  BY DEF NearPicks
<1>8. Cardinality(C) > 1
  OBVIOUS
<1> SUFFICES \E i \in 1..(r - 1) : C = {n * i, n * i + 1} /\ p \in C
  OBVIOUS
<1> HIDE DEF C
<1>1. n * r \in Nat /\ p \in Nat \ {0} /\ p <= n * r
  BY SMT
<1>2. p \in C /\ \A k \in C : k \in {p - 1, p, p + 1}
  BY <1>0, <1>1, SMT
<1>3. \A i \in Nat \ {0} : n * i < n * r => i \in 1..(r - 1)
  <2> SUFFICES ASSUME NEW i \in Nat \ {0}, n * i < n * r PROVE i \in 1..(r - 1)
    OBVIOUS
  <2>1. CASE i >= r
    <3>1. n * (i - r) \in Nat /\ n * (i - r) = n * i - n * r /\ n * i \in Nat
      BY <2>1, SMT
    <3>2. QED
      BY <1>1, <3>1, SMT
  <2>2. CASE ~(i >= r)
    BY <2>2, SMT
  <2>3. QED
    BY <2>1, <2>2
<1>4. CASE p - 1 \in C
  <2>1. DraftPosition(p - 1, n) = u /\ p - 1 \in Nat \ {0} /\ (p - 1) + 1 = p /\ (p - 1) + 2 = p + 1
    BY <1>0, <1>1, <1>4, SMT
  <2>2. PICK i \in Nat \ {0} : p - 1 = n * i
    BY <2>1, NeighboursAreRoundEnds
  <2>3. p + 1 \notin C
    <3>1. DraftPosition((p - 1) + 1, n) # DraftPosition((p - 1) + 2, n)
      BY <2>1, NotThreeInARow
    <3>2. DraftPosition(p + 1, n) # u
      BY <2>1, <3>1
    <3>3. QED
      BY <1>0, <3>2
  <2>4. C = {p - 1, p}
    BY <1>2, <1>4, <2>3
  <2>5. p = n * i + 1 /\ n * i < n * r
    BY <1>1, <2>2, SMT
  <2>6. C = {n * i, n * i + 1}
    BY <2>2, <2>4, <2>5
  <2>7. QED
    BY <1>2, <1>3, <2>5, <2>6
<1>5. CASE p - 1 \notin C /\ p + 1 \in C
  <2>1. DraftPosition(p + 1, n) = u /\ p + 1 <= n * r
    BY <1>0, <1>1, <1>5, SMT
  <2>2. PICK i \in Nat \ {0} : p = n * i
    BY <1>1, <2>1, NeighboursAreRoundEnds
  <2>3. C = {p, p + 1}
    BY <1>2, <1>5
  <2>4. n * i < n * r
    BY <1>1, <2>1, <2>2, SMT
  <2>5. QED
    BY <1>2, <1>3, <2>2, <2>3, <2>4
<1>6. CASE p - 1 \notin C /\ p + 1 \notin C
  <2>1. C = {p}
    BY <1>2, <1>6
  <2>2. Cardinality(C) = 1
    BY <2>1, FS_Singleton
  <2>3. QED
    BY <1>8, <2>2, SMT
<1>7. QED
  BY <1>4, <1>5, <1>6

\* The turn of the next pick, as its neighbours.
LEMMA TurnOfNextPick ==
    ASSUME TypeOK, HasContext
    PROVE  /\ ConsecutivePickOveralls =
                {k \in 1..TotalPicks :
                    /\ Position(k) = user
                    /\ k \in (NextOverallPick - 1)..(NextOverallPick + 1)}
           /\ IsConsecutiveTurn =>
                \E r \in 1..(rounds - 1) :
                   /\ ConsecutivePickOveralls = {teams * r, teams * r + 1}
                   /\ NextOverallPick \in ConsecutivePickOveralls
<1>1. /\ teams \in Nat \ {0, 1} /\ rounds \in Nat /\ TotalPicks \in Nat
      /\ NextOverallPick \in 1..TotalPicks
      /\ DraftPosition(NextOverallPick, teams) = user
  <2>1. teams \in Nat \ {0, 1}
    BY SizeAssumption, SMT DEF TypeOK
  <2>2. QED
    BY <2>1, Sizes, NextPick DEF Position
<1> DEFINE T == TotalPicks
           n == teams
           r == rounds
           p == NextOverallPick
           C == ConsecutivePickOveralls
<1>2. C = {k \in 1..T : \A j \in (k..p) \cup (p..k) : DraftPosition(j, n) = user}
  BY DEF ConsecutivePickOveralls, Position
<1>3. /\ n \in Nat \ {0, 1} /\ r \in Nat /\ T \in Nat /\ T = n * r
      /\ p \in 1..T /\ DraftPosition(p, n) = user
  BY <1>1 DEF TotalPicks
<1>4. IsConsecutiveTurn <=> Cardinality(C) > 1
  BY DEF IsConsecutiveTurn
<1> HIDE DEF T, n, r, p, C
<1>5. C = NearPicks(p, user, n, T)
  <2>1. {k \in 1..T : \A j \in (k..p) \cup (p..k) : DraftPosition(j, n) = user}
          = NearPicks(p, user, n, T)
    BY <1>3, TurnIsLocal
  <2>2. QED
    BY <1>2, <2>1
<1>6. ASSUME Cardinality(C) > 1
      PROVE  \E i \in 1..(r - 1) : C = {n * i, n * i + 1} /\ p \in C
  <2>1. C = NearPicks(p, user, n, n * r) /\ p \in 1..(n * r)
    BY <1>3, <1>5
  <2>2. Cardinality(NearPicks(p, user, n, n * r)) > 1
    BY <1>6, <2>1
  <2>3. \E i \in 1..(r - 1) : /\ NearPicks(p, user, n, n * r) = {n * i, n * i + 1}
                              /\ p \in NearPicks(p, user, n, n * r)
    BY <1>3, <2>1, <2>2, TurnOfTwo
  <2>4. QED
    BY <2>1, <2>3
<1>7. QED
  BY <1>4, <1>5, <1>6 DEF NearPicks, Position, T, n, r, p, C

\* A turn is one pick, or two on both sides of the end of a round.
THEOREM TurnsAreAtRoundEnds == Spec => []TurnStraddlesRoundEnd
<1>1. TypeOK => TurnStraddlesRoundEnd
  <2> SUFFICES ASSUME TypeOK, HasContext
               PROVE  /\ ConsecutivePickOveralls =
                            {k \in 1..TotalPicks :
                                /\ Position(k) = user
                                /\ k \in (NextOverallPick - 1)..(NextOverallPick + 1)}
                      /\ IsConsecutiveTurn =>
                            \E r \in 1..(rounds - 1) :
                                ConsecutivePickOveralls = {r * teams, r * teams + 1}
    BY DEF TurnStraddlesRoundEnd
  <2>1. teams \in Nat /\ rounds \in Nat
    BY Sizes
  <2>2. \A r \in 1..(rounds - 1) : teams * r = r * teams
    BY <2>1, SMT
  <2>3. QED
    BY <2>2, TurnOfNextPick
<1>2. QED
  BY <1>1, TurnTypeCorrect, PTL

\* The picks of C up to pick p.
UpTo(C, p) == {k \in C : k <= p}

\* A set of two has two elements.
LEMMA PairHasTwo ==
    ASSUME NEW a, NEW b, a # b
    PROVE  Cardinality({a, b}) = 2
<1>1. IsFiniteSet({a}) /\ Cardinality({a}) = 1 /\ b \notin {a} /\ {a} \cup {b} = {a, b}
  BY FS_Singleton
<1>2. Cardinality({a} \cup {b}) = Cardinality({a}) + 1
  BY <1>1, FS_AddElement
<1>3. QED
  BY <1>1, <1>2

\* After the first pick of a turn of two comes its second, and the turn found
\* around it is the same.
LEMMA SecondOfTwo ==
    ASSUME NEW n \in Nat \ {0, 1}, NEW r \in Nat, NEW u, NEW p \in 1..(n * r),
           DraftPosition(p, n) = u, Cardinality(NearPicks(p, u, n, n * r)) > 1,
           Cardinality(UpTo(NearPicks(p, u, n, n * r), p)) = 1
    PROVE  /\ p + 1 \in 1..(n * r)
           /\ DraftPosition(p + 1, n) = u
           /\ NearPicks(p + 1, u, n, n * r) = NearPicks(p, u, n, n * r)
           /\ Cardinality(UpTo(NearPicks(p, u, n, n * r), p + 1)) = 2
<1> DEFINE C == NearPicks(p, u, n, n * r)
           D == NearPicks(p + 1, u, n, n * r)
<1>1. PICK i \in 1..(r - 1) : C = {n * i, n * i + 1} /\ p \in C
  BY TurnOfTwo
<1>2. n * i \in Nat /\ n * r \in Nat
  BY SMT
<1>3. Cardinality({k \in C : k <= p}) = 1
  BY DEF UpTo
<1>4. \A k : k \in D <=> /\ k \in 1..(n * r) /\ DraftPosition(k, n) = u
                         /\ k \in p..(p + 2)
  <2>1. (p + 1) - 1 = p /\ (p + 1) + 1 = p + 2
    BY SMT
  <2>2. QED
    BY <2>1 DEF NearPicks
<1>5. \A k \in C : k \in 1..(n * r) /\ DraftPosition(k, n) = u
  BY DEF NearPicks
<1> SUFFICES /\ p + 1 \in 1..(n * r) /\ DraftPosition(p + 1, n) = u
             /\ D = C /\ Cardinality({k \in C : k <= p + 1}) = 2
  BY DEF UpTo
<1> HIDE DEF C, D
<1>6. p = n * i
  <2> SUFFICES ASSUME p = n * i + 1 PROVE FALSE
    BY <1>1
  <2>1. {k \in C : k <= p} = {p - 1, p} /\ p - 1 # p
    BY <1>1, <1>2, SMT
  <2>2. Cardinality({p - 1, p}) = 2
    BY <2>1, PairHasTwo
  <2>3. QED
    BY <1>3, <2>1, <2>2, SMT
<1>7. C = {p, p + 1} /\ p \in Nat /\ p # p + 1
  BY <1>1, <1>2, <1>6, SMT
<1>8. p + 1 \in 1..(n * r) /\ DraftPosition(p + 1, n) = u
  BY <1>5, <1>7
<1>9. p + 2 \notin D
  <2>1. DraftPosition(p, n) # DraftPosition(p + 1, n) \/ DraftPosition(p + 1, n) # DraftPosition(p + 2, n)
    BY NotThreeInARow, SMT
  <2>2. QED
    BY <1>4, <1>8, <2>1
<1>10. D = C
  <2>1. p \in D /\ p + 1 \in D
    BY <1>2, <1>4, <1>8, SMT
  <2>2. \A k \in D : k \in {p, p + 1}
    BY <1>2, <1>4, <1>7, <1>9, SMT
  <2>3. QED
    BY <1>7, <2>1, <2>2
<1>11. Cardinality({k \in C : k <= p + 1}) = 2
  <2>1. {k \in C : k <= p + 1} = {p, p + 1}
    BY <1>7, SMT
  <2>2. Cardinality({p, p + 1}) = 2
    BY <1>7, PairHasTwo
  <2>3. QED
    BY <2>1, <2>2
<1>12. QED
  BY <1>8, <1>10, <1>11

\* The scan from a pick of the user stops at once.
LEMMA OnClock ==
    ASSUME NEW c \in Nat, NEW T \in Nat, NEW S, c \in S,
           \A k \in S : k \in c..T
    PROVE  Min(S) = c
<1>1. S \in SUBSET Nat /\ S # {}
  BY SMT
<1> DEFINE m == Min(S)
<1>2. m \in S /\ \A y \in S : m <= y
  BY <1>1, LeastElement
<1> HIDE DEF m
<1>3. m \in c..T /\ m <= c
  BY <1>2
<1>4. m = c
  BY <1>3, SMT
<1>5. QED
  BY <1>4 DEF m

\* The first pick of a turn of two leaves the user on the clock with the second.
THEOREM SecondPickFollows == Spec => SecondPickKeepsTurn
<1> DEFINE First == HasContext /\ IsUserOnClock /\ IsConsecutiveTurn
                      /\ TurnPickNumber = 1 /\ current' = current + 1
           Step == First => /\ HasContext'
                            /\ IsUserOnClock'
                            /\ TurnPickNumber' = 2
                            /\ ConsecutivePickOveralls' = ConsecutivePickOveralls
<1>1. TypeOK /\ [Next]_vars => Step
  <2> SUFFICES ASSUME TypeOK, [Next]_vars, First
               PROVE  /\ HasContext'
                      /\ IsUserOnClock'
                      /\ TurnPickNumber' = 2
                      /\ ConsecutivePickOveralls' = ConsecutivePickOveralls
    OBVIOUS
  <2> DEFINE n == teams
             r == rounds
             p == NextOverallPick
             C == ConsecutivePickOveralls
  <2>1. UNCHANGED <<teams, rounds, user>> /\ current' = current + 1
    BY DEF Next, Advance, StepBack, vars
  <2>2. /\ TotalPicks' = TotalPicks /\ TotalPicks = n * r
        /\ \A k : Position(k)' = Position(k)
        /\ \A k : Position(k) = DraftPosition(k, n)
    BY <2>1 DEF TotalPicks, Position
  <2>3. n \in Nat \ {0, 1} /\ r \in Nat
    BY SizeAssumption, SMT DEF TypeOK
  <2>4. /\ p \in 1..(n * r) /\ DraftPosition(p, n) = user
        /\ p = current /\ current \in Nat /\ n * r \in Nat
    <3>1. current \in Nat /\ TotalPicks \in Nat
      BY Sizes, SMT
    <3>2. p \in 1..TotalPicks /\ Position(p) = user
      BY NextPick
    <3> HIDE DEF p, n, r
    <3>3. p = current
      <4>1. p - current = 0 /\ p \in Int
        BY <3>2, SMT DEF IsUserOnClock, PicksUntil, p
      <4>2. QED
        BY <3>1, <4>1, SMT
    <3>4. QED
      BY <2>2, <3>1, <3>2, <3>3
  <2>5. C = NearPicks(p, user, n, n * r)
    <3>1. C = {k \in 1..(n * r) : \A j \in (k..p) \cup (p..k) : DraftPosition(j, n) = user}
      BY <2>2 DEF ConsecutivePickOveralls
    <3> HIDE DEF C, p, n, r
    <3>2. {k \in 1..(n * r) : \A j \in (k..p) \cup (p..k) : DraftPosition(j, n) = user}
            = NearPicks(p, user, n, n * r)
      BY <2>3, <2>4, TurnIsLocal
    <3>3. QED
      BY <3>1, <3>2
  <2>6. Cardinality(C) > 1 /\ Cardinality(UpTo(C, p)) = 1
    BY DEF IsConsecutiveTurn, TurnPickNumber, UpTo
  <2>7. /\ p + 1 \in 1..(n * r) /\ DraftPosition(p + 1, n) = user
        /\ NearPicks(p + 1, user, n, n * r) = C
        /\ Cardinality(UpTo(C, p + 1)) = 2
    <3> HIDE DEF C, p, n, r
    <3>1. /\ Cardinality(NearPicks(p, user, n, n * r)) > 1
          /\ Cardinality(UpTo(NearPicks(p, user, n, n * r), p)) = 1
      BY <2>5, <2>6
    <3>2. /\ p + 1 \in 1..(n * r) /\ DraftPosition(p + 1, n) = user
          /\ NearPicks(p + 1, user, n, n * r) = NearPicks(p, user, n, n * r)
          /\ Cardinality(UpTo(NearPicks(p, user, n, n * r), p + 1)) = 2
      BY <2>3, <2>4, <3>1, SecondOfTwo
    <3>3. QED
      BY <2>5, <3>2
  <2>8. HasContext' /\ NextOverallPick' = p + 1
    <3> DEFINE S == {k \in (p + 1)..(n * r) : DraftPosition(k, n) = user}
    <3>1. UserPicksAhead' = S
      BY <2>1, <2>2, <2>4 DEF UserPicksAhead
    <3> HIDE DEF p, n, r
    <3>2. p + 1 \in S /\ p + 1 \in Nat
      BY <2>4, <2>7, SMT
    <3>3. \A k \in S : k \in (p + 1)..(n * r)
      OBVIOUS
    <3> HIDE DEF S
    <3>4. Min(S) = p + 1
      BY <2>4, <3>2, <3>3, OnClock
    <3>5. QED
      BY <3>1, <3>2, <3>4 DEF HasContext, NextOverallPick
  <2>9. IsUserOnClock'
    <3>1. NextOverallPick' = current' /\ current' \in Nat
      BY <2>1, <2>4, <2>8, SMT
    <3>2. QED
      BY <3>1, SMT DEF IsUserOnClock, PicksUntil
  <2>10. ConsecutivePickOveralls' = C
    <3> DEFINE q == p + 1
    <3>1. ConsecutivePickOveralls'
            = {k \in 1..(n * r) : \A j \in (k..q) \cup (q..k) : DraftPosition(j, n) = user}
      BY <2>1, <2>2, <2>8 DEF ConsecutivePickOveralls
    <3> HIDE DEF C, p, n, r
    <3>2. q \in 1..(n * r) /\ DraftPosition(q, n) = user /\ NearPicks(q, user, n, n * r) = C
      BY <2>7
    <3> HIDE DEF q
    <3>3. {k \in 1..(n * r) : \A j \in (k..q) \cup (q..k) : DraftPosition(j, n) = user}
            = NearPicks(q, user, n, n * r)
      BY <2>3, <2>4, <3>2, TurnIsLocal
    <3>4. QED
      BY <3>1, <3>2, <3>3
  <2>11. TurnPickNumber' = 2
    BY <2>7, <2>8, <2>10 DEF TurnPickNumber, UpTo
  <2>12. QED
    BY <2>8, <2>9, <2>10, <2>11
<1>2. Spec => [][Step]_vars
  BY <1>1, TurnTypeCorrect, PTL DEF Spec
<1>3. QED
  BY <1>2 DEF SecondPickKeepsTurn
===============================================================================
