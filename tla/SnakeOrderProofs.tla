--------------------------- MODULE SnakeOrderProofs ---------------------------
(***************************************************************************)
(* What snake_pick_details computes, for every number of teams and rounds: *)
(* each round is a permutation of the teams, so that every team makes one  *)
(* pick per round.                                                         *)
(***************************************************************************)
EXTENDS SnakeOrder, FiniteSetTheorems, FunctionTheorems, TLAPS

\* snake_pick_details puts a team of the draft on the clock.
LEMMA DraftPositionIsATeam ==
    ASSUME NEW k \in Nat \ {0}, NEW n \in Nat \ {0}
    PROVE  DraftPosition(k, n) \in 1..n
<1>1. (k - 1) % n \in 0..(n - 1)
  BY SMT
<1>2. PickInRound(k, n) \in 1..n
  BY <1>1, SMT DEF PickInRound
<1>3. QED
  BY <1>2, SMT DEF DraftPosition

\* Quotient and remainder are determined by their equation.
LEMMA DivisionIsUnique ==
    ASSUME NEW a \in Nat, NEW b \in Nat \ {0}, NEW q \in Nat, NEW r \in 0..(b - 1),
           a = b * q + r
    PROVE  a \div b = q /\ a % b = r
<1> DEFINE p == a \div b
           s == a % b
<1>1. p \in Int /\ s \in 0..(b - 1) /\ a = b * p + s
  BY SMT
<1> HIDE DEF p, s
<1>2. b * (p - q) = r - s
  BY <1>1, SMT
<1>3. p - q \in Int /\ -b < r - s /\ r - s < b
  BY <1>1, SMT
<1>4. ASSUME p - q >= 1 PROVE FALSE
  <2>1. b * (p - q) >= b
    BY <1>3, <1>4, SMT
  <2>2. QED
    BY <1>2, <1>3, <2>1, SMT
<1>5. ASSUME p - q <= -1 PROVE FALSE
  <2>1. b * (p - q) <= -b
    BY <1>3, <1>5, SMT
  <2>2. QED
    BY <1>2, <1>3, <2>1, SMT
<1>6. p = q
  BY <1>1, <1>3, <1>4, <1>5, SMT
<1>7. s = r
  BY <1>1, <1>2, <1>6, SMT
<1>8. QED
  BY <1>6, <1>7 DEF p, s

\* The pick of team t in round i of n teams.
PickOf(t, i, n) == n * (i - 1) + (IF i % 2 = 1 THEN t ELSE n - t + 1)

\* It is a pick of the draft, of that round and by that team.
LEMMA PickOfIsRight ==
    ASSUME NEW n \in Nat \ {0}, NEW r \in Nat, NEW t \in 1..n, NEW i \in 1..r
    PROVE  /\ PickOf(t, i, n) \in 1..(n * r)
           /\ RoundNumber(PickOf(t, i, n), n) = i
           /\ DraftPosition(PickOf(t, i, n), n) = t
<1> DEFINE k == PickOf(t, i, n)
           m == IF i % 2 = 1 THEN t - 1 ELSE n - t
           q == i - 1
<1>1. q \in Nat /\ m \in 0..(n - 1) /\ i = q + 1 /\ r - i \in Nat
  BY SMT
<1>2. k - 1 = n * q + m /\ k \in Int
  BY SMT DEF PickOf
<1>3. m + 1 = (IF i % 2 = 1 THEN t ELSE n - t + 1)
  BY SMT
<1> HIDE DEF k, m, q
<1>4. n * q \in Nat /\ k - 1 \in Nat
  BY <1>1, <1>2, SMT
<1>5. (k - 1) \div n = q /\ (k - 1) % n = m
  BY <1>1, <1>2, <1>4, DivisionIsUnique
<1>6. RoundNumber(k, n) = i /\ PickInRound(k, n) = m + 1
  BY <1>1, <1>5 DEF RoundNumber, PickInRound
<1>7. DraftPosition(k, n) = t
  <2>1. DraftPosition(k, n) = IF i % 2 = 1 THEN m + 1 ELSE n - (m + 1) + 1
    BY <1>6 DEF DraftPosition
  <2>2. QED
    BY <1>3, <2>1, SMT
<1>8. k \in 1..(n * r)
  <2>1. n * (r - i) \in Nat /\ n * (r - i) = n * r - n * q - n
    BY <1>1, SMT
  <2>2. n * r \in Nat /\ n * q + n <= n * r
    BY <1>4, <2>1, SMT
  <2>3. QED
    BY <1>1, <1>2, <1>4, <2>2, SMT
<1>9. QED
  BY <1>6, <1>7, <1>8 DEF k

\* Conversely, a pick is the one its team makes in its round.
LEMMA PickIsOfItsTeam ==
    ASSUME NEW n \in Nat \ {0}, NEW r \in Nat, NEW k \in 1..(n * r)
    PROVE  /\ RoundNumber(k, n) \in 1..r
           /\ k = PickOf(DraftPosition(k, n), RoundNumber(k, n), n)
<1> DEFINE a == k - 1
           q == a \div n
           m == a % n
<1>1. n * r \in Nat
  BY SMT
<1>2. a \in Nat /\ a < n * r /\ k = a + 1
  BY <1>1, SMT
<1>3. q \in Nat /\ m \in 0..(n - 1) /\ a = n * q + m
  BY <1>2, SMT
<1>4. RoundNumber(k, n) = q + 1 /\ PickInRound(k, n) = m + 1
  BY DEF RoundNumber, PickInRound
<1> HIDE DEF a, q, m
<1>5. q < r
  <2>1. SUFFICES ASSUME q - r \in Nat PROVE FALSE
    BY <1>3, SMT
  <2>2. n * (q - r) \in Nat /\ n * (q - r) = n * q - n * r
    BY <1>3, <2>1, SMT
  <2>3. QED
    BY <1>1, <1>2, <1>3, <2>2, SMT
<1>6. k = PickOf(DraftPosition(k, n), q + 1, n)
  <2>1. DraftPosition(k, n) = IF (q + 1) % 2 = 1 THEN m + 1 ELSE n - (m + 1) + 1
    BY <1>4 DEF DraftPosition
  <2>2. PickOf(DraftPosition(k, n), q + 1, n) = n * q + (m + 1)
    <3>1. q + 1 - 1 = q
      BY <1>3, SMT
    <3>2. CASE (q + 1) % 2 = 1
      BY <2>1, <3>1, <3>2, <1>3, SMT DEF PickOf
    <3>3. CASE (q + 1) % 2 # 1
      <4>1. DraftPosition(k, n) = n - (m + 1) + 1
        BY <2>1, <3>3
      <4>2. PickOf(DraftPosition(k, n), q + 1, n) = n * q + (n - (n - (m + 1) + 1) + 1)
        <5>1. \A d \in Int : PickOf(d, q + 1, n) = n * q + (n - d + 1)
          BY <1>3, <3>1, <3>3, SMT DEF PickOf
        <5>2. n - (m + 1) + 1 \in Int
          BY <1>3, SMT
        <5>3. QED
          BY <4>1, <5>1, <5>2, Zenon
      <4>3. n - (n - (m + 1) + 1) + 1 = m + 1
        BY <1>3, SMT
      <4>4. QED
        BY <4>2, <4>3
    <3>4. QED
      BY <3>2, <3>3
  <2>3. QED
    BY <1>2, <1>3, <2>2, SMT
<1>7. QED
  BY <1>3, <1>4, <1>5, <1>6, SMT

\* Every team makes one pick per round: as many picks as the draft has rounds.
THEOREM OnePickPerRound ==
    ASSUME NEW n \in Nat \ {0}, NEW r \in Nat, NEW t \in 1..n
    PROVE  LET S == {k \in 1..(n * r) : DraftPosition(k, n) = t}
           IN IsFiniteSet(S) /\ Cardinality(S) = r
<1> DEFINE S == {k \in 1..(n * r) : DraftPosition(k, n) = t}
           f == [i \in 1..r |-> PickOf(t, i, n)]
<1>1. f \in [1..r -> S]
  BY PickOfIsRight
<1>2. \A i, j \in 1..r : f[i] = f[j] => i = j
  <2>1. \A i \in 1..r : RoundNumber(f[i], n) = i
    BY PickOfIsRight
  <2>2. QED
    BY <2>1
<1>3. \A k \in S : \E i \in 1..r : f[i] = k
  <2> SUFFICES ASSUME NEW k \in S PROVE \E i \in 1..r : f[i] = k
    OBVIOUS
  <2>1. k \in 1..(n * r) /\ DraftPosition(k, n) = t
    OBVIOUS
  <2>2. RoundNumber(k, n) \in 1..r /\ k = PickOf(t, RoundNumber(k, n), n)
    BY <2>1, PickIsOfItsTeam
  <2>3. QED
    BY <2>2
<1> HIDE DEF f, S
<1>4. ExistsBijection(1..r, S)
  <2>1. f \in Bijection(1..r, S)
    BY <1>1, <1>2, <1>3, Fun_IsBij
  <2>2. QED
    BY <2>1 DEF ExistsBijection
<1>5. IsFiniteSet(1..r) /\ Cardinality(1..r) = r
  BY FS_Interval, SMT
<1>6. IsFiniteSet(S) /\ Cardinality(S) = r
  BY <1>4, <1>5, FS_Bijection
<1>7. QED
  BY <1>6 DEF S

\* Each round puts every team on the clock.
LEMMA RoundIsPermutation ==
    ASSUME NEW n \in Nat \ {0}, NEW r \in Nat, NEW i \in 1..r
    PROVE  {DraftPosition(k, n) : k \in {j \in 1..(n * r) : RoundNumber(j, n) = i}} = 1..n
<1>1. ASSUME NEW k \in 1..(n * r) PROVE DraftPosition(k, n) \in 1..n
  <2>1. n * r \in Nat
    BY SMT
  <2>2. k \in Nat \ {0}
    BY <2>1, SMT
  <2>3. QED
    BY <2>2, DraftPositionIsATeam
<1>2. ASSUME NEW t \in 1..n
      PROVE  \E k \in {j \in 1..(n * r) : RoundNumber(j, n) = i} : DraftPosition(k, n) = t
  <2>1. /\ PickOf(t, i, n) \in 1..(n * r)
        /\ RoundNumber(PickOf(t, i, n), n) = i
        /\ DraftPosition(PickOf(t, i, n), n) = t
    BY PickOfIsRight
  <2>2. PickOf(t, i, n) \in {j \in 1..(n * r) : RoundNumber(j, n) = i}
    BY <2>1
  <2>3. QED
    BY <2>1, <2>2, Zenon
<1>3. QED
  BY <1>1, <1>2

\* A team picks twice in a row only at the end of a round ...
LEMMA NeighboursAreRoundEnds ==
    ASSUME NEW n \in Nat \ {0, 1}, NEW k \in Nat \ {0},
           DraftPosition(k, n) = DraftPosition(k + 1, n)
    PROVE  \E i \in Nat \ {0} : k = n * i
<1> DEFINE a == k - 1
           q == a \div n
           m == a % n
<1>1. a \in Nat /\ k = a + 1 /\ q \in Nat /\ m \in 0..(n - 1) /\ a = n * q + m
  BY SMT
<1>2. DraftPosition(k, n) = IF (q + 1) % 2 = 1 THEN m + 1 ELSE n - (m + 1) + 1
  BY DEF DraftPosition, RoundNumber, PickInRound
<1> HIDE DEF a, q, m
<1>3. CASE m = n - 1
  <2>1. k = n * (q + 1) /\ q + 1 \in Nat \ {0}
    BY <1>1, <1>3, SMT
  <2>2. QED
    BY <2>1
<1>4. CASE m # n - 1
  <2>1. m + 1 \in 0..(n - 1) /\ k = n * q + (m + 1)
    BY <1>1, <1>4, SMT
  <2>2. k \div n = q /\ k % n = m + 1
    <3> DEFINE w == m + 1
    <3>1. n \in Nat \ {0} /\ k \in Nat /\ w \in 0..(n - 1) /\ k = n * q + w
      BY <2>1, SMT
    <3> HIDE DEF w
    <3>2. k \div n = q /\ k % n = w
      BY <1>1, <3>1, DivisionIsUnique
    <3>3. QED
      BY <3>2 DEF w
  <2>3. (k + 1) - 1 = k
    BY SMT
  <2>4. RoundNumber(k + 1, n) = q + 1 /\ PickInRound(k + 1, n) = m + 2
    BY <1>1, <2>2, <2>3 DEF RoundNumber, PickInRound
  <2>5. DraftPosition(k + 1, n) = IF (q + 1) % 2 = 1 THEN m + 2 ELSE n - (m + 2) + 1
    BY <2>4 DEF DraftPosition
  <2>6. FALSE
    BY <1>1, <1>2, <2>5, SMT
  <2>7. QED
    BY <2>6
<1>5. QED
  BY <1>3, <1>4

\* ... and never three times.
LEMMA NotThreeInARow ==
    ASSUME NEW n \in Nat \ {0, 1}, NEW k \in Nat \ {0},
           DraftPosition(k, n) = DraftPosition(k + 1, n)
    PROVE  DraftPosition(k + 1, n) # DraftPosition(k + 2, n)
<1> SUFFICES ASSUME DraftPosition(k + 1, n) = DraftPosition(k + 2, n)
             PROVE  FALSE
  OBVIOUS
<1>1. PICK i \in Nat \ {0} : k = n * i
  BY NeighboursAreRoundEnds
<1>2. k + 1 \in Nat \ {0} /\ (k + 1) + 1 = k + 2
  BY SMT
<1>3. PICK j \in Nat \ {0} : k + 1 = n * j
  <2>1. DraftPosition(k + 1, n) = DraftPosition((k + 1) + 1, n)
    BY <1>2
  <2>2. QED
    BY <1>2, <2>1, NeighboursAreRoundEnds
<1>4. n * (j - i) = 1
  BY <1>1, <1>3, SMT
<1>5. CASE j - i >= 1
  <2>1. n * (j - i) >= n
    BY <1>5, SMT
  <2>2. QED
    BY <1>4, <2>1, SMT
<1>6. CASE j - i <= 0
  <2>1. n * (j - i) <= 0
    BY <1>6, SMT
  <2>2. QED
    BY <1>4, <2>1, SMT
<1>7. QED
  BY <1>5, <1>6, SMT
===============================================================================
