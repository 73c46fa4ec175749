------------------------- MODULE DraftAssistantProofs -------------------------
(***************************************************************************)
(* Proofs about DraftAssistant, for any leagues, projection pools, rosters *)
(* and drafts.                                                             *)
(*                                                                         *)
(* sorted() places an element after those whose keys precede its own       *)
(* (SortedByIsSorted), so taking an element out moves the later ones up by *)
(* one place and nothing else (RemovalShifts).  The keys of the valuations *)
(* are told apart by their ids (IsBoard), so this holds of every list the  *)
(* assistant builds: what it shows of a player can change with a pick only *)
(* by the place of the player taken (PickShifts).                          *)
(***************************************************************************)
EXTENDS DraftAssistant, FiniteSetTheorems, SequenceTheorems, WellFoundedInduction, TLAPS

-------------------------------------------------------------------------------
(* The order of sorted(): keys of the same length are compared from the left. *)

\* A set of numbers has a least one.
LEMMA LeastNumber ==
    ASSUME NEW S \in SUBSET Nat, S # {}
    PROVE  Min(S) \in S /\ \A y \in S : Min(S) <= y
<1>1. PICK x \in S : \A y \in S : ~ (<<y, x>> \in OpToRel(<, Nat))
  BY NatLessThanWellFounded, WFMin
<1>2. \A y, z \in Nat : y < z => <<y, z>> \in OpToRel(<, Nat)
  BY DEF OpToRel
<1>3. \A y \in S : x \in Nat /\ y \in Nat /\ ~(y < x)
  BY <1>1, <1>2
<1>4. \A y \in S : x <= y
  BY <1>3, SMT
<1>5. QED
  BY <1>4 DEF Min

\* No key precedes itself.
LEMMA PrecedesIrreflexive ==
    ASSUME NEW a \in Seq(Int)
    PROVE  ~Precedes(a, a)
<1>1. \A i \in DOMAIN a : a[i] \in Int
  OBVIOUS
<1>2. \A i \in DOMAIN a : ~(a[i] < a[i])
  BY <1>1, SMT
<1>3. QED
  BY <1>2 DEF Precedes

\* The smaller of the two places where the keys differ decides.
LEMMA PrecedesTransitive ==
    ASSUME NEW a \in Seq(Int), NEW b \in Seq(Int), NEW c \in Seq(Int),
           Precedes(a, b), Precedes(b, c)
    PROVE  Precedes(a, c)
<1>1. PICK i \in DOMAIN a \cap DOMAIN b : a[i] < b[i] /\ \A k \in 1..(i - 1) : a[k] = b[k]
  BY DEF Precedes
<1>2. PICK j \in DOMAIN b \cap DOMAIN c : b[j] < c[j] /\ \A k \in 1..(j - 1) : b[k] = c[k]
  BY DEF Precedes
<1>3. /\ Len(a) \in Nat /\ DOMAIN a = 1..Len(a) /\ \A k \in 1..Len(a) : a[k] \in Int
      /\ Len(b) \in Nat /\ DOMAIN b = 1..Len(b) /\ \A k \in 1..Len(b) : b[k] \in Int
      /\ Len(c) \in Nat /\ DOMAIN c = 1..Len(c) /\ \A k \in 1..Len(c) : c[k] \in Int
  OBVIOUS
<1> DEFINE m == IF i <= j THEN i ELSE j
<1>4. /\ i \in 1..Len(a) /\ i \in 1..Len(b) /\ j \in 1..Len(b) /\ j \in 1..Len(c)
  BY <1>3
<1>5. m \in 1..Len(a) /\ m \in 1..Len(b) /\ m \in 1..Len(c) /\ m <= i /\ m <= j
      /\ (m = i \/ m = j)
  <2>1. i \in Nat /\ j \in Nat
    BY <1>3, <1>4
  <2>2. CASE i <= j
    <3>1. m = i
      BY <2>2
    <3>2. QED
      BY <1>3, <1>4, <2>1, <2>2, <3>1
  <2>3. CASE ~(i <= j)
    <3>1. m = j
      BY <2>3
    <3>2. QED
      BY <1>3, <1>4, <2>1, <2>3, <3>1
  <2>4. QED
    BY <2>2, <2>3
<1>6. \A k \in 1..(m - 1) : a[k] = c[k]
  BY <1>1, <1>2, <1>4, <1>5, SMTT(30)
<1>7. a[m] < c[m]
  <2>1. CASE i < j
    <3>1. m = i /\ i \in 1..(j - 1)
      BY <2>1, <1>3, <1>4, SMT
    <3>2. QED
      BY <3>1, <1>1, <1>2
  <2>2. CASE j < i
    <3>1. m = j /\ j \in 1..(i - 1)
      BY <2>2, <1>3, <1>4, SMT
    <3>2. QED
      BY <3>1, <1>1, <1>2
  <2>3. CASE i = j
    <3>1. m = i /\ a[i] < b[i] /\ b[i] < c[i]
      BY <2>3, <1>1, <1>2, <1>4, SMT
    <3>2. a[i] \in Int /\ b[i] \in Int /\ c[i] \in Int
      BY <1>3, <1>4, <2>3
    <3>3. QED
      BY <3>1, <3>2, SMT
  <2>4. QED
    BY <2>1, <2>2, <2>3, <1>4, SMT
<1> HIDE DEF m
<1>8. QED
  BY <1>3, <1>5, <1>6, <1>7 DEF Precedes

\* Of two different keys of the same length one precedes the other.
LEMMA PrecedesTotal ==
    ASSUME NEW a \in Seq(Int), NEW b \in Seq(Int), Len(a) = Len(b), a # b
    PROVE  Precedes(a, b) \/ Precedes(b, a)
<1> DEFINE D == {k \in 1..Len(a) : a[k] # b[k]}
<1>1. Len(a) \in Nat /\ DOMAIN a = 1..Len(a) /\ DOMAIN b = 1..Len(a)
  OBVIOUS
<1>2. \A k \in 1..Len(a) : a[k] \in Int /\ b[k] \in Int
  OBVIOUS
<1>3. D # {}
  BY <1>1, SeqEqual
<1>4. D \in SUBSET Nat
  BY <1>1, SMT
<1>5. Min(D) \in D /\ \A y \in D : Min(D) <= y
  BY <1>3, <1>4, LeastNumber
<1> DEFINE i == Min(D)
<1> HIDE DEF i
<1>6. i \in 1..Len(a) /\ a[i] # b[i] /\ \A y \in D : i <= y
  BY <1>5 DEF i
<1>7. \A k \in 1..(i - 1) : k \in 1..Len(a) /\ k \notin D
  BY <1>1, <1>6, SMT
<1>8. \A k \in 1..(i - 1) : a[k] = b[k]
  BY <1>7
<1>9. a[i] < b[i] \/ b[i] < a[i]
  BY <1>2, <1>6, SMT
<1>10. QED
  BY <1>1, <1>6, <1>8, <1>9 DEF Precedes

\* At most one of two keys precedes the other.
LEMMA PrecedesAsymmetric ==
    ASSUME NEW a \in Seq(Int), NEW b \in Seq(Int), Precedes(a, b)
    PROVE  ~Precedes(b, a)
BY PrecedesTransitive, PrecedesIrreflexive

-------------------------------------------------------------------------------
(* Sorting. *)

\* A finite set whose elements have different keys of the same length.
Sortable(S, key) ==
    /\ IsFiniteSet(S)
    /\ \A x \in S : key[x] \in Seq(Int)
    /\ \A x, y \in S : Len(key[x]) = Len(key[y])
    /\ \A x, y \in S : key[x] = key[y] => x = y

Before(S, key, x) == {y \in S : Precedes(key[y], key[x])}

\* The place of an element is one more than the number of those before it.
PlaceIn(S, key, x) == 1 + Cardinality(Before(S, key, x))

\* What comes earlier has a smaller place, and every place is taken.
LEMMA PlacesAreRight ==
    ASSUME NEW S, NEW key, Sortable(S, key)
    PROVE  /\ Cardinality(S) \in Nat
           /\ \A x \in S : PlaceIn(S, key, x) \in 1..Cardinality(S)
           /\ \A x, y \in S : Precedes(key[x], key[y]) <=>
                                 PlaceIn(S, key, x) < PlaceIn(S, key, y)
           /\ \A x, y \in S : PlaceIn(S, key, x) = PlaceIn(S, key, y) => x = y
           /\ \A i \in 1..Cardinality(S) : \E x \in S : PlaceIn(S, key, x) = i
<1> DEFINE n == Cardinality(S)
           P(x) == PlaceIn(S, key, x)
<1>1. IsFiniteSet(S) /\ n \in Nat
  BY FS_CardinalityType DEF Sortable
<1>2. ASSUME NEW x \in S
      PROVE  /\ IsFiniteSet(Before(S, key, x)) /\ Cardinality(Before(S, key, x)) \in Nat
             /\ P(x) \in 1..n
  <2>1. key[x] \in Seq(Int)
    BY DEF Sortable
  <2>2. Before(S, key, x) \in SUBSET (S \ {x})
    BY <2>1, PrecedesIrreflexive DEF Before
  <2>3. IsFiniteSet(S \ {x}) /\ Cardinality(S \ {x}) = n - 1
    BY <1>1, FS_RemoveElement
  <2>4. IsFiniteSet(Before(S, key, x)) /\ Cardinality(Before(S, key, x)) <= n - 1
    BY <2>2, <2>3, FS_Subset
  <2>5. Cardinality(Before(S, key, x)) \in Nat
    BY <2>4, FS_CardinalityType
  <2> HIDE DEF n
  <2>6. QED
    BY <1>1, <2>4, <2>5, SMT DEF PlaceIn
<1>3. ASSUME NEW x \in S, NEW y \in S, Precedes(key[x], key[y])
      PROVE  P(x) < P(y)
  <2>1. /\ key[x] \in Seq(Int) /\ key[y] \in Seq(Int)
        /\ \A z \in S : key[z] \in Seq(Int)
    BY DEF Sortable
  <2>2. Before(S, key, x) \in SUBSET Before(S, key, y)
    BY <1>3, <2>1, PrecedesTransitive DEF Before
  <2>3. x \in Before(S, key, y) /\ x \notin Before(S, key, x)
    BY <1>3, <2>1, PrecedesIrreflexive DEF Before
  <2>4. Before(S, key, x) \in SUBSET (Before(S, key, y) \ {x})
    BY <2>2, <2>3
  <2>5. /\ IsFiniteSet(Before(S, key, y) \ {x})
        /\ Cardinality(Before(S, key, y) \ {x}) = Cardinality(Before(S, key, y)) - 1
    BY <1>2, <2>3, FS_RemoveElement
  <2>6. Cardinality(Before(S, key, x)) <= Cardinality(Before(S, key, y)) - 1
    BY <2>4, <2>5, FS_Subset
  <2>7. /\ Cardinality(Before(S, key, x)) \in Nat
        /\ Cardinality(Before(S, key, y)) \in Nat
    BY <1>2
  <2>8. QED
    BY <2>6, <2>7, SMT DEF PlaceIn
<1>4. \A x, y \in S : x = y \/ Precedes(key[x], key[y]) \/ Precedes(key[y], key[x])
  <2> SUFFICES ASSUME NEW x \in S, NEW y \in S, x # y
               PROVE  Precedes(key[x], key[y]) \/ Precedes(key[y], key[x])
    OBVIOUS
  <2>1. key[x] \in Seq(Int) /\ key[y] \in Seq(Int) /\ Len(key[x]) = Len(key[y])
        /\ key[x] # key[y]
    BY DEF Sortable
  <2>2. QED
    BY <2>1, PrecedesTotal
<1>5. \A x, y \in S : P(x) \in Int /\ P(y) \in Int
  BY <1>1, <1>2, SMT
<1> HIDE DEF P, n
<1>6. \A x, y \in S : Precedes(key[x], key[y]) <=> P(x) < P(y)
  <2> SUFFICES ASSUME NEW x \in S, NEW y \in S, P(x) < P(y)
               PROVE  Precedes(key[x], key[y])
    BY <1>3
  <2>1. x # y /\ ~(P(y) < P(x))
    BY <1>5, SMT
  <2>2. QED
    BY <2>1, <1>3, <1>4
<1>7. \A x, y \in S : P(x) = P(y) => x = y
  <2> SUFFICES ASSUME NEW x \in S, NEW y \in S, P(x) = P(y) PROVE x = y
    OBVIOUS
  <2>1. ~(P(x) < P(y)) /\ ~(P(y) < P(x))
    BY <1>5, SMT
  <2>2. QED
    BY <2>1, <1>4, <1>6
<1>8. \A i \in 1..n : \E x \in S : P(x) = i
  <2> DEFINE f == [x \in S |-> P(x)]
  <2>1. f \in Injection(S, 1..n)
    BY <1>2, <1>7 DEF Injection, IsInjective
  <2>2. IsFiniteSet(1..n) /\ Cardinality(1..n) = n
    BY <1>1, FS_Interval, SMT
  <2>3. f \in Surjection(S, 1..n)
    BY <2>1, <2>2, FS_Injection DEF n
  <2>4. QED
    BY <2>3 DEF Surjection
<1>9. QED
  BY <1>1, <1>2, <1>6, <1>7, <1>8 DEF P, n

\* SortedBy lists the set without repetition, in the order of the keys: an
\* element stands at its place.
LEMMA SortedByIsSorted ==
    ASSUME NEW S, NEW key, Sortable(S, key)
    PROVE  /\ Cardinality(S) \in Nat
           /\ SortedBy(S, key) \in Seq(S)
           /\ Len(SortedBy(S, key)) = Cardinality(S)
           /\ DOMAIN SortedBy(S, key) = 1..Cardinality(S)
           /\ \A i \in 1..Cardinality(S) :
                 SortedBy(S, key)[i] \in S /\ PlaceIn(S, key, SortedBy(S, key)[i]) = i
           /\ \A x \in S : /\ PlaceIn(S, key, x) \in 1..Cardinality(S)
                           /\ SortedBy(S, key)[PlaceIn(S, key, x)] = x
           /\ \A i, j \in 1..Cardinality(S) :
                 i < j <=> Precedes(key[SortedBy(S, key)[i]], key[SortedBy(S, key)[j]])
<1> DEFINE n == Cardinality(S)
           s == SortedBy(S, key)
<1>1. /\ n \in Nat
      /\ \A x \in S : PlaceIn(S, key, x) \in 1..n
      /\ \A x, y \in S : Precedes(key[x], key[y]) <=> PlaceIn(S, key, x) < PlaceIn(S, key, y)
      /\ \A x, y \in S : PlaceIn(S, key, x) = PlaceIn(S, key, y) => x = y
      /\ \A i \in 1..n : \E x \in S : PlaceIn(S, key, x) = i
  BY PlacesAreRight
<1> DEFINE place == [x \in S |-> 1 + Cardinality({y \in S : Precedes(key[y], key[x])})]
<1>2. \A x \in S : place[x] = PlaceIn(S, key, x)
  BY DEF PlaceIn, Before
<1>3. s = [i \in 1..n |-> CHOOSE x \in S : place[x] = i]
  BY DEF SortedBy
<1> HIDE DEF s, n, place
<1>4. \A i \in 1..n : s[i] \in S /\ PlaceIn(S, key, s[i]) = i
  <2> SUFFICES ASSUME NEW i \in 1..n PROVE s[i] \in S /\ PlaceIn(S, key, s[i]) = i
    OBVIOUS
  <2>1. \E x \in S : place[x] = i
    BY <1>1, <1>2 DEF n
  <2>2. s[i] \in S /\ place[s[i]] = i
    BY <2>1, <1>3
  <2>3. QED
    BY <2>2, <1>2
<1>5. s \in [1..n -> S]
  BY <1>3, <1>4
<1>6. s \in Seq(S) /\ Len(s) = n /\ DOMAIN s = 1..n
  BY <1>1, <1>5
<1>7. \A x \in S : s[PlaceIn(S, key, x)] = x
  BY <1>1, <1>4
<1>8. \A i, j \in 1..n : i < j <=> Precedes(key[s[i]], key[s[j]])
  BY <1>1, <1>4
<1>9. QED
  BY <1>1, <1>4, <1>6, <1>7, <1>8 DEF s, n

-------------------------------------------------------------------------------
(* Sums. A sum is counted: w[x] tokens for every x, less those of -w.      *)

Tokens(w, S) == UNION {{x} \X (1..w[x]) : x \in S}
Total(w, S) == Cardinality(Tokens(w, S)) - Cardinality(Tokens([x \in S |-> -w[x]], S))

\* Taking an element out takes its tokens out.
LEMMA TokensCount ==
    ASSUME NEW S, IsFiniteSet(S), NEW w, \A x \in S : w[x] \in Int
    PROVE  /\ IsFiniteSet(Tokens(w, S))
           /\ Cardinality(Tokens(w, S)) \in Nat
           /\ \A x \in S : Cardinality(Tokens(w, S)) =
                 (IF w[x] > 0 THEN w[x] ELSE 0) + Cardinality(Tokens(w, S \ {x}))
<1>1. ASSUME NEW x \in S
      PROVE  /\ IsFiniteSet({x} \X (1..w[x]))
             /\ Cardinality({x} \X (1..w[x])) = IF w[x] > 0 THEN w[x] ELSE 0
  <2>1. w[x] \in Int
    OBVIOUS
  <2>2. IsFiniteSet({x}) /\ Cardinality({x}) = 1
    BY FS_Singleton
  <2>3. IsFiniteSet(1..w[x]) /\ Cardinality(1..w[x]) = IF w[x] > 0 THEN w[x] ELSE 0
    BY <2>1, FS_Interval, SMT
  <2>4. /\ IsFiniteSet({x} \X (1..w[x]))
        /\ Cardinality({x} \X (1..w[x])) = 1 * Cardinality(1..w[x])
    BY <2>2, <2>3, FS_Product
  <2>5. QED
    BY <2>1, <2>3, <2>4, SMT
<1>2. ASSUME NEW R \in SUBSET S
      PROVE  IsFiniteSet(Tokens(w, R))
  <2> DEFINE F == [x \in R |-> {x} \X (1..w[x])]
             T == {{x} \X (1..w[x]) : x \in R}
  <2>1. IsFiniteSet(R)
    BY FS_Subset
  <2>2. F \in Surjection(R, T)
    BY DEF Surjection
  <2>3. IsFiniteSet(T)
    BY <2>1, <2>2, FS_Surjection
  <2>4. \A t \in T : IsFiniteSet(t)
    BY <1>1
  <2> HIDE DEF T
  <2>5. IsFiniteSet(UNION T)
    BY <2>3, <2>4, FS_UNION
  <2>6. QED
    BY <2>5 DEF Tokens, T
<1>3. ASSUME NEW x \in S
      PROVE  Cardinality(Tokens(w, S)) =
                 (IF w[x] > 0 THEN w[x] ELSE 0) + Cardinality(Tokens(w, S \ {x}))
  <2> DEFINE A == {x} \X (1..w[x])
             B == Tokens(w, S \ {x})
  <2>1. Tokens(w, S) = A \cup B
    BY DEF Tokens
  <2>2. A \cap B = {}
    BY DEF Tokens
  <2>3. IsFiniteSet(A) /\ Cardinality(A) = IF w[x] > 0 THEN w[x] ELSE 0
    BY <1>1
  <2>4. IsFiniteSet(B)
    BY <1>2
  <2> HIDE DEF A, B
  <2>5. Cardinality(A \cup B) = Cardinality(A) + Cardinality(B) - Cardinality({})
    BY <2>2, <2>3, <2>4, FS_Union
  <2>6. Cardinality({}) = 0 /\ Cardinality(A) \in Nat /\ Cardinality(B) \in Nat
    BY <2>3, <2>4, FS_EmptySet, FS_CardinalityType
  <2>7. Cardinality(A \cup B) = Cardinality(A) + Cardinality(B)
    BY <2>5, <2>6, SMT
  <2>8. QED
    BY <2>1, <2>3, <2>7 DEF B
<1>4. S \in SUBSET S
  OBVIOUS
<1>5. IsFiniteSet(Tokens(w, S)) /\ Cardinality(Tokens(w, S)) \in Nat
  BY <1>2, <1>4, FS_CardinalityType
<1>6. QED
  BY <1>3, <1>5

\* A total adds up, one element at a time.
LEMMA TotalAddsUp ==
    ASSUME NEW S, IsFiniteSet(S), NEW w, \A x \in S : w[x] \in Int
    PROVE  /\ Total(w, S) \in Int
           /\ S = {} => Total(w, S) = 0
           /\ \A x \in S : Total(w, S) = w[x] + Total(w, S \ {x})
<1> DEFINE v == [x \in S |-> -w[x]]
<1>1. \A x \in S : v[x] \in Int /\ v[x] = -w[x] /\ w[x] \in Int
  BY SMT
<1>2. \A R \in SUBSET S : Tokens([x \in R |-> -w[x]], R) = Tokens(v, R)
  BY DEF Tokens
<1> HIDE DEF v
<1>3. /\ Cardinality(Tokens(w, S)) \in Nat
      /\ \A x \in S : Cardinality(Tokens(w, S)) =
            (IF w[x] > 0 THEN w[x] ELSE 0) + Cardinality(Tokens(w, S \ {x}))
  BY TokensCount
<1>4. /\ Cardinality(Tokens(v, S)) \in Nat
      /\ \A x \in S : Cardinality(Tokens(v, S)) =
            (IF v[x] > 0 THEN v[x] ELSE 0) + Cardinality(Tokens(v, S \ {x}))
  BY <1>1, TokensCount
<1>5. Total(w, S) = Cardinality(Tokens(w, S)) - Cardinality(Tokens(v, S))
  BY <1>2 DEF Total
<1>6. S = {} => Total(w, S) = 0
  <2> SUFFICES ASSUME S = {} PROVE Total(w, S) = 0
    OBVIOUS
  <2>1. Tokens(w, S) = {} /\ Tokens(v, S) = {}
    BY DEF Tokens
  <2>2. QED
    BY <2>1, <1>5, FS_EmptySet, SMT
<1>7. ASSUME NEW x \in S PROVE Total(w, S) = w[x] + Total(w, S \ {x})
  <2> DEFINE R == S \ {x}
  <2>1. Total(w, R) = Cardinality(Tokens(w, R)) - Cardinality(Tokens(v, R))
    BY <1>2 DEF Total
  <2>2. IsFiniteSet(R) /\ \A y \in R : w[y] \in Int /\ v[y] \in Int
    BY <1>1, FS_RemoveElement
  <2> HIDE DEF R
  <2>3. Cardinality(Tokens(w, R)) \in Nat /\ Cardinality(Tokens(v, R)) \in Nat
    BY <2>2, TokensCount
  <2>4. /\ Cardinality(Tokens(w, S)) = (IF w[x] > 0 THEN w[x] ELSE 0) + Cardinality(Tokens(w, R))
        /\ Cardinality(Tokens(v, S)) = (IF v[x] > 0 THEN v[x] ELSE 0) + Cardinality(Tokens(v, R))
    BY <1>3, <1>4 DEF R
  <2>5. Total(w, S) = w[x] + Total(w, R)
    BY <1>1, <1>5, <2>1, <2>3, <2>4, SMT
  <2>6. QED
    BY <2>5 DEF R
<1>8. QED
  BY <1>3, <1>4, <1>5, <1>6, <1>7, SMT

\* A total depends on the values at its elements only.
LEMMA TotalIsLocal ==
    ASSUME NEW S, NEW w, NEW v, \A x \in S : w[x] = v[x]
    PROVE  Total(w, S) = Total(v, S)
<1>1. \A x \in S : -w[x] = -v[x]
  OBVIOUS
<1>2. Tokens(w, S) = Tokens(v, S)
  BY DEF Tokens
<1>3. [x \in S |-> -w[x]] = [x \in S |-> -v[x]]
  BY <1>1
<1>4. QED
  BY <1>2, <1>3 DEF Total

\* The recursion of SumFunction computes the total.
LEMMA SumIsTotal ==
    ASSUME NEW w, IsFiniteSet(DOMAIN w), \A x \in DOMAIN w : w[x] \in Int
    PROVE  SumFunction(w) = Total(w, DOMAIN w)
<1> DEFINE S == DOMAIN w
           pick(s) == CHOOSE x \in s : TRUE
           Fold(g) == [s \in SUBSET S |->
                          IF s = {} THEN 0 ELSE w[pick(s)] + g[s \ {pick(s)}]]
           iter == CHOOSE g : g = Fold(g)
           G == [s \in SUBSET S |-> Total(w, s)]
<1>1. SumFunction(w) = iter[S]
  BY DEF SumFunction, SumFunctionOnSet, FoldFunctionOnSet, MapThenFoldSet
<1>2. ASSUME NEW s \in SUBSET S
      PROVE  /\ s = {} => Total(w, s) = 0
             /\ s # {} => /\ pick(s) \in s
                          /\ s \ {pick(s)} \in SUBSET S
                          /\ Total(w, s) = w[pick(s)] + Total(w, s \ {pick(s)})
  <2>1. IsFiniteSet(s) /\ \A x \in s : w[x] \in Int
    BY FS_Subset
  <2>2. s # {} => pick(s) \in s
    OBVIOUS
  <2> HIDE DEF pick
  <2>3. QED
    BY <2>1, <2>2, TotalAddsUp
<1> HIDE DEF pick
<1>3. G = Fold(G)
  BY <1>2
<1>4. iter = Fold(iter)
  BY <1>3
<1> HIDE DEF iter
<1>5. \A s \in SUBSET S : iter[s] = Total(w, s)
  <2> DEFINE bad == {s \in SUBSET S : iter[s] # Total(w, s)}
  <2> SUFFICES ASSUME bad # {} PROVE FALSE
    OBVIOUS
  <2>1. IsWellFoundedOn(StrictSubsetOrdering(S), FiniteSubsetsOf(S))
    BY FS_StrictSubsetOrderingWellFounded
  <2>2. bad \subseteq FiniteSubsetsOf(S)
    BY FS_FiniteSubsetsOfFinite
  <2>3. PICK s \in bad : \A t \in bad : ~(<<t, s>> \in StrictSubsetOrdering(S))
    BY <2>1, <2>2, WFMin
  <2>4. s # {}
    BY <1>2, <1>4
  <2>5. /\ pick(s) \in s /\ s \ {pick(s)} \in SUBSET S
        /\ Total(w, s) = w[pick(s)] + Total(w, s \ {pick(s)})
    BY <1>2, <2>4
  <2>6. <<s \ {pick(s)}, s>> \in StrictSubsetOrdering(S)
    BY <2>5 DEF StrictSubsetOrdering
  <2>7. iter[s \ {pick(s)}] = Total(w, s \ {pick(s)})
    BY <2>3, <2>5, <2>6
  <2>8. iter[s] = w[pick(s)] + iter[s \ {pick(s)}]
    BY <1>4, <2>4
  <2>9. QED
    BY <2>5, <2>7, <2>8
<1>6. QED
  BY <1>1, <1>5

\* Numbers that are not negative have such a total.
LEMMA TotalIsNatural ==
    ASSUME NEW S, IsFiniteSet(S), NEW w, \A x \in S : w[x] \in Nat
    PROVE  Total(w, S) \in Nat
<1> DEFINE v == [x \in S |-> -w[x]]
<1>1. \A x \in S : 1..v[x] = {}
  OBVIOUS
<1>2. Tokens(v, S) = {}
  BY <1>1 DEF Tokens
<1>3. Cardinality(Tokens(w, S)) \in Nat
  BY TokensCount
<1>4. Total(w, S) = Cardinality(Tokens(w, S)) - Cardinality(Tokens(v, S))
  BY DEF Total
<1>5. QED
  BY <1>2, <1>3, <1>4, FS_EmptySet

-------------------------------------------------------------------------------
(* The valuations. *)

\* A draft has a whole number of rounds.
LEMMA RoundsAreWhole ==
    ASSUME NEW l \in Leagues
    PROVE  DraftRounds(l.slots) \in Nat /\ l.teams \in 2..30
<1> DEFINE w == [i \in {j \in DOMAIN l.slots : l.slots[j].key # "IR"} |-> l.slots[i].count]
<1>1. /\ l.teams \in 2..30
      /\ l.slots \in Seq([key : DOMAIN SlotPositions \cup {"IR"}, count : Nat])
  BY LeagueAssumption
<1>2. Len(l.slots) \in Nat /\ DOMAIN l.slots = 1..Len(l.slots)
  BY <1>1
<1>3. \A i \in DOMAIN l.slots : l.slots[i].count \in Nat
  <2> DEFINE R == [key : DOMAIN SlotPositions \cup {"IR"}, count : Nat]
  <2>1. l.slots \in Seq(R)
    BY <1>1
  <2>2. \A r \in R : r.count \in Nat
    OBVIOUS
  <2> HIDE DEF R
  <2>3. QED
    BY <2>1, <2>2, ElementOfSeq, <1>2
<1>4. IsFiniteSet(DOMAIN l.slots)
  BY <1>2, FS_Interval
<1>5. IsFiniteSet(DOMAIN w) /\ \A i \in DOMAIN w : w[i] \in Nat
  BY <1>3, <1>4, FS_Subset
<1> HIDE DEF w
<1>6. SumFunction(w) \in Nat
  BY <1>5, SumIsTotal, TotalIsNatural
<1>7. QED
  BY <1>1, <1>6 DEF DraftRounds, w

LEMMA StatsAreFinite == IsFiniteSet(Stats)
<1>1. Stats = {"fgm"} \cup ({"fga"} \cup ({"ftm"} \cup ({"fta"} \cup ({"rebounds"} \cup
              ({"assists"} \cup ({"steals"} \cup ({"blocks"} \cup ({"turnovers"} \cup
              ({"points"} \cup {})))))))))
  BY DEF Stats, ScoringKey
<1>2. \A S, x : IsFiniteSet(S) => IsFiniteSet({x} \cup S)
  BY FS_AddElement
<1>3. QED
  BY <1>1, <1>2, FS_EmptySet, Zenon

\* What a league pays for a stat is a number.
LEMMA WeightsAreNumbers ==
    ASSUME NEW l \in Leagues, NEW key
    PROVE  LeagueWeight(l.rules, key) \in Int
<1> DEFINE found == ConfiguredAliases(l.rules, key)
<1>1. \A stat \in DOMAIN l.rules : l.rules[stat] \in Int
  BY LeagueAssumption
<1>2. DOMAIN Aliases(key) \in SUBSET Nat
  BY DEF Aliases
<1>3. CASE found = {}
  BY <1>3 DEF LeagueWeight
<1>4. CASE found # {}
  <2>1. found \in SUBSET Nat
    BY <1>2 DEF ConfiguredAliases
  <2>2. Min(found) \in found
    BY <1>4, <2>1, LeastNumber
  <2>3. Aliases(key)[Min(found)] \in DOMAIN l.rules
    BY <2>2 DEF ConfiguredAliases
  <2>4. QED
    BY <1>1, <1>4, <2>3 DEF LeagueWeight
<1>5. QED
  BY <1>3, <1>4

\* The seed of a player has a name, points and points per game.
LEMMA SeedsAreNumbers ==
    ASSUME NEW l \in Leagues, NEW P \in Pools, NEW p \in DOMAIN P
    PROVE  /\ Seed(l, P, p).id = p
           /\ p \in Nat
           /\ Seed(l, P, p).name \in Int
           /\ Seed(l, P, p).fppg \in Int
           /\ Seed(l, P, p).pts \in Int
<1> DEFINE w == [stat \in Stats |-> Contribution(l.rules, P[p].line, stat)]
<1>1. /\ DOMAIN P \subseteq Nat
      /\ P[p].name \in Int /\ P[p].games \in Int
      /\ \A stat \in DOMAIN P[p].line : P[p].line[stat] \in Int
  BY PoolAssumption
<1>2. ASSUME NEW stat \in Stats PROVE w[stat] \in Int
  <2>1. LeagueWeight(l.rules, ScoringKey[stat]) \in Int
    BY WeightsAreNumbers
  <2>2. CASE stat \in DOMAIN P[p].line
    <3>1. P[p].line[stat] \in Int
      BY <1>1, <2>2
    <3>2. \A a, b \in Int : a * b \in Int
      OBVIOUS
    <3>3. P[p].line[stat] * LeagueWeight(l.rules, ScoringKey[stat]) \in Int
      BY <2>1, <3>1, <3>2
    <3>4. QED
      BY <2>2, <3>3 DEF Contribution
  <2>3. CASE stat \notin DOMAIN P[p].line
    BY <2>3 DEF Contribution
  <2>4. QED
    BY <2>2, <2>3
<1>3. DOMAIN w = Stats
  OBVIOUS
<1>4. FantasyPointsPerGame(l.rules, P[p].line) = SumFunction(w)
  BY DEF FantasyPointsPerGame
<1> HIDE DEF w
<1>5. SumFunction(w) \in Int
  BY <1>2, <1>3, StatsAreFinite, SumIsTotal, TotalAddsUp
<1>6. \A a, b \in Int : a * b \in Int
  OBVIOUS
<1>7. ProjectedFantasyPoints(l.rules, P[p].line, P[p].games) \in Int
  BY <1>1, <1>4, <1>5, <1>6 DEF ProjectedFantasyPoints
<1>8. QED
  BY <1>1, <1>4, <1>5, <1>7 DEF Seed

LEMMA FiniteImage ==
    ASSUME NEW S, IsFiniteSet(S), NEW f
    PROVE  IsFiniteSet({f[x] : x \in S})
<1> DEFINE g == [x \in S |-> f[x]]
           T == {f[x] : x \in S}
<1>1. g \in Surjection(S, T)
  BY DEF Surjection
<1>2. QED
  BY <1>1, FS_Surjection

Seeds(l, P) == {Seed(l, P, p) : p \in DOMAIN P}

LEMMA SeedsAreFinite ==
    ASSUME NEW l \in Leagues, NEW P \in Pools
    PROVE  /\ IsFiniteSet(Seeds(l, P))
           /\ \A s \in Seeds(l, P) : s.id \in DOMAIN P /\ s = Seed(l, P, s.id)
<1> DEFINE f == [p \in DOMAIN P |-> Seed(l, P, p)]
<1>1. IsFiniteSet(DOMAIN P)
  BY PoolAssumption
<1>2. Seeds(l, P) = {f[p] : p \in DOMAIN P}
  BY DEF Seeds
<1> HIDE DEF f
<1>3. IsFiniteSet(Seeds(l, P))
  BY <1>1, <1>2, FiniteImage
<1>4. QED
  BY <1>3, SeedsAreNumbers DEF Seeds

\* The candidates can be sorted.
LEMMA CandidatesAreSortable ==
    ASSUME NEW l \in Leagues, NEW P \in Pools
    PROVE  LET cands == Candidates(Seeds(l, P))
           IN  /\ Sortable(cands, [c \in cands |-> CandidateKey(c)])
               /\ \A c \in cands : c.pts \in Int
<1> DEFINE cands == Candidates(Seeds(l, P))
           key == [c \in cands |-> CandidateKey(c)]
           of == [s \in Seeds(l, P) |->
                    [id |-> s.id, name |-> s.name, pts |-> s.pts, fppg |-> s.fppg,
                     positions |-> s.positions]]
           some == {of[s] : s \in Seeds(l, P)}
<1>1. IsFiniteSet(cands)
  <2>1. IsFiniteSet(Seeds(l, P))
    BY SeedsAreFinite
  <2>2. cands \in SUBSET some
    BY DEF Candidates
  <2> HIDE DEF of, cands
  <2>3. IsFiniteSet(some)
    BY <2>1, FiniteImage
  <2>4. QED
    BY <2>2, <2>3, FS_Subset
<1>2. ASSUME NEW c \in cands
      PROVE  \E s \in Seeds(l, P) : c = of[s]
  BY DEF Candidates
<1>3. \A s \in Seeds(l, P) : /\ s.id \in Nat /\ s.name \in Int /\ s.pts \in Int /\ s.fppg \in Int
                             /\ s = Seed(l, P, s.id)
  BY SeedsAreFinite, SeedsAreNumbers
<1>4. ASSUME NEW c \in cands
      PROVE  /\ c.id \in Nat /\ c.name \in Int /\ c.pts \in Int /\ c.fppg \in Int
  BY <1>2, <1>3
<1>5. \A c, d \in cands : c.id = d.id => c = d
  BY <1>2, <1>3
<1> HIDE DEF cands, of
<1>6. ASSUME NEW c \in cands
      PROVE  key[c] \in Seq(Int) /\ Len(key[c]) = 4 /\ key[c][4] = c.id
  BY <1>4 DEF CandidateKey
<1>7. \A c, d \in cands : key[c] = key[d] => c = d
  BY <1>5, <1>6
<1> HIDE DEF key
<1>8. Sortable(cands, key)
  BY <1>1, <1>6, <1>7 DEF Sortable
<1>9. QED
  BY <1>4, <1>8 DEF cands, key

\* Where there are levels, a replacement has points.
LEMMA LevelsAreNumbers ==
    ASSUME NEW l \in Leagues, NEW P \in Pools,
           NEW levels,
           levels = CalculateReplacementLevels(Candidates(Seeds(l, P)), l.slots, l.teams),
           ~levels.failed
    PROVE  \A q \in BasePositions : levels.level[q].pts \in Int
<1> DEFINE cands == Candidates(Seeds(l, P))
           ordered == SortCandidates(cands)
           wanted == DemandedSlots(ActiveSlotDemand(l.slots, l.teams))
           assigned == OptimizedActiveAssignments(ordered, wanted)
           left == [q \in BasePositions |-> ReplacementAt(ordered, assigned, q)]
<1>1. /\ \A q \in BasePositions : left[q] # {}
      /\ levels.level = [q \in BasePositions |-> ordered[Min(left[q])]]
  <2>1. ~(wanted = <<>> \/ assigned = {} \/ \E q \in BasePositions : left[q] = {})
    BY DEF CalculateReplacementLevels
  <2>2. levels = [failed |-> FALSE, demand |-> ActiveSlotDemand(l.slots, l.teams),
                  target |-> DraftedPlayerTarget(l.slots, l.teams),
                  assigned |-> {ordered[i].id : i \in assigned},
                  level |-> [q \in BasePositions |-> ordered[Min(left[q])]]]
    BY <2>1 DEF CalculateReplacementLevels
  <2>3. QED
    BY <2>1, <2>2
<1>2. /\ Sortable(cands, [c \in cands |-> CandidateKey(c)])
      /\ \A c \in cands : c.pts \in Int
  BY CandidatesAreSortable
<1>3. DOMAIN ordered = 1..Cardinality(cands) /\ Cardinality(cands) \in Nat
      /\ \A i \in 1..Cardinality(cands) : ordered[i] \in cands
  BY <1>2, SortedByIsSorted DEF SortCandidates
<1> HIDE DEF cands, ordered, assigned, wanted
<1>4. ASSUME NEW q \in BasePositions
      PROVE  Min(left[q]) \in DOMAIN ordered
  <2>1. left[q] \in SUBSET (DOMAIN ordered)
    BY DEF ReplacementAt
  <2>2. left[q] \in SUBSET Nat
    BY <1>3, <2>1
  <2>3. Min(left[q]) \in left[q]
    BY <1>1, <2>2, LeastNumber
  <2>4. QED
    BY <2>1, <2>3
<1>5. QED
  BY <1>1, <1>2, <1>3, <1>4

LEMMA PlacesOfPositions ==
    \A q \in BasePositions :
        Place(BasePositionOrder, q) \in 1..5 /\ BasePositionOrder[Place(BasePositionOrder, q)] = q
<1>1. DOMAIN BasePositionOrder = 1..5
  BY DEF BasePositionOrder
<1>2. \A q \in BasePositions : \E i \in 1..5 : BasePositionOrder[i] = q
  <2>1. /\ BasePositionOrder[1] = "PG" /\ BasePositionOrder[2] = "SG"
        /\ BasePositionOrder[3] = "SF" /\ BasePositionOrder[4] = "PF"
        /\ BasePositionOrder[5] = "C"
    BY DEF BasePositionOrder
  <2>2. 1 \in 1..5 /\ 2 \in 1..5 /\ 3 \in 1..5 /\ 4 \in 1..5 /\ 5 \in 1..5
    OBVIOUS
  <2>3. QED
    BY <2>1, <2>2 DEF BasePositions
<1>3. QED
  BY <1>1, <1>2 DEF Place

LEMMA PositionsAreFinite == IsFiniteSet(BasePositions)
<1>1. BasePositions = {"PG"} \cup ({"SG"} \cup ({"SF"} \cup ({"PF"} \cup ({"C"} \cup {}))))
  BY DEF BasePositions
<1>2. \A S, x : IsFiniteSet(S) => IsFiniteSet({x} \cup S)
  BY FS_AddElement
<1>3. QED
  BY <1>1, <1>2, FS_EmptySet, Zenon

\* The best position is one of the player's.
LEMMA BestPositionIsOne ==
    ASSUME NEW vor, DOMAIN vor \subseteq BasePositions, DOMAIN vor # {},
           \A q \in DOMAIN vor : vor[q] \in Int
    PROVE  BestPosition(vor) \in DOMAIN vor
<1> DEFINE S == DOMAIN vor
           key == [q \in S |-> <<-vor[q], Place(BasePositionOrder, q)>>]
<1>1. IsFiniteSet(S)
  BY PositionsAreFinite, FS_Subset
<1>2. ASSUME NEW q \in S
      PROVE  key[q] \in Seq(Int) /\ Len(key[q]) = 2 /\ BasePositionOrder[key[q][2]] = q
  BY PlacesOfPositions
<1> HIDE DEF key
<1>3. Sortable(S, key)
  BY <1>1, <1>2 DEF Sortable
<1>4. Cardinality(S) \in Nat /\ Cardinality(S) # 0
  BY <1>1, FS_EmptySet, FS_CardinalityType
<1> HIDE DEF S
<1>5. 1 \in 1..Cardinality(S)
  BY <1>4, SMT
<1>6. SortedBy(S, key)[1] \in S
  BY <1>3, <1>5, SortedByIsSorted
<1>7. QED
  BY <1>6 DEF BestPosition, S, key

\* What the assistant needs of a valuation.
IsValuation(x) ==
    /\ x.id \in Nat /\ x.name \in Int /\ x.pts \in Int /\ x.fppg \in Int
    /\ DOMAIN x.vor \subseteq BasePositions
    /\ \A q \in DOMAIN x.vor : x.vor[q] \in Int
    /\ DOMAIN x.vor # {} => x.best \in DOMAIN x.vor

LEMMA ReadingIsValuation ==
    ASSUME NEW l \in Leagues, NEW P \in Pools, NEW p \in DOMAIN P, NEW level,
           \A q \in BasePositions : level[q].pts \in Int
    PROVE  /\ IsValuation(ReadSeed(Seed(l, P, p), level))
           /\ ReadSeed(Seed(l, P, p), level).id = p
<1> DEFINE s == Seed(l, P, p)
           vor == [q \in s.positions \cap BasePositions |-> s.pts - level[q].pts]
           x == ReadSeed(s, level)
<1>1. s.id = p /\ s.id \in Nat /\ s.name \in Int /\ s.pts \in Int /\ s.fppg \in Int
  BY SeedsAreNumbers
<1> HIDE DEF s
<1>2. /\ x.id = s.id /\ x.name = s.name /\ x.pts = s.pts /\ x.fppg = s.fppg /\ x.vor = vor
      /\ x.best = IF DOMAIN vor = {} THEN "" ELSE BestPosition(vor)
  BY DEF ReadSeed
<1>3. DOMAIN vor \subseteq BasePositions /\ \A q \in DOMAIN vor : vor[q] \in Int
  <2>1. ASSUME NEW q \in DOMAIN vor PROVE vor[q] \in Int
    <3>1. vor[q] = s.pts - level[q].pts /\ level[q].pts \in Int
      OBVIOUS
    <3>2. \A a, b \in Int : a - b \in Int
      OBVIOUS
    <3>3. QED
      BY <1>1, <3>1, <3>2
  <2>2. QED
    BY <2>1
<1> HIDE DEF vor, x
<1>4. DOMAIN vor # {} => BestPosition(vor) \in DOMAIN vor
  BY <1>3, BestPositionIsOne
<1>5. IsValuation(x) /\ x.id = p
  BY <1>1, <1>2, <1>3, <1>4 DEF IsValuation
<1>6. QED
  BY <1>5 DEF x, s

\* A board of valuations: one per player of the pool, ranked without ties
\* where it has a value.
IsBoard(items, P) ==
    /\ IsFiniteSet(items)
    /\ \A x \in items : /\ IsValuation(x)
                        /\ x.id \in DOMAIN P /\ x.positions = P[x.id].positions
                        /\ x.rank \in Nat
                        /\ x.rank = 0 <=> DOMAIN x.vor = {}
                        /\ \A q \in DOMAIN x.vor : x.positionRank[q] \in Nat
    /\ \A x, y \in items : x.id = y.id => x = y
    /\ \A x, y \in items : x.rank = y.rank /\ x.rank # 0 => x = y
    /\ \A p \in DOMAIN P : \E x \in items : x.id = p

\* What _assign_ranks works on: valuations of different players.
Columns == {"id", "name", "positions", "fppg", "pts", "vor", "best", "rank", "positionRank"}
IsReading(items, P) ==
    /\ IsFiniteSet(items)
    /\ \A x \in items : /\ IsValuation(x) /\ Columns \subseteq DOMAIN x
                        /\ x.id \in DOMAIN P /\ x.positions = P[x.id].positions
    /\ \A x, y \in items : x.id = y.id => x = y
    /\ \A p \in DOMAIN P : \E x \in items : x.id = p

\* Readings can be sorted by overall value.
LEMMA OverallIsSortable ==
    ASSUME NEW P, NEW items, IsReading(items, P)
    PROVE  Sortable(items, [x \in items |-> OverallRankKey(x)])
<1> DEFINE key == [x \in items |-> OverallRankKey(x)]
<1>1. ASSUME NEW x \in items
      PROVE  key[x] \in Seq(Int) /\ Len(key[x]) = 6 /\ key[x][6] = x.id
  <2> DEFINE a == Flag(~HasValue(x))
             b == IF HasValue(x) THEN -OrLowest(OverallVor(x)) ELSE 999999999
  <2>1. IsValuation(x)
    BY DEF IsReading
  <2>2. a \in Int
    BY DEF Flag
  <2>3. b \in Int
    <3>1. HasValue(x) => OverallVor(x) \in Int
      BY <2>1 DEF HasValue, OverallVor, IsValuation
    <3>2. QED
      BY <3>1 DEF OrLowest
  <2> DEFINE c == -x.pts
             d == -x.fppg
  <2>4. c \in Int /\ d \in Int /\ x.name \in Int /\ x.id \in Int
    BY <2>1 DEF IsValuation
  <2>5. key[x] = <<a, b, c, d, x.name, x.id>>
    BY DEF OverallRankKey
  <2> HIDE DEF a, b, c, d, key
  <2>6. QED
    BY <2>2, <2>3, <2>4, <2>5
<1> HIDE DEF key
<1>2. \A x, y \in items : key[x] = key[y] => x = y
  BY <1>1 DEF IsReading
<1>3. IsFiniteSet(items)
  BY DEF IsReading
<1>4. Sortable(items, key)
  BY <1>1, <1>2, <1>3 DEF Sortable
<1>5. QED
  BY <1>4 DEF key

\* Ranking makes a board of readings.
LEMMA RankingMakesBoard ==
    ASSUME NEW P, NEW items, IsReading(items, P)
    PROVE  IsBoard(AssignRanks(items), P)
<1> DEFINE overall == [x \in items |-> OverallRankKey(x)]
           at(q) == {x \in items : q \in DOMAIN x.vor}
           positional == [q \in BasePositions |-> [x \in at(q) |-> PositionRankKey(x, q)]]
           rank == [x \in items |-> IF HasValue(x) THEN RankIn(items, overall, x) ELSE 0]
           atPos == [x \in items |-> [q \in DOMAIN x.vor |-> RankIn(at(q), positional[q], x)]]
           r == [x \in items |-> [x EXCEPT !.rank = rank[x], !.positionRank = atPos[x]]]
<1>1. AssignRanks(items) = {r[x] : x \in items}
  BY DEF AssignRanks
<1>2. /\ Sortable(items, overall) /\ IsFiniteSet(items)
      /\ \A x, y \in items : x.id = y.id => x = y
      /\ \A p \in DOMAIN P : \E x \in items : x.id = p
      /\ \A x \in items : /\ IsValuation(x) /\ x.id \in DOMAIN P
                          /\ x.positions = P[x.id].positions
  BY OverallIsSortable DEF IsReading
<1>3. ASSUME NEW x \in items
      PROVE  HasValue(x) => rank[x] = PlaceIn(items, overall, x)
  BY DEF RankIn, PlaceIn, Before
<1>4. ASSUME NEW x \in items
      PROVE  rank[x] \in Nat /\ (rank[x] = 0 <=> ~HasValue(x))
  <2>1. PlaceIn(items, overall, x) \in 1..Cardinality(items) /\ Cardinality(items) \in Nat
    BY <1>2, PlacesAreRight
  <2>2. ~HasValue(x) => rank[x] = 0
    OBVIOUS
  <2> HIDE DEF rank, overall
  <2>3. QED
    BY <1>3, <2>1, <2>2, SMT
<1>5. ASSUME NEW x \in items, NEW y \in items, rank[x] = rank[y], rank[x] # 0
      PROVE  x = y
  <2>1. HasValue(x) /\ HasValue(y)
    BY <1>4, <1>5
  <2> HIDE DEF rank, overall
  <2>2. PlaceIn(items, overall, x) = PlaceIn(items, overall, y)
    BY <1>3, <1>5, <2>1
  <2>3. QED
    BY <1>2, <2>2, PlacesAreRight
<1>6. ASSUME NEW x \in items, NEW q \in DOMAIN x.vor
      PROVE  atPos[x][q] \in Nat
  <2> DEFINE before == {y \in at(q) : Precedes(positional[q][y], positional[q][x])}
  <2>1. before \in SUBSET items
    OBVIOUS
  <2>2. Cardinality(before) \in Nat
    BY <1>2, <2>1, FS_Subset, FS_CardinalityType
  <2>3. atPos[x][q] = 1 + Cardinality(before)
    BY DEF RankIn
  <2> HIDE DEF before
  <2>4. QED
    BY <2>2, <2>3
<1>7. ASSUME NEW x \in items
      PROVE  /\ r[x].id = x.id /\ r[x].name = x.name /\ r[x].pts = x.pts /\ r[x].fppg = x.fppg
             /\ r[x].vor = x.vor /\ r[x].best = x.best /\ r[x].positions = x.positions
             /\ r[x].rank = rank[x] /\ r[x].positionRank = atPos[x]
  <2>1. Columns \subseteq DOMAIN x
    BY DEF IsReading
  <2> HIDE DEF rank, atPos
  <2>2. r[x] = [x EXCEPT !.rank = rank[x], !.positionRank = atPos[x]]
    OBVIOUS
  <2> HIDE DEF r
  <2>3. QED
    BY <2>1, <2>2 DEF Columns
<1> HIDE DEF r
<1>8. ASSUME NEW x \in items
      PROVE  /\ IsValuation(r[x]) /\ r[x].id \in DOMAIN P /\ r[x].rank \in Nat
             /\ r[x].positions = P[r[x].id].positions
             /\ r[x].rank = 0 <=> DOMAIN r[x].vor = {}
             /\ \A q \in DOMAIN r[x].vor : r[x].positionRank[q] \in Nat
  <2> HIDE DEF rank, atPos
  <2>1. IsValuation(x) /\ x.id \in DOMAIN P /\ x.positions = P[x.id].positions
    BY <1>2
  <2>2. QED
    BY <1>4, <1>6, <1>7, <2>1 DEF IsValuation, HasValue
<1> HIDE DEF rank, atPos, overall, positional, at
<1>9. IsFiniteSet({r[x] : x \in items})
  BY <1>2, FiniteImage
<1>10. \A x, y \in items : r[x].id = r[y].id => r[x] = r[y]
  BY <1>2, <1>7
<1>11. \A x, y \in items : r[x].rank = r[y].rank /\ r[x].rank # 0 => r[x] = r[y]
  BY <1>5, <1>7
<1>12. \A p \in DOMAIN P : \E x \in items : r[x].id = p
  BY <1>2, <1>7
<1>13. QED
  BY <1>1, <1>8, <1>9, <1>10, <1>11, <1>12 DEF IsBoard

\* The board is computed or refused; a computed one values every player.
LEMMA SnapshotIsBoard ==
    ASSUME NEW l \in Leagues, NEW P \in Pools, ~ValuationSnapshot(l, P).failed
    PROVE  IsBoard(ValuationSnapshot(l, P).items, P)
<1> DEFINE levels == CalculateReplacementLevels(Candidates(Seeds(l, P)), l.slots, l.teams)
           items == {ReadSeed(s, levels.level) : s \in Seeds(l, P)}
           read == [s \in Seeds(l, P) |-> ReadSeed(s, levels.level)]
<1>1. ~levels.failed /\ ValuationSnapshot(l, P).items = AssignRanks(items)
  <2>1. CASE levels.failed
    BY <2>1 DEF ValuationSnapshot, Seeds
  <2>2. CASE ~levels.failed
    BY <2>2 DEF ValuationSnapshot, Seeds
  <2>3. QED
    BY <2>1, <2>2
<1>2. \A q \in BasePositions : levels.level[q].pts \in Int
  BY <1>1, LevelsAreNumbers
<1> HIDE DEF levels
<1>3. items = {read[s] : s \in Seeds(l, P)}
  OBVIOUS
<1>4. ASSUME NEW s \in Seeds(l, P)
      PROVE  /\ IsValuation(read[s]) /\ read[s].id = s.id /\ s.id \in DOMAIN P
             /\ Columns \subseteq DOMAIN read[s] /\ read[s].positions = P[s.id].positions
  <2>1. s.id \in DOMAIN P /\ s = Seed(l, P, s.id)
    BY SeedsAreFinite
  <2>2. IsValuation(read[s]) /\ read[s].id = s.id
    BY <1>2, <2>1, ReadingIsValuation
  <2>3. Columns \subseteq DOMAIN read[s]
    BY DEF ReadSeed, Columns
  <2>4. read[s].positions = P[s.id].positions
    <3>1. \A p : Seed(l, P, p).positions = P[p].positions
      BY DEF Seed
    <3>2. read[s].positions = s.positions
      BY DEF ReadSeed
    <3>3. QED
      BY <2>1, <3>1, <3>2
  <2>5. QED
    BY <2>1, <2>2, <2>3, <2>4
<1>5. \A p \in DOMAIN P : Seed(l, P, p) \in Seeds(l, P) /\ Seed(l, P, p).id = p
  BY SeedsAreNumbers DEF Seeds
<1>6. \A s, t \in Seeds(l, P) : s.id = t.id => s = t
  BY SeedsAreFinite
<1> HIDE DEF read, items
<1>7. IsFiniteSet(items)
  BY <1>3, SeedsAreFinite, FiniteImage
<1>8. \A x \in items : \E s \in Seeds(l, P) : x = read[s]
  BY <1>3
<1>9. \A x, y \in items : x.id = y.id => x = y
  BY <1>4, <1>6, <1>8
<1>10. \A p \in DOMAIN P : \E x \in items : x.id = p
  BY <1>3, <1>4, <1>5
<1>11. IsReading(items, P)
  BY <1>4, <1>7, <1>8, <1>9, <1>10 DEF IsReading
<1>12. QED
  BY <1>1, <1>11, RankingMakesBoard

-------------------------------------------------------------------------------
(* The invariant. *)

\* The terms and the board of the draft stand, and the picks are different
\* players of the pool.
Inv ==
    /\ league \in Leagues /\ pool \in Pools /\ user \in 1..league.teams
    /\ board = ValuationSnapshot(league, pool)
    /\ picks \in Seq(DOMAIN pool)
    /\ \A i, j \in DOMAIN picks : picks[i] = picks[j] => i = j
    /\ Len(picks) <= league.teams * DraftRounds(league.slots)

LEMMA RoundsOfTheLeague ==
    ASSUME league \in Leagues
    PROVE  league.teams * DraftRounds(league.slots) \in Nat
<1>1. \A a, b \in Nat : a * b \in Nat
  OBVIOUS
<1>2. league.teams \in Nat /\ DraftRounds(league.slots) \in Nat
  BY RoundsAreWhole
<1>3. QED
  BY <1>1, <1>2

\* Nobody is picked twice.
LEMMA PickableIsNew ==
    ASSUME NEW p \in Pickable
    PROVE  p \in DOMAIN pool \ Range(picks)
BY DEF Pickable

\* The board stays the valuation of the league's pool and the picks are distinct
\* players of it (create_pick, undo_latest_pick), for every league, pool and seat.
THEOREM InvHolds == Spec => []Inv
<1>1. Init => Inv
  <2> SUFFICES ASSUME Init PROVE Inv
    OBVIOUS
  <2>1. picks = <<>> /\ <<>> \in Seq(DOMAIN pool) /\ Len(picks) = 0 /\ DOMAIN picks = {}
    BY EmptySeq DEF Init
  <2>2. 0 <= league.teams * DraftRounds(league.slots)
    BY RoundsOfTheLeague DEF Init
  <2>3. QED
    BY <2>1, <2>2 DEF Init, Inv
<1>2. Inv /\ [Next]_vars => Inv'
  <2> SUFFICES ASSUME Inv, [Next]_vars PROVE Inv'
    OBVIOUS
  <2>1. CASE UNCHANGED vars
    BY <2>1 DEF Inv, vars
  <2>2. ASSUME NEW p \in Pickable, Draft(p)
        PROVE  Inv'
    <3>1. /\ picks' = Append(picks, p)
          /\ league' = league /\ pool' = pool /\ user' = user /\ board' = board
      BY <2>2 DEF Draft
    <3>2. p \in DOMAIN pool /\ p \notin Range(picks)
      BY PickableIsNew
    <3>3. /\ picks' \in Seq(DOMAIN pool) /\ Len(picks') = Len(picks) + 1
          /\ \A i \in 1..Len(picks) : picks'[i] = picks[i]
          /\ picks'[Len(picks) + 1] = p
      BY <3>1, <3>2, AppendProperties DEF Inv
    <3>4. /\ Len(picks) \in Nat /\ DOMAIN picks = 1..Len(picks)
          /\ DOMAIN picks' = 1..(Len(picks) + 1)
      BY <3>3 DEF Inv
    <3>5. \A i \in 1..Len(picks) : picks[i] # p
      BY <3>2, <3>4 DEF Range
    <3>6. \A i \in 1..(Len(picks) + 1) : i \in 1..Len(picks) \/ i = Len(picks) + 1
      BY <3>4
    <3>7. \A i, j \in DOMAIN picks' : picks'[i] = picks'[j] => i = j
      BY <3>3, <3>4, <3>5, <3>6 DEF Inv
    <3>8. Len(picks) < league.teams * DraftRounds(league.slots)
      BY <2>2 DEF Draft, Turn!TotalPicks
    <3>9. league.teams * DraftRounds(league.slots) \in Nat
      BY RoundsOfTheLeague DEF Inv
    <3>10. Len(picks') <= league.teams * DraftRounds(league.slots)
      BY <3>3, <3>4, <3>8, <3>9
    <3>11. QED
      BY <3>1, <3>3, <3>7, <3>10 DEF Inv
  <2>3. CASE Undo
    <3>1. /\ picks # <<>> /\ picks' = Front(picks)
          /\ league' = league /\ pool' = pool /\ user' = user /\ board' = board
      BY <2>3 DEF Undo
    <3> DEFINE n == Len(picks)
    <3>2. picks \in Seq(DOMAIN pool) /\ n \in Nat /\ DOMAIN picks = 1..n /\ n # 0
      BY <3>1, EmptySeq DEF Inv
    <3>3. picks' = SubSeq(picks, 1, n - 1)
      BY <3>1 DEF Front
    <3>4. \A i \in 1..(n - 1) : picks[i] \in DOMAIN pool
      BY <3>2
    <3>5. /\ picks' \in Seq(DOMAIN pool) /\ Len(picks') = n - 1
          /\ \A i \in 1..(n - 1) : picks'[i] = picks[i]
      <4> HIDE DEF n
      <4>1. n - 1 \in Int /\ 1 \in Int /\ (1 <= n - 1 \/ n - 1 = 0)
        BY <3>2
      <4>2. /\ SubSeq(picks, 1, n - 1) \in Seq(DOMAIN pool)
            /\ Len(SubSeq(picks, 1, n - 1)) = IF 1 <= n - 1 THEN (n - 1) - 1 + 1 ELSE 0
            /\ \A i \in 1..((n - 1) - 1 + 1) : SubSeq(picks, 1, n - 1)[i] = picks[1 + i - 1]
        BY <3>4, <4>1, SubSeqProperties
      <4>3. (n - 1) - 1 + 1 = n - 1 /\ \A i \in Int : 1 + i - 1 = i
        BY <3>2
      <4>4. QED
        BY <3>3, <4>1, <4>2, <4>3
    <3>6. DOMAIN picks' = 1..(n - 1) /\ \A i \in 1..(n - 1) : i \in 1..n
      BY <3>2, <3>5
    <3>7. \A i, j \in DOMAIN picks' : picks'[i] = picks'[j] => i = j
      BY <3>2, <3>5, <3>6 DEF Inv
    <3>8. league.teams * DraftRounds(league.slots) \in Nat
      BY RoundsOfTheLeague DEF Inv
    <3>9. Len(picks') <= league.teams * DraftRounds(league.slots)
      BY <3>2, <3>5, <3>8 DEF Inv
    <3>10. QED
      BY <3>1, <3>5, <3>7, <3>9 DEF Inv
  <2>4. QED
    BY <2>1, <2>2, <2>3 DEF Next
<1>3. QED
  BY <1>1, <1>2, PTL DEF Spec

-------------------------------------------------------------------------------
(* Best available. *)

Undrafted(taken) == {x \in board.items : x.id \notin Range(taken)}
BestKeys(U) == [x \in U |-> BestAvailableKey(x)]

LEMMA BoardHolds ==
    ASSUME Inv, ~board.failed
    PROVE  IsBoard(board.items, pool)
BY SnapshotIsBoard DEF Inv

LEMMA BestKeyIsNumbers ==
    ASSUME NEW P, NEW items, IsBoard(items, P), NEW x \in items
    PROVE  /\ BestAvailableKey(x) \in Seq(Int) /\ Len(BestAvailableKey(x)) = 5
           /\ BestAvailableKey(x)[1] = Flag(x.rank = 0)
           /\ BestAvailableKey(x)[2] = x.rank
           /\ BestAvailableKey(x)[5] = x.id
<1>1. IsValuation(x) /\ x.rank \in Nat
  BY DEF IsBoard
<1> DEFINE a == Flag(x.rank = 0)
           b == -x.pts
<1>2. a \in Int
  BY DEF Flag
<1>3. b \in Int /\ x.rank \in Int /\ x.name \in Int /\ x.id \in Int
  BY <1>1 DEF IsValuation
<1>4. BestAvailableKey(x) = <<a, x.rank, b, x.name, x.id>>
  BY DEF BestAvailableKey
<1> HIDE DEF a, b
<1>5. QED
  BY <1>2, <1>3, <1>4 DEF a

\* Any part of a board can be sorted by the best-available key.
LEMMA BestAvailableSortable ==
    ASSUME NEW P, NEW items, IsBoard(items, P), NEW U \in SUBSET items
    PROVE  Sortable(U, BestKeys(U))
<1>1. IsFiniteSet(U)
  BY FS_Subset DEF IsBoard
<1>2. ASSUME NEW x \in U
      PROVE  /\ BestKeys(U)[x] \in Seq(Int) /\ Len(BestKeys(U)[x]) = 5
             /\ BestKeys(U)[x][5] = x.id
  BY BestKeyIsNumbers DEF BestKeys
<1>3. \A x, y \in U : BestKeys(U)[x] = BestKeys(U)[y] => x = y
  BY <1>2 DEF IsBoard
<1>4. QED
  BY <1>1, <1>2, <1>3 DEF Sortable

LEMMA AvailableIsSorted ==
    ASSUME Inv, ~board.failed, NEW taken
    PROVE  /\ Sortable(Undrafted(taken), BestKeys(Undrafted(taken)))
           /\ Available(taken) = SortedBy(Undrafted(taken), BestKeys(Undrafted(taken)))
<1>1. Undrafted(taken) \in SUBSET board.items
  BY DEF Undrafted
<1>2. Sortable(Undrafted(taken), BestKeys(Undrafted(taken)))
  BY <1>1, BoardHolds, BestAvailableSortable
<1>3. QED
  BY <1>2 DEF Available, Undrafted, BestKeys

\* A key that starts like these two orders ranked players by their ranks, and
\* before the others.
LEMMA RankedComeFirst ==
    ASSUME NEW P, NEW items, IsBoard(items, P), NEW U \in SUBSET items, NEW key,
           \A x \in U : /\ key[x] \in Seq(Int) /\ Len(key[x]) >= 2
                        /\ key[x][1] = Flag(x.rank = 0) /\ key[x][2] = x.rank,
           NEW x \in U, x.rank # 0
    PROVE  Before(U, key, x) = {y \in U : y.rank # 0 /\ y.rank < x.rank}
<1> SUFFICES ASSUME NEW y \in U
             PROVE  Precedes(key[y], key[x]) <=> (y.rank # 0 /\ y.rank < x.rank)
  BY DEF Before
<1> DEFINE a == key[y]
           b == key[x]
<1>1. /\ x.rank \in Nat /\ y.rank \in Nat
      /\ x.rank = y.rank => x = y
  BY DEF IsBoard
<1>2. /\ a \in Seq(Int) /\ b \in Seq(Int) /\ Len(a) >= 2 /\ Len(b) >= 2
      /\ b[1] = 0 /\ b[2] = x.rank /\ a[2] = y.rank
      /\ a[1] = IF y.rank = 0 THEN 1 ELSE 0
  BY DEF Flag
<1>3. x = y => a = b
  OBVIOUS
<1> HIDE DEF a, b
<1>4. /\ Len(a) \in Nat /\ Len(b) \in Nat /\ DOMAIN a = 1..Len(a) /\ DOMAIN b = 1..Len(b)
      /\ 1 \in DOMAIN a \cap DOMAIN b /\ 2 \in DOMAIN a \cap DOMAIN b
  BY <1>2
<1>5. CASE y.rank # 0 /\ y.rank < x.rank
  <2>1. a[2] < b[2] /\ \A j \in 1..(2 - 1) : a[j] = b[j]
    BY <1>1, <1>2, <1>5
  <2>2. Precedes(a, b)
    BY <1>4, <2>1 DEF Precedes
  <2>3. QED
    BY <1>5, <2>2 DEF a, b
<1>6. CASE ~(y.rank # 0 /\ y.rank < x.rank)
  <2> SUFFICES ASSUME Precedes(a, b) PROVE FALSE
    BY <1>6 DEF a, b
  <2>1. PICK i \in DOMAIN a \cap DOMAIN b : a[i] < b[i] /\ \A j \in 1..(i - 1) : a[j] = b[j]
    BY DEF Precedes
  <2>2. CASE y.rank = 0
    <3>1. a[1] = 1 /\ b[1] = 0
      BY <1>2, <2>2
    <3>2. i = 1 \/ 1 \in 1..(i - 1)
      BY <1>4, <2>1
    <3>3. QED
      BY <2>1, <3>1, <3>2
  <2>3. CASE y.rank # 0
    <3>1. y.rank >= x.rank
      BY <1>1, <1>6, <2>3
    <3>2. CASE x = y
      BY <1>2, <1>3, <3>2, PrecedesIrreflexive
    <3>3. CASE x # y
      <4>1. a[2] > b[2] /\ a[1] = 0
        BY <1>1, <1>2, <2>3, <3>1, <3>3
      <4>2. i = 1 \/ i = 2 \/ 2 \in 1..(i - 1)
        BY <1>4, <2>1
      <4>3. b[2] \in Int /\ a[2] \in Int
        BY <1>1, <1>2
      <4>4. QED
        BY <1>2, <2>1, <4>1, <4>2, <4>3
    <3>4. QED
      BY <3>2, <3>3
  <2>4. QED
    BY <2>2, <2>3
<1>7. QED
  BY <1>5, <1>6 DEF a, b

\* _best_available_key and the key of the list by rank.
ListKeys(U) == [x \in U |-> <<Flag(x.rank = 0), x.rank, x.name, x.id>>]

LEMMA ListSortable ==
    ASSUME NEW P, NEW items, IsBoard(items, P), NEW U \in SUBSET items
    PROVE  /\ Sortable(U, ListKeys(U))
           /\ \A x \in U : /\ ListKeys(U)[x] \in Seq(Int) /\ Len(ListKeys(U)[x]) = 4
                           /\ ListKeys(U)[x][1] = Flag(x.rank = 0)
                           /\ ListKeys(U)[x][2] = x.rank
<1>1. IsFiniteSet(U)
  BY FS_Subset DEF IsBoard
<1>2. ASSUME NEW x \in U
      PROVE  /\ ListKeys(U)[x] \in Seq(Int) /\ Len(ListKeys(U)[x]) = 4
             /\ ListKeys(U)[x][4] = x.id
             /\ ListKeys(U)[x][1] = Flag(x.rank = 0)
             /\ ListKeys(U)[x][2] = x.rank
  <2> DEFINE a == Flag(x.rank = 0)
  <2>1. a \in Int
    BY DEF Flag
  <2>2. x.rank \in Int /\ x.name \in Int /\ x.id \in Int
    BY DEF IsBoard, IsValuation
  <2>3. ListKeys(U)[x] = <<a, x.rank, x.name, x.id>>
    BY DEF ListKeys
  <2> HIDE DEF a
  <2>4. QED
    BY <2>1, <2>2, <2>3 DEF a
<1>3. \A x, y \in U : ListKeys(U)[x] = ListKeys(U)[y] => x = y
  BY <1>2 DEF IsBoard
<1>4. QED
  BY <1>1, <1>2, <1>3 DEF Sortable

\* Two orders that put the ranked players first, by their ranks, have them at
\* the same places.
LEMMA RankedPlacesAgree ==
    ASSUME NEW P, NEW items, IsBoard(items, P), NEW U \in SUBSET items,
           NEW s, NEW t,
           s = SortedBy(U, BestKeys(U)), t = SortedBy(U, ListKeys(U))
    PROVE  {<<i, t[i]>> : i \in {j \in DOMAIN t : t[j].rank # 0}}
         = {<<i, s[i]>> : i \in {j \in DOMAIN s : s[j].rank # 0}}
<1> DEFINE n == Cardinality(U)
<1>1. Sortable(U, BestKeys(U)) /\ Sortable(U, ListKeys(U))
  BY BestAvailableSortable, ListSortable
<1>2. /\ DOMAIN s = 1..n
      /\ \A i \in 1..n : s[i] \in U /\ PlaceIn(U, BestKeys(U), s[i]) = i
      /\ \A x \in U : PlaceIn(U, BestKeys(U), x) \in 1..n /\ s[PlaceIn(U, BestKeys(U), x)] = x
  BY <1>1, SortedByIsSorted
<1>3. /\ DOMAIN t = 1..n
      /\ \A i \in 1..n : t[i] \in U /\ PlaceIn(U, ListKeys(U), t[i]) = i
      /\ \A x \in U : PlaceIn(U, ListKeys(U), x) \in 1..n /\ t[PlaceIn(U, ListKeys(U), x)] = x
  BY <1>1, SortedByIsSorted
<1>4. \A x \in U : /\ BestKeys(U)[x] \in Seq(Int) /\ Len(BestKeys(U)[x]) >= 2
                   /\ BestKeys(U)[x][1] = Flag(x.rank = 0) /\ BestKeys(U)[x][2] = x.rank
  BY BestKeyIsNumbers DEF BestKeys
<1>5. \A x \in U : /\ ListKeys(U)[x] \in Seq(Int) /\ Len(ListKeys(U)[x]) >= 2
                   /\ ListKeys(U)[x][1] = Flag(x.rank = 0) /\ ListKeys(U)[x][2] = x.rank
  BY ListSortable
<1>6. ASSUME NEW x \in U, x.rank # 0
      PROVE  PlaceIn(U, BestKeys(U), x) = PlaceIn(U, ListKeys(U), x)
  <2>1. Before(U, BestKeys(U), x) = {y \in U : y.rank # 0 /\ y.rank < x.rank}
    BY <1>4, <1>6, RankedComeFirst
  <2>2. Before(U, ListKeys(U), x) = {y \in U : y.rank # 0 /\ y.rank < x.rank}
    BY <1>5, <1>6, RankedComeFirst
  <2>3. QED
    BY <2>1, <2>2 DEF PlaceIn
<1>7. \A i \in 1..n : s[i].rank # 0 => t[i] = s[i]
  BY <1>2, <1>3, <1>6
<1>8. \A i \in 1..n : t[i].rank # 0 => s[i] = t[i]
  BY <1>2, <1>3, <1>6
<1>9. QED
  BY <1>2, <1>3, <1>7, <1>8

\* The list of all available valuations by rank is the sorted one.
LEMMA ListIsSorted ==
    ASSUME Inv, ~board.failed, NEW taken
    PROVE  ListValuations(board.items, Range(taken), {}, {}, {}, "overall_rank", FALSE,
                          Cardinality(board.items), 0)
           = SortedBy(Undrafted(taken), ListKeys(Undrafted(taken)))
<1> DEFINE U == Undrafted(taken)
           s == SortedBy(U, ListKeys(U))
           n == Cardinality(board.items)
<1>1. IsBoard(board.items, pool) /\ U \in SUBSET board.items
  BY BoardHolds DEF Undrafted
<1>2. FilterItems(U, {}, {}, {}) = U
  BY DEF FilterItems
<1>3. SortItems(U, "overall_rank", FALSE) = s
  BY DEF SortItems, ListKeys
<1>4. s \in Seq(U) /\ Len(s) = Cardinality(U) /\ Len(s) \in Nat
  BY <1>1, ListSortable, SortedByIsSorted
<1>5. Len(s) <= n /\ n \in Nat
  BY <1>1, <1>4, FS_Subset, FS_CardinalityType DEF IsBoard
<1>6. ListValuations(board.items, Range(taken), {}, {}, {}, "overall_rank", FALSE, n, 0)
      = SubSeq(s, 0 + 1, IF 0 + n < Len(s) THEN 0 + n ELSE Len(s))
  BY <1>2, <1>3 DEF ListValuations, Undrafted
<1> HIDE DEF s, U, n
<1>7. 0 + 1 = 1 /\ (IF 0 + n < Len(s) THEN 0 + n ELSE Len(s)) = Len(s)
  BY <1>4, <1>5
<1>8. SubSeq(s, 1, Len(s)) = s
  BY <1>4, SubSeqFull
<1>9. QED
  BY <1>6, <1>7, <1>8 DEF s, U, n

\* The list of available valuations sorted by rank and the assistant's best
\* available players agree about the ranked players (list_valuations and
\* _best_available_key), for every league, projection set and draft.
THEOREM BestAvailableAgreesHolds == Spec => []BestAvailableAgrees
<1>1. Inv => BestAvailableAgrees
  <2> SUFFICES ASSUME Inv, ~board.failed PROVE BestAvailableAgrees
    BY DEF BestAvailableAgrees
  <2> DEFINE U == Undrafted(picks)
             s == SortedBy(U, BestKeys(U))
             t == SortedBy(U, ListKeys(U))
  <2>1. IsBoard(board.items, pool) /\ U \in SUBSET board.items
    BY BoardHolds DEF Undrafted
  <2>2. Available(picks) = s
    BY AvailableIsSorted
  <2>3. ListValuations(board.items, Range(picks), {}, {}, {}, "overall_rank", FALSE,
                       Cardinality(board.items), 0) = t
    BY ListIsSorted
  <2> HIDE DEF s, t, U
  <2>4. {<<i, t[i]>> : i \in {j \in DOMAIN t : t[j].rank # 0}}
        = {<<i, s[i]>> : i \in {j \in DOMAIN s : s[j].rank # 0}}
    BY <2>1, RankedPlacesAgree DEF s, t
  <2>5. QED
    BY <2>2, <2>3, <2>4 DEF BestAvailableAgrees
<1>2. QED
  BY <1>1, InvHolds, PTL

-------------------------------------------------------------------------------
(* The countdown to the user's next pick. *)

LEMMA PositionsAgree ==
    ASSUME NEW k, NEW j
    PROVE  Turn(k)!Position(j) = Turn(1)!Position(j)
BY DEF Turn!Position, Turn!DraftPosition, Turn!RoundNumber, Turn!PickInRound

\* While others pick, the user's next pick stays and the countdown falls.
LEMMA CountdownFalls ==
    ASSUME Inv, NEW k \in Nat \ {0}, Turn(k)!HasContext, Turn(1)!Position(k) # user
    PROVE  /\ Turn(k + 1)!HasContext
           /\ Turn(k)!PicksUntil \in Nat \ {0}
           /\ Turn(k + 1)!PicksUntil = Turn(k)!PicksUntil - 1
<1> DEFINE total == league.teams * DraftRounds(league.slots)
           A == {j \in k..total : Turn(1)!Position(j) = user}
           B == {j \in (k + 1)..total : Turn(1)!Position(j) = user}
<1>1. Turn(k)!UserPicksAhead = A
  BY PositionsAgree DEF Turn!UserPicksAhead, Turn!TotalPicks
<1>2. Turn(k + 1)!UserPicksAhead = B
  BY PositionsAgree DEF Turn!UserPicksAhead, Turn!TotalPicks
<1>3. total \in Nat
  BY RoundsOfTheLeague DEF Inv
<1> HIDE DEF total
<1>4. A = B
  BY <1>3
<1>5. A # {} /\ A \in SUBSET Nat /\ \A j \in A : j >= k /\ j # k
  BY <1>1, <1>3 DEF Turn!HasContext
<1> HIDE DEF A, B
<1>6. Min(A) \in A
  BY <1>5, LeastNumber
<1>7. Turn(k)!NextOverallPick = Min(A) /\ Turn(k + 1)!NextOverallPick = Min(A)
  BY <1>1, <1>2, <1>4 DEF Turn!NextOverallPick, Turn!Min, Min
<1>8. Turn(k)!PicksUntil = Min(A) - k /\ Turn(k + 1)!PicksUntil = Min(A) - (k + 1)
  BY <1>7 DEF Turn!PicksUntil
<1>9. Min(A) \in Nat /\ Min(A) >= k /\ Min(A) # k
  BY <1>5, <1>6
<1>10. /\ Turn(k)!PicksUntil \in Nat \ {0}
       /\ Turn(k + 1)!PicksUntil = Turn(k)!PicksUntil - 1
  BY <1>8, <1>9
<1>11. Turn(k + 1)!HasContext
  BY <1>2, <1>4, <1>5 DEF Turn!HasContext
<1>12. QED
  BY <1>10, <1>11

LEMMA UntilFalls ==
    ASSUME Inv, NEW p \in DOMAIN pool,
           ~UserOnClock(picks), Until(picks) # NoTurn
    PROVE  /\ Until(picks) \in Nat \ {0}
           /\ Until(Append(picks, p)) = Until(picks) - 1
<1> DEFINE k == Len(picks) + 1
           after == Append(picks, p)
<1>1. k \in Nat \ {0} /\ Len(after) + 1 = k + 1
  BY AppendProperties DEF Inv
<1>2. Until(picks) = IF Turn(k)!HasContext THEN Turn(k)!PicksUntil ELSE NoTurn
  BY DEF Until
<1>3. Until(after) = IF Turn(Len(after) + 1)!HasContext
                     THEN Turn(Len(after) + 1)!PicksUntil ELSE NoTurn
  BY DEF Until
<1>4. Turn(1)!Position(k) # user
  BY DEF UserOnClock
<1> HIDE DEF k, after
<1>5. Turn(k)!HasContext
  BY <1>2
<1>6. /\ Turn(k + 1)!HasContext
      /\ Turn(k)!PicksUntil \in Nat \ {0}
      /\ Turn(k + 1)!PicksUntil = Turn(k)!PicksUntil - 1
  BY <1>1, <1>4, <1>5, CountdownFalls
<1>7. Until(after) = IF Turn(k + 1)!HasContext THEN Turn(k + 1)!PicksUntil ELSE NoTurn
  BY <1>1, <1>3
<1>8. QED
  BY <1>2, <1>5, <1>6, <1>7 DEF after

-------------------------------------------------------------------------------
(* A pick takes one player out of the list. *)

\* Without one element the later ones move up by one place.
LEMMA RemovalShifts ==
    ASSUME NEW S, NEW key, Sortable(S, key), NEW x \in S, NEW left,
           \A y \in S \ {x} : left[y] = key[y]
    PROVE  /\ Sortable(S \ {x}, left)
           /\ Cardinality(S \ {x}) = Cardinality(S) - 1
           /\ \A y \in S \ {x} :
                 PlaceIn(S \ {x}, left, y) =
                     IF PlaceIn(S, key, x) < PlaceIn(S, key, y)
                     THEN PlaceIn(S, key, y) - 1 ELSE PlaceIn(S, key, y)
<1>1. IsFiniteSet(S) /\ IsFiniteSet(S \ {x}) /\ Cardinality(S \ {x}) = Cardinality(S) - 1
  BY FS_RemoveElement DEF Sortable
<1>2. Sortable(S \ {x}, left)
  BY <1>1 DEF Sortable
<1>3. ASSUME NEW y \in S \ {x}
      PROVE  PlaceIn(S \ {x}, left, y) =
                 IF PlaceIn(S, key, x) < PlaceIn(S, key, y)
                 THEN PlaceIn(S, key, y) - 1 ELSE PlaceIn(S, key, y)
  <2> DEFINE B == Before(S, key, y)
  <2>1. Before(S \ {x}, left, y) = B \ {x}
    BY DEF Before
  <2>2. x \in B <=> PlaceIn(S, key, x) < PlaceIn(S, key, y)
    BY PlacesAreRight DEF Before
  <2>3. IsFiniteSet(B)
    BY <1>1, FS_Subset DEF Before
  <2>4. Cardinality(B) \in Nat
    BY <2>3, FS_CardinalityType
  <2>5. Cardinality(B \ {x}) = IF x \in B THEN Cardinality(B) - 1 ELSE Cardinality(B)
    BY <2>3, FS_RemoveElement
  <2>6. PlaceIn(S, key, y) = 1 + Cardinality(B)
        /\ PlaceIn(S \ {x}, left, y) = 1 + Cardinality(B \ {x})
    BY <2>1 DEF PlaceIn
  <2> HIDE DEF B
  <2>7. QED
    BY <2>2, <2>4, <2>5, <2>6
<1>4. QED
  BY <1>1, <1>2, <1>3

\* Where a player of the list stands after the player at gone is taken.
MovedTo(i, gone) == IF gone < i THEN i - 1 ELSE i

Shifted(was, is, n, gone, p) ==
    /\ DOMAIN was = 1..n /\ DOMAIN is = 1..(n - 1)
    /\ was[gone].id = p
    /\ \A i \in 1..n : was[i] \in board.items
    /\ \A i, j \in 1..n : was[i].id = was[j].id => i = j
    /\ \A i \in (1..n) \ {gone} :
          MovedTo(i, gone) \in 1..(n - 1) /\ is[MovedTo(i, gone)] = was[i]
    /\ \A i \in 1..(n - 1) : is[i] \in board.items
    /\ \A i, j \in 1..(n - 1) : is[i].id = is[j].id => i = j

\* The list before and after player p is picked.
LEMMA PickShifts ==
    ASSUME Inv, ~board.failed, NEW p \in Pickable, NEW was, NEW is,
           was = Available(picks), is = Available(Append(picks, p))
    PROVE  \E n \in Nat : \E gone \in 1..n : Shifted(was, is, n, gone, p)
<1> DEFINE U == Undrafted(picks)
           V == Undrafted(Append(picks, p))
           n == Cardinality(U)
<1>1. /\ Sortable(U, BestKeys(U)) /\ was = SortedBy(U, BestKeys(U))
      /\ Sortable(V, BestKeys(V)) /\ is = SortedBy(V, BestKeys(V))
  BY AvailableIsSorted
<1>2. /\ n \in Nat /\ DOMAIN was = 1..n
      /\ \A i \in 1..n : was[i] \in U /\ PlaceIn(U, BestKeys(U), was[i]) = i
      /\ \A x \in U : PlaceIn(U, BestKeys(U), x) \in 1..n /\ was[PlaceIn(U, BestKeys(U), x)] = x
  BY <1>1, SortedByIsSorted
<1>3. /\ DOMAIN is = 1..Cardinality(V)
      /\ \A i \in 1..Cardinality(V) : is[i] \in V /\ PlaceIn(V, BestKeys(V), is[i]) = i
      /\ \A x \in V : /\ PlaceIn(V, BestKeys(V), x) \in 1..Cardinality(V)
                      /\ is[PlaceIn(V, BestKeys(V), x)] = x
  BY <1>1, SortedByIsSorted
<1>4. PICK gone \in 1..n : was[gone].id = p
  BY <1>2 DEF Pickable
<1>5. U \in SUBSET board.items /\ \A x, y \in board.items : x.id = y.id => x = y
  BY BoardHolds DEF Undrafted, IsBoard
<1>6. V = U \ {was[gone]}
  <2>1. \A i \in 1..Len(picks) : Append(picks, p)[i] = picks[i]
    BY PickableIsNew, AppendProperties DEF Inv
  <2>2. /\ picks \in Seq(DOMAIN pool) /\ Append(picks, p) \in Seq(DOMAIN pool)
        /\ Len(Append(picks, p)) = Len(picks) + 1 /\ Append(picks, p)[Len(picks) + 1] = p
    BY PickableIsNew, AppendProperties DEF Inv
  <2>3. /\ Len(picks) \in Nat /\ DOMAIN picks = 1..Len(picks)
        /\ DOMAIN Append(picks, p) = 1..(Len(picks) + 1)
    BY <2>2
  <2>4. Range(Append(picks, p)) = Range(picks) \cup {p}
    <3>1. \A i \in 1..(Len(picks) + 1) : i \in 1..Len(picks) \/ i = Len(picks) + 1
      BY <2>3
    <3>2. \A i \in 1..Len(picks) : i \in 1..(Len(picks) + 1)
      BY <2>3
    <3>3. Len(picks) + 1 \in 1..(Len(picks) + 1)
      BY <2>3
    <3>4. QED
      BY <2>1, <2>2, <2>3, <3>1, <3>2, <3>3 DEF Range
  <2>5. V = {x \in U : x.id # p}
    BY <2>4 DEF Undrafted
  <2>6. was[gone] \in U
    BY <1>2
  <2>7. QED
    BY <1>4, <1>5, <2>5, <2>6
<1> HIDE DEF U, V
<1>7. \A y \in V : BestKeys(V)[y] = BestKeys(U)[y]
  BY <1>6 DEF BestKeys
<1> HIDE DEF n
<1>8. /\ Cardinality(V) = n - 1
      /\ \A y \in V : PlaceIn(V, BestKeys(V), y) = MovedTo(PlaceIn(U, BestKeys(U), y), gone)
  <2>1. was[gone] \in U /\ PlaceIn(U, BestKeys(U), was[gone]) = gone
    BY <1>2
  <2>2. \A y \in U \ {was[gone]} : BestKeys(V)[y] = BestKeys(U)[y]
    BY <1>6, <1>7
  <2> DEFINE x == was[gone]
             left == BestKeys(V)
             key == BestKeys(U)
  <2> HIDE DEF x, left, key
  <2>3. /\ Cardinality(U \ {x}) = Cardinality(U) - 1
        /\ \A y \in U \ {x} :
              PlaceIn(U \ {x}, left, y) =
                  IF PlaceIn(U, key, x) < PlaceIn(U, key, y)
                  THEN PlaceIn(U, key, y) - 1 ELSE PlaceIn(U, key, y)
    <3>1. Sortable(U, key) /\ x \in U /\ \A y \in U \ {x} : left[y] = key[y]
      BY <1>1, <2>1, <2>2 DEF x, left, key
    <3>2. QED
      BY <3>1, RemovalShifts
  <2>4. V = U \ {x} /\ PlaceIn(U, key, x) = gone
    BY <1>6, <2>1 DEF x, key
  <2>5. QED
    BY <2>3, <2>4 DEF MovedTo, n, left, key
<1>9. ASSUME NEW i \in (1..n) \ {gone}
      PROVE  MovedTo(i, gone) \in 1..(n - 1) /\ is[MovedTo(i, gone)] = was[i]
  <2>1. was[i] \in V /\ PlaceIn(U, BestKeys(U), was[i]) = i
    BY <1>2, <1>6
  <2>2. PlaceIn(V, BestKeys(V), was[i]) = MovedTo(i, gone)
    BY <1>8, <2>1
  <2>3. QED
    BY <1>3, <1>8, <2>1, <2>2
<1>10. V \in SUBSET U
  BY <1>6
<1>11. \A i, j \in 1..n : was[i].id = was[j].id => i = j
  BY <1>2, <1>5
<1>12. \A i, j \in 1..(n - 1) : is[i].id = is[j].id => i = j
  BY <1>3, <1>5, <1>8, <1>10
<1>13. \A i \in 1..n : was[i] \in board.items
  BY <1>2, <1>5
<1>14. \A i \in 1..(n - 1) : is[i] \in board.items
  BY <1>3, <1>5, <1>8, <1>10
<1>15. QED
  BY <1>2, <1>3, <1>4, <1>8, <1>9, <1>11, <1>12, <1>13, <1>14 DEF Shifted

-------------------------------------------------------------------------------
(* Steps. *)

LEMMA FrontIsShorter ==
    ASSUME Inv, picks # <<>>
    PROVE  ~(Len(Front(picks)) > Len(picks))
<1> DEFINE n == Len(picks)
<1>1. picks \in Seq(DOMAIN pool) /\ n \in Nat /\ n # 0 /\ \A i \in 1..n : picks[i] \in DOMAIN pool
  BY EmptySeq DEF Inv
<1>2. Len(SubSeq(picks, 1, n - 1)) = n - 1
  <2> HIDE DEF n
  <2>1. n - 1 \in Int /\ 1 \in Int /\ \A i \in 1..(n - 1) : picks[i] \in DOMAIN pool
    BY <1>1
  <2>2. Len(SubSeq(picks, 1, n - 1)) = IF 1 <= n - 1 THEN (n - 1) - 1 + 1 ELSE 0
    BY <2>1, SubSeqProperties
  <2>3. QED
    BY <1>1, <2>2
<1>3. Front(picks) = SubSeq(picks, 1, n - 1)
  BY DEF Front
<1> HIDE DEF n
<1>4. n - 1 < n
  BY <1>1
<1>5. QED
  BY <1>1, <1>2, <1>3, <1>4 DEF n

-------------------------------------------------------------------------------
(* Outlooks. *)

LEMMA RankOfIs ==
    ASSUME NEW n \in Nat, NEW seq, DOMAIN seq = 1..n,
           \A i, j \in 1..n : seq[i].id = seq[j].id => i = j,
           NEW i \in 1..n
    PROVE  RankOf(seq, seq[i].id) = i
BY DEF RankOf

\* One place less with one pick less to come is the same outlook; the same
\* place with one pick less is no worse.
LEMMA OutlookMoves ==
    ASSUME NEW was, NEW is, NEW i \in Nat \ {0}, NEW until \in Nat, until > 1
    PROVE  /\ Risk[Outlook(is, i - 1, until - 1)] = Risk[Outlook(was, i, until)]
           /\ Risk[Outlook(is, i, until - 1)] <= Risk[Outlook(was, i, until)]
<1>1. Outlook(was, i, until) =
          IF i <= until THEN "UNLIKELY_TO_RETURN"
          ELSE IF i <= until + 2 THEN "AT_RISK" ELSE "COULD_RETURN"
  BY DEF Outlook, RiskBuffer
<1>2. Outlook(is, i - 1, until - 1) =
          IF i <= until THEN "UNLIKELY_TO_RETURN"
          ELSE IF i <= until + 2 THEN "AT_RISK" ELSE "COULD_RETURN"
  BY DEF Outlook, RiskBuffer
<1>3. Outlook(is, i, until - 1) =
          IF i <= until - 1 THEN "UNLIKELY_TO_RETURN"
          ELSE IF i <= until + 1 THEN "AT_RISK" ELSE "COULD_RETURN"
  BY DEF Outlook, RiskBuffer
<1>4. Risk["UNLIKELY_TO_RETURN"] = 2 /\ Risk["AT_RISK"] = 1 /\ Risk["COULD_RETURN"] = 0
  BY DEF Risk
<1>5. QED
  BY <1>1, <1>2, <1>3, <1>4

\* What others' picks do: the countdown falls, and the list moves up behind the
\* player taken.
LEMMA OthersPickShifts ==
    ASSUME Inv, NEW p \in Pickable, OthersPick(picks, Append(picks, p))
    PROVE  /\ ~board.failed
           /\ Until(picks) \in Nat \ {0}
           /\ Until(Append(picks, p)) = Until(picks) - 1
           /\ Last(Append(picks, p)) = p
<1>1. p \in DOMAIN pool
  BY PickableIsNew
<1>2. Last(Append(picks, p)) = p
  BY <1>1, AppendProperties DEF Inv, Last
<1>3. QED
  BY <1>1, <1>2, UntilFalls DEF OthersPick, NewPick

LEMMA OutlookHoldsOnPick ==
    ASSUME Inv, NEW p \in Pickable, OthersPick(picks, Append(picks, p)),
           Until(Append(picks, p)) > 0
    PROVE  OutlookHolds(picks, Append(picks, p))
<1> DEFINE after == Append(picks, p)
           was == Available(picks)
           is == Available(after)
           until == Until(picks)
<1>1. /\ ~board.failed /\ until \in Nat /\ until > 1 /\ Until(after) = until - 1
      /\ Last(after) = p
  BY OthersPickShifts
<1>2. PICK n \in Nat : \E gone \in 1..n : Shifted(was, is, n, gone, p)
  BY <1>1, PickShifts
<1>3. PICK gone \in 1..n : Shifted(was, is, n, gone, p)
  BY <1>2
<1> HIDE DEF was, is, until, after
<1>4. RankOf(was, p) = gone
  BY <1>3, RankOfIs DEF Shifted
<1>5. ASSUME NEW i \in (1..n) \ {gone}
      PROVE  LET old == Risk[Outlook(was, RankOf(was, was[i].id), until)]
                 new == Risk[Outlook(is, RankOf(is, was[i].id), until - 1)]
             IN  IF gone < i THEN new = old ELSE new <= old
  <2>1. RankOf(was, was[i].id) = i
    BY <1>3, RankOfIs DEF Shifted
  <2>2. n - 1 \in Nat
    BY <1>3
  <2>3. MovedTo(i, gone) \in 1..(n - 1) /\ is[MovedTo(i, gone)] = was[i]
    BY <1>3 DEF Shifted
  <2>4. RankOf(is, is[MovedTo(i, gone)].id) = MovedTo(i, gone)
    BY <1>3, <2>2, <2>3, RankOfIs DEF Shifted
  <2>5. RankOf(is, was[i].id) = MovedTo(i, gone)
    BY <2>3, <2>4
  <2>6. i \in Nat \ {0} /\ until \in Nat /\ until > 1
    BY <1>1
  <2>7. /\ Risk[Outlook(is, i - 1, until - 1)] = Risk[Outlook(was, i, until)]
        /\ Risk[Outlook(is, i, until - 1)] <= Risk[Outlook(was, i, until)]
    BY <2>6, OutlookMoves
  <2>8. QED
    BY <2>1, <2>5, <2>7 DEF MovedTo
<1>6. QED
  BY <1>1, <1>3, <1>4, <1>5 DEF OutlookHolds, Shifted, was, is, until, after

\* While others pick, an announced outlook follows the board: it stays for the
\* players behind the one taken and never worsens for those before
\* (availability_outlooks with next_user_pick_context), in every draft.
THEOREM OutlookFollowsPicksHolds == Spec => OutlookFollowsPicks
<1>1. Inv /\ [Next]_vars =>
        [\A after \in {picks'} :
            OthersPick(picks, after) /\ Until(after) > 0 => OutlookHolds(picks, after)]_vars
  <2> SUFFICES ASSUME Inv, Next, NEW after, after = picks',
                      OthersPick(picks, after), Until(after) > 0
               PROVE  OutlookHolds(picks, after)
    BY DEF vars
  <2>1. CASE Undo
    <3>1. picks # <<>> /\ after = Front(picks)
      BY <2>1 DEF Undo
    <3>2. QED
      BY <3>1, FrontIsShorter DEF OthersPick, NewPick
  <2>2. ASSUME NEW p \in Pickable, Draft(p)
        PROVE  OutlookHolds(picks, after)
    <3>1. after = Append(picks, p)
      BY <2>2 DEF Draft
    <3>2. QED
      BY <3>1, OutlookHoldsOnPick
  <2>3. QED
    BY <2>1, <2>2 DEF Next
<1>2. QED
  BY <1>1, InvHolds, PTL DEF Spec, OutlookFollowsPicks

-------------------------------------------------------------------------------
(* Cutoffs. *)

LEMMA PairsPrecede ==
    ASSUME NEW a \in Int, NEW b \in Int, NEW c \in Int, NEW d \in Int
    PROVE  Precedes(<<a, b>>, <<c, d>>) <=> (a < c \/ (a = c /\ b < d))
<1>1. DOMAIN <<a, b>> \cap DOMAIN <<c, d>> = {1, 2}
  OBVIOUS
<1>2. \A j \in 1..(1 - 1) : <<a, b>>[j] = <<c, d>>[j]
  OBVIOUS
<1>3. (\A j \in 1..(2 - 1) : <<a, b>>[j] = <<c, d>>[j]) <=> a = c
  OBVIOUS
<1>4. QED
  BY <1>1, <1>2, <1>3 DEF Precedes

LEMMA MaxWithZero ==
    ASSUME NEW u \in Nat
    PROVE  Max({u, 0}) = u
<1>1. \A x \in {u, 0} : (\A y \in {u, 0} : x >= y) <=> x = u
  OBVIOUS
<1>2. QED
  BY <1>1 DEF Max

\* A list of different valuations of the board.
IsList(list, n) ==
    /\ n \in Nat /\ DOMAIN list = 1..n
    /\ \A i \in 1..n : list[i] \in board.items
    /\ \A i, j \in 1..n : list[i].id = list[j].id => i = j

RanksAt(list, q) == {i \in DOMAIN list : q \in DOMAIN list[i].vor}
RankKeys(list, q) == [i \in RanksAt(list, q) |-> <<list[i].positionRank[q], i>>]

LEMMA RanksAreSortable ==
    ASSUME Inv, ~board.failed, NEW list, NEW n, IsList(list, n), NEW q
    PROVE  /\ Sortable(RanksAt(list, q), RankKeys(list, q))
           /\ AtPosition(list, q) = SortedBy(RanksAt(list, q), RankKeys(list, q))
           /\ \A i \in RanksAt(list, q) :
                 /\ i \in 1..n /\ list[i].positionRank[q] \in Nat
                 /\ RankKeys(list, q)[i] = <<list[i].positionRank[q], i>>
<1> DEFINE R == RanksAt(list, q)
           key == RankKeys(list, q)
<1>1. n \in Nat /\ R \in SUBSET (1..n)
  BY DEF RanksAt, IsList
<1>2. IsFiniteSet(R)
  BY <1>1, FS_Interval, FS_Subset
<1>3. ASSUME NEW i \in R
      PROVE  /\ i \in 1..n /\ list[i].positionRank[q] \in Nat
             /\ key[i] = <<list[i].positionRank[q], i>>
  <2>1. list[i] \in board.items /\ q \in DOMAIN list[i].vor
    BY DEF RanksAt, IsList
  <2>2. list[i].positionRank[q] \in Nat
    BY <2>1, BoardHolds DEF IsBoard
  <2>3. QED
    BY <1>1, <2>2 DEF RankKeys
<1> HIDE DEF R, key
<1>4. ASSUME NEW i \in R
      PROVE  key[i] \in Seq(Int) /\ Len(key[i]) = 2 /\ key[i][2] = i
  <2> DEFINE a == list[i].positionRank[q]
  <2>1. a \in Int /\ i \in Int /\ key[i] = <<a, i>>
    BY <1>1, <1>3
  <2> HIDE DEF a
  <2>2. QED
    BY <2>1
<1>5. Sortable(R, key)
  BY <1>2, <1>4 DEF Sortable
<1>6. AtPosition(list, q) = SortedBy(R, key)
  BY DEF AtPosition, R, key, RanksAt, RankKeys
<1>7. QED
  BY <1>3, <1>5, <1>6 DEF R, key

\* The cutoff is the first at the position of those beyond the countdown.
LEMMA CutoffIsFirstLeft ==
    ASSUME Inv, ~board.failed, NEW list, NEW n, IsList(list, n), NEW q, NEW until \in Nat
    PROVE  LET c == Cutoff(list, q, until)
               R == RanksAt(list, q)
               key == RankKeys(list, q)
           IN  /\ c # 0 <=> \E r \in R : r > until
               /\ c # 0 => /\ c \in R /\ c > until
                           /\ \A r \in R : r > until /\ r # c => Precedes(key[c], key[r])
<1> DEFINE R == RanksAt(list, q)
           key == RankKeys(list, q)
           ranks == AtPosition(list, q)
           left == {j \in DOMAIN ranks : ranks[j] > until}
           c == Cutoff(list, q, until)
           m == Cardinality(R)
<1>1. /\ Sortable(R, key) /\ ranks = SortedBy(R, key)
      /\ \A i \in R : i \in 1..n /\ n \in Nat
  BY RanksAreSortable DEF IsList
<1>2. /\ m \in Nat /\ DOMAIN ranks = 1..m
      /\ \A i \in 1..m : ranks[i] \in R
      /\ \A x \in R : \E i \in 1..m : ranks[i] = x
      /\ \A i, j \in 1..m : i < j <=> Precedes(key[ranks[i]], key[ranks[j]])
  BY <1>1, SortedByIsSorted
<1>3. c = IF left = {} THEN 0 ELSE ranks[Min(left)]
  BY MaxWithZero DEF Cutoff
<1> HIDE DEF R, key, ranks, c, m
<1>4. left = {} <=> ~ \E r \in R : r > until
  BY <1>2
<1>5. CASE left = {}
  BY <1>3, <1>4, <1>5 DEF R, key, c
<1>6. CASE left # {}
  <2>1. left \in SUBSET Nat
    BY <1>2
  <2>2. Min(left) \in left /\ \A j \in left : Min(left) <= j
    BY <1>6, <2>1, LeastNumber
  <2> DEFINE k == Min(left)
  <2> HIDE DEF k
  <2>3. k \in 1..m /\ c = ranks[k] /\ c > until /\ c \in R
    BY <1>2, <1>3, <1>6, <2>2 DEF k
  <2>4. c # 0
    BY <1>1, <2>3
  <2>5. ASSUME NEW r \in R, r > until, r # c
        PROVE  Precedes(key[c], key[r])
    <3>1. PICK j \in 1..m : ranks[j] = r
      BY <1>2
    <3>2. j \in left /\ j # k
      BY <1>2, <2>3, <2>5, <3>1
    <3>3. k <= j
      BY <2>2, <3>2 DEF k
    <3>4. k < j
      BY <1>2, <2>3, <3>2, <3>3
    <3>5. QED
      BY <1>2, <2>3, <3>1, <3>4
  <2>6. QED
    BY <1>4, <1>6, <2>3, <2>4, <2>5 DEF R, key, c
<1>7. QED
  BY <1>5, <1>6

\* With no pick to wait for, the cutoff is the top.
LEMMA CutoffAtTurn ==
    ASSUME Inv, ~board.failed, NEW list, NEW n, IsList(list, n), NEW q
    PROVE  Cutoff(list, q, 0) =
               IF AtPosition(list, q) = <<>> THEN 0 ELSE AtPosition(list, q)[1]
<1> DEFINE R == RanksAt(list, q)
           ranks == AtPosition(list, q)
           left == {j \in DOMAIN ranks : ranks[j] > 0}
           m == Cardinality(R)
<1>1. /\ Sortable(R, RankKeys(list, q)) /\ ranks = SortedBy(R, RankKeys(list, q))
      /\ \A i \in R : i \in 1..n /\ n \in Nat
  BY RanksAreSortable DEF IsList
<1>2. /\ m \in Nat /\ DOMAIN ranks = 1..m /\ ranks \in Seq(R) /\ Len(ranks) = m
      /\ \A i \in 1..m : ranks[i] \in R
  BY <1>1, SortedByIsSorted
<1>3. Cutoff(list, q, 0) = IF left = {} THEN 0 ELSE ranks[Min(left)]
  BY MaxWithZero DEF Cutoff
<1> HIDE DEF R, ranks, m
<1>4. left = 1..m
  BY <1>1, <1>2
<1>5. ranks = <<>> <=> m = 0
  BY <1>2, EmptySeq
<1>6. CASE m = 0
  BY <1>2, <1>3, <1>4, <1>5, <1>6 DEF ranks
<1>7. CASE m # 0
  <2>1. 1 \in left /\ left \in SUBSET Nat /\ \A j \in left : j >= 1
    BY <1>2, <1>4, <1>7
  <2>2. Min(left) \in left /\ Min(left) <= 1
    BY <2>1, LeastNumber
  <2>3. Min(left) = 1
    BY <2>1, <2>2
  <2>4. QED
    BY <1>3, <1>5, <1>7, <2>1, <2>3 DEF ranks
<1>8. QED
  BY <1>6, <1>7

LEMMA ScarcityColumns ==
    ASSUME NEW list, NEW until, NEW q \in BasePositions
    PROVE  /\ Scarcity(list, until)[q].cutoff = Cutoff(list, q, until)
           /\ Scarcity(list, until)[q].top =
                  IF AtPosition(list, q) = <<>> THEN 0 ELSE AtPosition(list, q)[1]
BY DEF Scarcity

\* The cutoff survives a pick of the best player.
LEMMA CutoffMoves ==
    ASSUME Inv, ~board.failed, NEW was, NEW is, NEW n \in Nat \ {0},
           IsList(was, n), IsList(is, n - 1),
           \A i \in 2..n : is[i - 1] = was[i],
           NEW until \in Nat \ {0}, NEW q,
           Cutoff(was, q, until) # 0
    PROVE  /\ Cutoff(is, q, until - 1) # 0
           /\ is[Cutoff(is, q, until - 1)] = was[Cutoff(was, q, until)]
<1> DEFINE c == Cutoff(was, q, until)
           d == Cutoff(is, q, until - 1)
           R == RanksAt(was, q)
           S == RanksAt(is, q)
           pr(i) == was[i].positionRank[q]
<1>1. /\ c \in R /\ c > until
      /\ \A r \in R : r > until /\ r # c => Precedes(RankKeys(was, q)[c], RankKeys(was, q)[r])
  BY CutoffIsFirstLeft
<1>2. until - 1 \in Nat
  OBVIOUS
<1>3. /\ d # 0 <=> \E r \in S : r > until - 1
      /\ d # 0 => /\ d \in S /\ d > until - 1
                  /\ \A r \in S : r > until - 1 /\ r # d =>
                        Precedes(RankKeys(is, q)[d], RankKeys(is, q)[r])
  BY <1>2, CutoffIsFirstLeft
<1>4. \A i \in R : i \in 1..n /\ pr(i) \in Nat /\ RankKeys(was, q)[i] = <<pr(i), i>>
  BY RanksAreSortable DEF RankKeys
<1>5. \A i \in S : i \in 1..(n - 1) /\ RankKeys(is, q)[i] = <<is[i].positionRank[q], i>>
  BY RanksAreSortable DEF RankKeys
<1>6. ASSUME NEW i \in 1..(n - 1)
      PROVE  /\ i + 1 \in 1..n /\ i + 1 \in 2..n /\ is[i] = was[i + 1]
             /\ i \in S <=> i + 1 \in R
  <2>1. i + 1 \in 1..n /\ i + 1 \in 2..n /\ (i + 1) - 1 = i
    OBVIOUS
  <2>2. is[i] = was[i + 1]
    BY <2>1
  <2>3. QED
    BY <2>1, <2>2 DEF RanksAt, IsList
<1> HIDE DEF c, d, R, S
<1>7. c - 1 \in 1..(n - 1) /\ (c - 1) + 1 = c /\ c - 1 > until - 1
  BY <1>1, <1>4
<1>8. c - 1 \in S
  BY <1>1, <1>6, <1>7
<1>9. d # 0 /\ d \in S /\ d > until - 1
  BY <1>3, <1>7, <1>8
<1>10. d \in 1..(n - 1) /\ d + 1 \in R /\ d + 1 > until /\ is[d] = was[d + 1]
  BY <1>5, <1>6, <1>9
<1>11. d + 1 = c
  <2> SUFFICES ASSUME d + 1 # c PROVE FALSE
    OBVIOUS
  <2>1. Precedes(<<pr(c), c>>, <<pr(d + 1), d + 1>>)
    BY <1>1, <1>4, <1>10
  <2>2. RankKeys(is, q)[d] = <<pr(d + 1), d>>
    BY <1>5, <1>9, <1>10
  <2>3. RankKeys(is, q)[c - 1] = <<pr(c), c - 1>>
    BY <1>5, <1>6, <1>7, <1>8
  <2>4. d # c - 1
    BY <1>7, <1>10
  <2>5. Precedes(<<pr(d + 1), d>>, <<pr(c), c - 1>>)
    BY <1>3, <1>7, <1>8, <1>9, <2>2, <2>3, <2>4
  <2>6. /\ pr(c) \in Int /\ pr(d + 1) \in Int /\ c \in Int /\ d \in Int /\ d + 1 \in Int
        /\ c - 1 \in Int
    BY <1>1, <1>4, <1>7, <1>10
  <2> DEFINE a == pr(c)
             b == pr(d + 1)
  <2> HIDE DEF a, b
  <2>7. a < b \/ (a = b /\ c < d + 1)
    BY <2>1, <2>6, PairsPrecede DEF a, b
  <2>8. b < a \/ (b = a /\ d < c - 1)
    BY <2>5, <2>6, PairsPrecede DEF a, b
  <2>9. a \in Int /\ b \in Int
    BY <2>6 DEF a, b
  <2>10. QED
    BY <2>6, <2>7, <2>8, <2>9
<1>12. QED
  BY <1>9, <1>10, <1>11 DEF c, d

LEMMA CutoffHoldsOnPick ==
    ASSUME Inv, NEW p \in Pickable, OthersPick(picks, Append(picks, p))
    PROVE  CutoffHolds(picks, Append(picks, p))
<1> DEFINE after == Append(picks, p)
           was == Available(picks)
           is == Available(after)
           until == Until(picks)
<1>1. /\ ~board.failed /\ until \in Nat \ {0} /\ Until(after) = until - 1
      /\ Last(after) = p
  BY OthersPickShifts
<1>2. PICK n \in Nat : \E gone \in 1..n : Shifted(was, is, n, gone, p)
  BY <1>1, PickShifts
<1>3. PICK gone \in 1..n : Shifted(was, is, n, gone, p)
  BY <1>2
<1> HIDE DEF was, is, until, after
<1> SUFFICES ASSUME Last(after) = was[1].id,
                    NEW q \in BasePositions, Scarcity(was, until)[q].cutoff # 0
             PROVE  /\ Scarcity(is, until - 1)[q].cutoff # 0
                    /\ is[Scarcity(is, until - 1)[q].cutoff].id
                       = was[Scarcity(was, until)[q].cutoff].id
                    /\ until - 1 = 0 => Scarcity(is, until - 1)[q].top
                                        = Scarcity(is, until - 1)[q].cutoff
  BY <1>1 DEF CutoffHolds, was, is, until, after
<1>4. 1 \in 1..n /\ n \in Nat \ {0} /\ n - 1 \in Nat
  BY <1>3
<1>5. gone = 1
  BY <1>1, <1>3, <1>4 DEF Shifted
<1>6. IsList(was, n) /\ IsList(is, n - 1)
  BY <1>3, <1>4 DEF Shifted, IsList
<1>7. \A i \in 2..n : is[i - 1] = was[i]
  <2>1. \A i \in 2..n : i \in (1..n) \ {gone} /\ MovedTo(i, gone) = i - 1
    BY <1>4, <1>5 DEF MovedTo
  <2>2. QED
    BY <1>3, <2>1 DEF Shifted
<1>8. /\ Scarcity(was, until)[q].cutoff = Cutoff(was, q, until)
      /\ Scarcity(is, until - 1)[q].cutoff = Cutoff(is, q, until - 1)
      /\ Scarcity(is, until - 1)[q].top =
             IF AtPosition(is, q) = <<>> THEN 0 ELSE AtPosition(is, q)[1]
  BY ScarcityColumns
<1>9. /\ Cutoff(is, q, until - 1) # 0
      /\ is[Cutoff(is, q, until - 1)] = was[Cutoff(was, q, until)]
  BY <1>1, <1>4, <1>6, <1>7, <1>8, CutoffMoves
<1>10. until - 1 = 0 => Scarcity(is, until - 1)[q].top = Cutoff(is, q, until - 1)
  <2>1. Cutoff(is, q, 0) = IF AtPosition(is, q) = <<>> THEN 0 ELSE AtPosition(is, q)[1]
    BY <1>1, <1>6, CutoffAtTurn
  <2>2. QED
    BY <1>8, <2>1
<1>11. QED
  BY <1>8, <1>9, <1>10

\* The cutoff player announced for a position stays the same while others take
\* the best player, and is the position's best when the user's turn comes
\* (_position_scarcity with next_user_pick_context), in every draft.
THEOREM CutoffIsWhatIsLeftHolds == Spec => CutoffIsWhatIsLeft
<1>1. Inv /\ [Next]_vars =>
        [\A after \in {picks'} : OthersPick(picks, after) => CutoffHolds(picks, after)]_vars
  <2> SUFFICES ASSUME Inv, Next, NEW after, after = picks', OthersPick(picks, after)
               PROVE  CutoffHolds(picks, after)
    BY DEF vars
  <2>1. CASE Undo
    <3>1. picks # <<>> /\ after = Front(picks)
      BY <2>1 DEF Undo
    <3>2. QED
      BY <3>1, FrontIsShorter DEF OthersPick, NewPick
  <2>2. ASSUME NEW p \in Pickable, Draft(p)
        PROVE  CutoffHolds(picks, after)
    <3>1. after = Append(picks, p)
      BY <2>2 DEF Draft
    <3>2. QED
      BY <3>1, CutoffHoldsOnPick
  <2>3. QED
    BY <2>1, <2>2 DEF Next
<1>2. QED
  BY <1>1, InvHolds, PTL DEF Spec, CutoffIsWhatIsLeft

-------------------------------------------------------------------------------
(* Scores and what is said for and against a candidate. *)

LEMMA RosterCodes ==
    ASSUME NEW fit
    PROVE  /\ "FILLS_RESTRICTIVE_STARTER_SLOT" \in RosterReasons(fit) <=>
                  (fit.kind = "active" /\ fit.seat.slot \in RestrictiveSlotKeys)
           /\ "FILLS_FLEX_SLOT" \in RosterReasons(fit) <=>
                  (fit.kind = "active" /\ fit.seat.slot \notin RestrictiveSlotKeys)
           /\ "IMPROVES_ACTIVE_LINEUP" \in RosterReasons(fit) <=> fit.improves
           /\ "MULTI_POSITION_FLEXIBILITY" \in RosterReasons(fit) <=> fit.flexible
           /\ RosterReasons(fit) \subseteq {"FILLS_RESTRICTIVE_STARTER_SLOT", "FILLS_FLEX_SLOT",
                                            "IMPROVES_ACTIVE_LINEUP",
                                            "MULTI_POSITION_FLEXIBILITY"}
BY DEF RosterReasons, When

LEMMA SignalCodes ==
    ASSUME NEW in, NEW i, NEW severity, NEW outlook
    PROVE  LET said == SignalReasons(in, i, severity, outlook)
           IN  /\ "LIMITED_POSITION_DEPTH" \in said <=> severity = "HIGH"
               /\ "POSITION_VALUE_DROP" \in said <=> severity = "MEDIUM"
               /\ "UNLIKELY_TO_RETURN" \in said <=>
                      (~in.onClock /\ outlook = "UNLIKELY_TO_RETURN")
               /\ "AT_RISK_BEFORE_NEXT_PICK" \in said <=> (~in.onClock /\ outlook = "AT_RISK")
               /\ "BEFORE_MEANINGFUL_VALUE_DROP" \in said <=> i <= in.dropAfter
               /\ said \subseteq {"LIMITED_POSITION_DEPTH", "POSITION_VALUE_DROP",
                                  "UNLIKELY_TO_RETURN", "AT_RISK_BEFORE_NEXT_PICK",
                                  "BEFORE_MEANINGFUL_VALUE_DROP"}
BY DEF SignalReasons, When

LEMMA ValueCodes ==
    ASSUME NEW in, NEW item, NEW context
    PROVE  ValueReasons(in, item, context) \subseteq {"BEST_AVAILABLE_VALUE", "STRONG_VALUE"}
BY DEF ValueReasons, When

LEMMA WarningCodes ==
    ASSUME NEW in, NEW item, NEW fit, NEW severity, NEW outlook
    PROVE  "MISSING_CONTEXT" \in Warnings(in, item, fit, severity, outlook) <=>
               fit.kind = "unassigned"
BY DEF Warnings, When

\* The score of a close candidate is what its codes say, and its distance in
\* value from the best.
ScoreOf(reasons, warnings, proximity) ==
    [proximity |-> proximity,
     fit |-> (IF "FILLS_RESTRICTIVE_STARTER_SLOT" \in reasons THEN 10
              ELSE IF "FILLS_FLEX_SLOT" \in reasons THEN 6
              ELSE IF "MISSING_CONTEXT" \in warnings THEN -10 ELSE -4)
             + (IF "IMPROVES_ACTIVE_LINEUP" \in reasons THEN 4 ELSE 0),
     scarcity |-> IF "LIMITED_POSITION_DEPTH" \in reasons THEN 6
                  ELSE IF "POSITION_VALUE_DROP" \in reasons THEN 3 ELSE 0,
     availability |-> IF "UNLIKELY_TO_RETURN" \in reasons THEN 6
                      ELSE IF "AT_RISK_BEFORE_NEXT_PICK" \in reasons THEN 3 ELSE 0,
     valueDrop |-> IF "BEFORE_MEANINGFUL_VALUE_DROP" \in reasons THEN 3 ELSE 0,
     flexibility |-> IF "MULTI_POSITION_FLEXIBILITY" \in reasons THEN 2 ELSE 0]

LEMMA ScoreIsItsCodes ==
    ASSUME NEW in, NEW i, NEW fit, fit.kind \in {"active", "bench", "unassigned"}
    PROVE  LET c == RecommendAs(in, i, "CLOSE_VALUE", fit)
               p == ValueProximity(BestVor(in.available), Vor(in.available[i]))
           IN  c.score = ScoreOf(c.reasons, c.warnings, p)
<1> DEFINE item == in.available[i]
           position == ScarcityPosition(item, fit)
           severity == in.scarcity[position].severity
           outlook == Outlook(in.available, i, in.until)
           p == ValueProximity(BestVor(in.available), Vor(item))
           c == RecommendAs(in, i, "CLOSE_VALUE", fit)
           R == RosterReasons(fit)
           S == SignalReasons(in, i, severity, outlook)
           V == ValueReasons(in, item, "CLOSE_VALUE")
           W == Warnings(in, item, fit, severity, outlook)
<1>1. /\ c.reasons = V \cup R \cup S /\ c.warnings = W
      /\ c.score = ScoreBreakdown(in, i, fit, severity)
  BY DEF RecommendAs
<1>2. /\ "FILLS_RESTRICTIVE_STARTER_SLOT" \in R <=>
             (fit.kind = "active" /\ fit.seat.slot \in RestrictiveSlotKeys)
      /\ "FILLS_FLEX_SLOT" \in R <=>
             (fit.kind = "active" /\ fit.seat.slot \notin RestrictiveSlotKeys)
      /\ "IMPROVES_ACTIVE_LINEUP" \in R <=> fit.improves
      /\ "MULTI_POSITION_FLEXIBILITY" \in R <=> fit.flexible
      /\ R \subseteq {"FILLS_RESTRICTIVE_STARTER_SLOT", "FILLS_FLEX_SLOT",
                      "IMPROVES_ACTIVE_LINEUP", "MULTI_POSITION_FLEXIBILITY"}
  BY RosterCodes
<1>3. /\ "LIMITED_POSITION_DEPTH" \in S <=> severity = "HIGH"
      /\ "POSITION_VALUE_DROP" \in S <=> severity = "MEDIUM"
      /\ "UNLIKELY_TO_RETURN" \in S <=> (~in.onClock /\ outlook = "UNLIKELY_TO_RETURN")
      /\ "AT_RISK_BEFORE_NEXT_PICK" \in S <=> (~in.onClock /\ outlook = "AT_RISK")
      /\ "BEFORE_MEANINGFUL_VALUE_DROP" \in S <=> i <= in.dropAfter
      /\ S \subseteq {"LIMITED_POSITION_DEPTH", "POSITION_VALUE_DROP",
                      "UNLIKELY_TO_RETURN", "AT_RISK_BEFORE_NEXT_PICK",
                      "BEFORE_MEANINGFUL_VALUE_DROP"}
  BY SignalCodes
<1>4. V \subseteq {"BEST_AVAILABLE_VALUE", "STRONG_VALUE"}
  BY ValueCodes
<1>5. "MISSING_CONTEXT" \in W <=> fit.kind = "unassigned"
  BY WarningCodes
<1>6. ScoreBreakdown(in, i, fit, severity) =
        [proximity |-> p, fit |-> RosterFitScore(fit), scarcity |-> ScarcityScore(severity),
         availability |-> AvailabilityScore(outlook, in.onClock),
         valueDrop |-> IF i <= in.dropAfter THEN 3 ELSE 0,
         flexibility |-> IF fit.flexible THEN 2 ELSE 0]
  BY DEF ScoreBreakdown
<1> HIDE DEF R, S, V, W, severity, outlook, p, c
<1>7. RosterFitScore(fit) =
          (IF "FILLS_RESTRICTIVE_STARTER_SLOT" \in c.reasons THEN 10
           ELSE IF "FILLS_FLEX_SLOT" \in c.reasons THEN 6
           ELSE IF "MISSING_CONTEXT" \in c.warnings THEN -10 ELSE -4)
          + (IF "IMPROVES_ACTIVE_LINEUP" \in c.reasons THEN 4 ELSE 0)
  <2>1. /\ "FILLS_RESTRICTIVE_STARTER_SLOT" \in c.reasons <=>
             (fit.kind = "active" /\ fit.seat.slot \in RestrictiveSlotKeys)
        /\ "FILLS_FLEX_SLOT" \in c.reasons <=>
             (fit.kind = "active" /\ fit.seat.slot \notin RestrictiveSlotKeys)
        /\ "IMPROVES_ACTIVE_LINEUP" \in c.reasons <=> fit.improves
        /\ "MISSING_CONTEXT" \in c.warnings <=> fit.kind = "unassigned"
    BY <1>1, <1>2, <1>3, <1>4, <1>5
  <2>2. CASE fit.kind = "active"
    BY <2>1, <2>2 DEF RosterFitScore
  <2>3. CASE fit.kind = "bench"
    BY <2>1, <2>3 DEF RosterFitScore
  <2>4. CASE fit.kind = "unassigned"
    BY <2>1, <2>4 DEF RosterFitScore
  <2>5. QED
    BY <2>2, <2>3, <2>4
<1>8. ScarcityScore(severity) = IF "LIMITED_POSITION_DEPTH" \in c.reasons THEN 6
                                ELSE IF "POSITION_VALUE_DROP" \in c.reasons THEN 3 ELSE 0
  <2>1. /\ "LIMITED_POSITION_DEPTH" \in c.reasons <=> severity = "HIGH"
        /\ "POSITION_VALUE_DROP" \in c.reasons <=> severity = "MEDIUM"
    BY <1>1, <1>2, <1>3, <1>4
  <2>2. QED
    BY <2>1 DEF ScarcityScore
<1>9. AvailabilityScore(outlook, in.onClock) =
          IF "UNLIKELY_TO_RETURN" \in c.reasons THEN 6
          ELSE IF "AT_RISK_BEFORE_NEXT_PICK" \in c.reasons THEN 3 ELSE 0
  <2>1. /\ "UNLIKELY_TO_RETURN" \in c.reasons <=>
              (~in.onClock /\ outlook = "UNLIKELY_TO_RETURN")
        /\ "AT_RISK_BEFORE_NEXT_PICK" \in c.reasons <=> (~in.onClock /\ outlook = "AT_RISK")
    BY <1>1, <1>2, <1>3, <1>4
  <2>2. QED
    BY <2>1 DEF AvailabilityScore
<1>10. (IF i <= in.dropAfter THEN 3 ELSE 0)
       = IF "BEFORE_MEANINGFUL_VALUE_DROP" \in c.reasons THEN 3 ELSE 0
  BY <1>1, <1>2, <1>3, <1>4
<1>11. (IF fit.flexible THEN 2 ELSE 0)
       = IF "MULTI_POSITION_FLEXIBILITY" \in c.reasons THEN 2 ELSE 0
  BY <1>1, <1>2, <1>3, <1>4
<1>12. c.score = ScoreOf(c.reasons, c.warnings, p)
  BY <1>1, <1>6, <1>7, <1>8, <1>9, <1>10, <1>11 DEF ScoreOf
<1>13. QED
  BY <1>12 DEF c, p

LEMMA ScoresAreNumbers ==
    ASSUME NEW reasons, NEW warnings, NEW p \in Int
    PROVE  TotalScore(ScoreOf(reasons, warnings, p)) \in Int
BY DEF TotalScore, ScoreOf

\* Where no code speaks for the first and none against the second, the first
\* does not outscore the second by other things than its value.
LEMMA ScoresAreExplained ==
    ASSUME NEW r, NEW w, NEW p \in Int, NEW s, NEW v, NEW q \in Int,
           p < q, TotalScore(ScoreOf(r, w, p)) >= TotalScore(ScoreOf(s, v, q))
    PROVE  r \ (s \cup {"STRONG_VALUE"}) # {} \/ v \ w # {}
<1> SUFFICES ASSUME r \subseteq s \cup {"STRONG_VALUE"}, v \subseteq w PROVE FALSE
  OBVIOUS
<1> DEFINE a == ScoreOf(r, w, p)
           b == ScoreOf(s, v, q)
<1>1. /\ "FILLS_RESTRICTIVE_STARTER_SLOT" \in r => "FILLS_RESTRICTIVE_STARTER_SLOT" \in s
      /\ "FILLS_FLEX_SLOT" \in r => "FILLS_FLEX_SLOT" \in s
      /\ "IMPROVES_ACTIVE_LINEUP" \in r => "IMPROVES_ACTIVE_LINEUP" \in s
      /\ "LIMITED_POSITION_DEPTH" \in r => "LIMITED_POSITION_DEPTH" \in s
      /\ "POSITION_VALUE_DROP" \in r => "POSITION_VALUE_DROP" \in s
      /\ "UNLIKELY_TO_RETURN" \in r => "UNLIKELY_TO_RETURN" \in s
      /\ "AT_RISK_BEFORE_NEXT_PICK" \in r => "AT_RISK_BEFORE_NEXT_PICK" \in s
      /\ "BEFORE_MEANINGFUL_VALUE_DROP" \in r => "BEFORE_MEANINGFUL_VALUE_DROP" \in s
      /\ "MULTI_POSITION_FLEXIBILITY" \in r => "MULTI_POSITION_FLEXIBILITY" \in s
      /\ "MISSING_CONTEXT" \in v => "MISSING_CONTEXT" \in w
  OBVIOUS
<1>2. a.fit <= b.fit /\ a.fit \in Int /\ b.fit \in Int
  BY <1>1 DEF ScoreOf
<1>3. a.scarcity <= b.scarcity /\ a.scarcity \in Int /\ b.scarcity \in Int
  BY <1>1 DEF ScoreOf
<1>4. a.availability <= b.availability /\ a.availability \in Int /\ b.availability \in Int
  BY <1>1 DEF ScoreOf
<1>5. a.valueDrop <= b.valueDrop /\ a.valueDrop \in Int /\ b.valueDrop \in Int
  BY <1>1 DEF ScoreOf
<1>6. a.flexibility <= b.flexibility /\ a.flexibility \in Int /\ b.flexibility \in Int
  BY <1>1 DEF ScoreOf
<1>7. a.proximity = p /\ b.proximity = q
  BY DEF ScoreOf
<1> HIDE DEF a, b
<1>8. TotalScore(a) < TotalScore(b) /\ TotalScore(a) \in Int /\ TotalScore(b) \in Int
  BY <1>2, <1>3, <1>4, <1>5, <1>6, <1>7 DEF TotalScore
<1>9. QED
  BY <1>8 DEF a, b

-------------------------------------------------------------------------------
(* The recommendations. *)

FitOf(in, i) == RosterFit(in, in.available[i])

LEMMA FitKinds ==
    ASSUME NEW in, NEW i
    PROVE  FitOf(in, i).kind \in {"active", "bench", "unassigned"}
<1> DEFINE item == in.available[i]
           result == AssignRoster(in.players \cup {Candidate(item)}, in.slots)
           where == Where(result, item.id)
<1>1. where.kind \in {"active", "bench", "unassigned"}
  BY DEF Where
<1>2. FitOf(in, i) = FitIn(in, item, result)
  BY DEF FitOf, RosterFit
<1> HIDE DEF result
<1>3. FitIn(in, item, result).kind = where.kind
  BY DEF FitIn
<1>4. QED
  BY <1>1, <1>2, <1>3

Close(in) == {Recommend(in, i, "CLOSE_VALUE") : i \in CloseValue(in.available)}
CloseKeys(in) == [c \in Close(in) |-> ReorderableKey(in, c)]

\* A player with a position has a value.
LEMMA VorsAreNumbers ==
    ASSUME Inv, ~board.failed, NEW list, NEW n, IsList(list, n)
    PROVE  /\ \A i \in Recommendable(list) : i \in 1..n /\ Vor(list[i]) \in Int
           /\ Recommendable(list) # {} => BestVor(list) \in Int
           /\ CloseValue(list) \subseteq Recommendable(list)
<1>1. \A i \in Recommendable(list) : i \in 1..n /\ Vor(list[i]) \in Int
  <2> SUFFICES ASSUME NEW i \in Recommendable(list)
               PROVE  i \in 1..n /\ Vor(list[i]) \in Int
    OBVIOUS
  <2>1. i \in 1..n /\ DOMAIN list[i].vor # {} /\ list[i] \in board.items
    BY DEF Recommendable, IsList
  <2>2. IsValuation(list[i])
    BY <2>1, BoardHolds DEF IsBoard
  <2>3. QED
    BY <2>1, <2>2 DEF Vor, IsValuation
<1>2. Recommendable(list) # {} => BestVor(list) \in Int
  <2>1. Recommendable(list) \in SUBSET Nat
    BY <1>1 DEF IsList
  <2>2. Recommendable(list) # {} => Min(Recommendable(list)) \in Recommendable(list)
    BY <2>1, LeastNumber
  <2>3. QED
    BY <1>1, <2>2 DEF BestVor
<1>3. QED
  BY <1>1, <1>2 DEF CloseValue

\* What is known of a close candidate.
LEMMA CloseCandidates ==
    ASSUME Inv, ~board.failed, NEW in, NEW n, IsList(in.available, n), NEW c \in Close(in)
    PROVE  /\ c.at \in CloseValue(in.available)
           /\ c = Recommend(in, c.at, "CLOSE_VALUE")
           /\ c.context = "CLOSE_VALUE"
           /\ c.score = ScoreOf(c.reasons, c.warnings, c.score.proximity)
           /\ c.score.proximity = 200 - 4 * (BestVor(in.available) - Vor(in.available[c.at]))
           /\ c.score.proximity \in Int
           /\ TotalScore(c.score) \in Int
<1> DEFINE p(i) == ValueProximity(BestVor(in.available), Vor(in.available[i]))
<1>1. PICK i \in CloseValue(in.available) : c = Recommend(in, i, "CLOSE_VALUE")
  BY DEF Close
<1>2. c = RecommendAs(in, i, "CLOSE_VALUE", FitOf(in, i))
  BY <1>1 DEF Recommend, FitOf
<1>3. c.at = i /\ c.context = "CLOSE_VALUE"
  BY <1>2 DEF RecommendAs
<1>4. c.score = ScoreOf(c.reasons, c.warnings, p(i))
  BY <1>2, FitKinds, ScoreIsItsCodes
<1>5. p(i) \in Int /\ p(i) = 200 - 4 * (BestVor(in.available) - Vor(in.available[i]))
  <2>1. Vor(in.available[i]) \in Int /\ BestVor(in.available) \in Int
    BY VorsAreNumbers
  <2>2. QED
    BY <2>1 DEF ValueProximity
<1> HIDE DEF p
<1>6. c.score.proximity = p(i)
  BY <1>4 DEF ScoreOf
<1>7. TotalScore(c.score) \in Int
  BY <1>4, <1>5, ScoresAreNumbers
<1>8. QED
  BY <1>1, <1>3, <1>4, <1>5, <1>6, <1>7

LEMMA CloseIsSortable ==
    ASSUME Inv, ~board.failed, NEW in, NEW n, IsList(in.available, n)
    PROVE  /\ Sortable(Close(in), CloseKeys(in))
           /\ \A c \in Close(in) : /\ CloseKeys(in)[c] \in Seq(Int) /\ Len(CloseKeys(in)[c]) = 7
                                   /\ CloseKeys(in)[c][1] = -TotalScore(c.score)
<1> DEFINE list == in.available
<1>1. IsFiniteSet(Close(in))
  <2> DEFINE f == [i \in CloseValue(list) |-> Recommend(in, i, "CLOSE_VALUE")]
  <2>1. CloseValue(list) \in SUBSET (1..n) /\ n \in Nat
    BY VorsAreNumbers DEF IsList
  <2>2. IsFiniteSet(CloseValue(list))
    BY <2>1, FS_Interval, FS_Subset
  <2>3. Close(in) = {f[i] : i \in CloseValue(list)}
    BY DEF Close
  <2> HIDE DEF f
  <2>4. QED
    BY <2>2, <2>3, FiniteImage
<1>2. ASSUME NEW c \in Close(in)
      PROVE  /\ CloseKeys(in)[c] \in Seq(Int) /\ Len(CloseKeys(in)[c]) = 7
             /\ CloseKeys(in)[c][1] = -TotalScore(c.score)
             /\ CloseKeys(in)[c][7] = list[c.at].id
  <2> DEFINE item == list[c.at]
             a == -TotalScore(c.score)
             b == -c.score.proximity
             d == -OrLowest(Vor(item))
             e == -item.pts
  <2>1. c.at \in Recommendable(list) /\ c.score.proximity \in Int /\ TotalScore(c.score) \in Int
    BY CloseCandidates, VorsAreNumbers
  <2>2. item \in board.items /\ Vor(item) \in Int
    BY <2>1, VorsAreNumbers DEF IsList
  <2>3. /\ item.pts \in Int /\ item.name \in Int /\ item.id \in Int /\ item.rank \in Int
    BY <2>2, BoardHolds DEF IsBoard, IsValuation
  <2>4. a \in Int /\ b \in Int /\ d \in Int /\ e \in Int
    BY <2>1, <2>2, <2>3 DEF OrLowest
  <2>5. CloseKeys(in)[c] = <<a, b, d, e, item.rank, item.name, item.id>>
    BY DEF CloseKeys, ReorderableKey
  <2> HIDE DEF a, b, d, e, item
  <2>6. /\ CloseKeys(in)[c] \in Seq(Int) /\ Len(CloseKeys(in)[c]) = 7
        /\ CloseKeys(in)[c][1] = a /\ CloseKeys(in)[c][7] = item.id
    BY <2>3, <2>4, <2>5
  <2>7. QED
    BY <2>6 DEF a, item
<1>3. ASSUME NEW c \in Close(in), NEW d \in Close(in), CloseKeys(in)[c] = CloseKeys(in)[d]
      PROVE  c = d
  <2>1. list[c.at].id = list[d.at].id
    BY <1>2, <1>3
  <2>2. c.at \in 1..n /\ d.at \in 1..n
    BY CloseCandidates, VorsAreNumbers
  <2>3. c.at = d.at
    BY <2>1, <2>2 DEF IsList
  <2>4. c = Recommend(in, c.at, "CLOSE_VALUE") /\ d = Recommend(in, d.at, "CLOSE_VALUE")
    BY CloseCandidates
  <2>5. QED
    BY <2>3, <2>4
<1>4. Sortable(Close(in), CloseKeys(in))
  BY <1>1, <1>2, <1>3 DEF Sortable
<1>5. QED
  BY <1>2, <1>4

LEMMA FirstFewIs ==
    ASSUME NEW S, NEW s \in Seq(S)
    PROVE  \E r \in Nat : /\ DOMAIN FirstFew(s) = 1..r /\ r <= Len(s)
                          /\ \A k \in 1..r : FirstFew(s)[k] = s[k]
<1> DEFINE r == Min({ReturnLimit, Len(s)})
<1>1. Len(s) \in Nat /\ DOMAIN s = 1..Len(s)
  OBVIOUS
<1>2. {ReturnLimit, Len(s)} \in SUBSET Nat /\ {ReturnLimit, Len(s)} # {}
  BY <1>1 DEF ReturnLimit
<1>3. r \in {ReturnLimit, Len(s)} /\ \A y \in {ReturnLimit, Len(s)} : r <= y
  BY <1>2, LeastNumber
<1>4. r \in Nat /\ r <= Len(s)
  BY <1>2, <1>3
<1>5. FirstFew(s) = SubSeq(s, 1, r)
  BY DEF FirstFew
<1> HIDE DEF r
<1>6. \A i \in 1..r : s[i] \in S
  BY <1>1, <1>4
<1>7. /\ FirstFew(s) \in Seq(S)
      /\ Len(FirstFew(s)) = IF 1 <= r THEN r - 1 + 1 ELSE 0
      /\ \A i \in 1..(r - 1 + 1) : FirstFew(s)[i] = s[1 + i - 1]
  BY <1>4, <1>5, <1>6, SubSeqProperties
<1>8. r - 1 + 1 = r /\ \A i \in 1..r : 1 + i - 1 = i
  BY <1>4
<1>9. Len(FirstFew(s)) = r
  BY <1>4, <1>7, <1>8
<1>10. DOMAIN FirstFew(s) = 1..r
  BY <1>7, <1>9
<1>11. QED
  BY <1>4, <1>7, <1>8, <1>10

ClosePrecede(in, recs, r) ==
    LET first == SortedBy(Close(in), CloseKeys(in))
        m == Cardinality(Close(in))
    IN  /\ DOMAIN recs = 1..r
        /\ \A k \in 1..r : k <= m => recs[k] = first[k]
        /\ \A k \in 1..r : k > m => recs[k].context = "FALLBACK_VALUE"

\* The close candidates by score come first, the others follow.
LEMMA RecommendationsAre ==
    ASSUME Inv, ~board.failed, NEW in, NEW n, IsList(in.available, n)
    PROVE  \E r \in Nat : ClosePrecede(in, RecommendPlayers(in), r)
<1> DEFINE list == in.available
           recs == RecommendPlayers(in)
           first == SortedBy(Close(in), CloseKeys(in))
           m == Cardinality(Close(in))
           rest == {i \in Recommendable(list) \ CloseValue(list) : i <= MinCandidates}
           fallback == SortedBy(rest, [i \in rest |-> <<i>>])
           l == Cardinality(rest)
           others == [j \in DOMAIN fallback |-> Recommend(in, fallback[j], "FALLBACK_VALUE")]
           S == Close(in) \cup {others[j] : j \in 1..l}
<1>1. m \in Nat /\ first \in Seq(Close(in)) /\ Len(first) = m
  BY CloseIsSortable, SortedByIsSorted
<1>2. l \in Nat
  <2>1. rest \in SUBSET (1..n) /\ n \in Nat
    BY VorsAreNumbers DEF IsList
  <2>2. IsFiniteSet(1..n)
    BY <2>1, FS_Interval
  <2> HIDE DEF rest
  <2>3. IsFiniteSet(rest)
    BY <2>1, <2>2, FS_Subset
  <2>4. QED
    BY <2>3, FS_CardinalityType
<1>3. DOMAIN fallback = 1..l
  BY DEF SortedBy
<1>4. \A j \in 1..l : others[j].context = "FALLBACK_VALUE"
  BY <1>3 DEF Recommend, RecommendAs
<1>5. DOMAIN others = 1..l
  BY <1>3
<1>6. recs = IF Recommendable(list) = {} THEN <<>> ELSE FirstFew(first \o others)
  BY DEF RecommendPlayers, ByScore, Close, CloseKeys
<1>7. others = [j \in 1..l |-> others[j]]
  BY <1>3
<1> HIDE DEF recs, first, m, fallback, l, others
<1>8. others \in Seq(S) /\ Len(others) = l
  <2>1. others \in [1..l -> S]
    BY <1>7
  <2>2. QED
    BY <1>2, <2>1
<1>9. first \in Seq(S)
  BY <1>1, SeqMonotonic
<1> HIDE DEF S
<1>10. /\ first \o others \in Seq(S) /\ Len(first \o others) = m + l
       /\ \A i \in 1..(m + l) : (first \o others)[i] = IF i <= m THEN first[i] ELSE others[i - m]
  BY <1>1, <1>8, <1>9, ConcatProperties
<1>11. CASE Recommendable(list) = {}
  <2>1. recs = <<>> /\ DOMAIN recs = 1..0
    BY <1>6, <1>11
  <2>2. 0 \in Nat /\ 1..0 = {}
    OBVIOUS
  <2>3. QED
    BY <2>1, <2>2 DEF recs, ClosePrecede
<1>12. CASE Recommendable(list) # {}
  <2>1. recs = FirstFew(first \o others)
    BY <1>6, <1>12
  <2>2. PICK r \in Nat : /\ DOMAIN recs = 1..r /\ r <= m + l
                         /\ \A k \in 1..r : recs[k] = (first \o others)[k]
    BY <1>10, <2>1, FirstFewIs
  <2>3. ASSUME NEW k \in 1..r, k <= m
        PROVE  recs[k] = first[k]
    <3>1. k \in 1..(m + l)
      BY <1>1, <1>2, <2>2
    <3>2. QED
      BY <1>10, <2>2, <2>3, <3>1
  <2>4. ASSUME NEW k \in 1..r, k > m
        PROVE  recs[k].context = "FALLBACK_VALUE"
    <3>1. k \in 1..(m + l) /\ ~(k <= m) /\ k - m \in 1..l
      BY <1>1, <1>2, <2>2, <2>4
    <3>2. recs[k] = others[k - m]
      BY <1>10, <2>2, <3>1
    <3>3. QED
      BY <1>4, <3>1, <3>2
  <2>5. QED
    BY <2>2, <2>3, <2>4 DEF ClosePrecede, recs, first, m
<1>13. QED
  BY <1>11, <1>12

\* What is recommended of the close candidates, and why.
LEMMA CloseAreExplained ==
    ASSUME Inv, ~board.failed, NEW in, NEW n, IsList(in.available, n),
           NEW recs, recs = RecommendPlayers(in)
    PROVE  LET close == {k \in DOMAIN recs : recs[k].context = "CLOSE_VALUE"}
               vor(k) == Vor(in.available[recs[k].at])
           IN  /\ \A j, k \in close : j < k /\ vor(j) < vor(k) =>
                     \/ recs[j].reasons \ (recs[k].reasons \cup {"STRONG_VALUE"}) # {}
                     \/ recs[k].warnings \ recs[j].warnings # {}
               /\ close # DOMAIN recs =>
                     {recs[k].at : k \in close} = CloseValue(in.available)
<1> DEFINE close == {k \in DOMAIN recs : recs[k].context = "CLOSE_VALUE"}
           vor(k) == Vor(in.available[recs[k].at])
           C == Close(in)
           key == CloseKeys(in)
           first == SortedBy(C, key)
           m == Cardinality(C)
<1>1. PICK r \in Nat : ClosePrecede(in, recs, r)
  BY RecommendationsAre
<1>2. /\ m \in Nat
      /\ \A i \in 1..m : first[i] \in C
      /\ \A x \in C : \E i \in 1..m : first[i] = x
      /\ \A i, j \in 1..m : i < j <=> Precedes(key[first[i]], key[first[j]])
  <2>1. Sortable(C, key)
    BY CloseIsSortable
  <2> HIDE DEF C, key
  <2>2. /\ Cardinality(C) \in Nat
        /\ \A i \in 1..Cardinality(C) : SortedBy(C, key)[i] \in C
        /\ \A x \in C : \E i \in 1..Cardinality(C) : SortedBy(C, key)[i] = x
        /\ \A i, j \in 1..Cardinality(C) :
              i < j <=> Precedes(key[SortedBy(C, key)[i]], key[SortedBy(C, key)[j]])
    BY <2>1, SortedByIsSorted
  <2>3. QED
    BY <2>2
<1>3. \A c \in C : /\ key[c] \in Seq(Int) /\ Len(key[c]) = 7
                   /\ key[c][1] = -TotalScore(c.score)
  BY CloseIsSortable
<1>4. \A c \in C :
         /\ c.at \in CloseValue(in.available)
         /\ c = Recommend(in, c.at, "CLOSE_VALUE")
         /\ c.context = "CLOSE_VALUE"
         /\ c.score = ScoreOf(c.reasons, c.warnings, c.score.proximity)
         /\ c.score.proximity = 200 - 4 * (BestVor(in.available) - Vor(in.available[c.at]))
         /\ c.score.proximity \in Int
         /\ TotalScore(c.score) \in Int
  BY CloseCandidates
<1>5. \A i \in CloseValue(in.available) : \E c \in C : c.at = i
  <2>1. \A i : Recommend(in, i, "CLOSE_VALUE").at = i
    BY DEF Recommend, RecommendAs
  <2>2. QED
    BY <2>1 DEF Close
<1>11. /\ DOMAIN recs = 1..r
       /\ \A k \in 1..r : k <= m => recs[k] = first[k]
       /\ \A k \in 1..r : k > m => recs[k].context = "FALLBACK_VALUE"
  BY <1>1 DEF ClosePrecede
<1> HIDE DEF C, key, first, m
<1>6. close = {k \in 1..r : k <= m}
  <2>1. \A k \in 1..r : k <= m => recs[k].context = "CLOSE_VALUE"
    <3>1. \A k \in 1..r : k <= m => k \in 1..m
      BY <1>2
    <3>2. QED
      BY <1>11, <1>2, <1>4, <3>1
  <2>2. \A k \in 1..r : k <= m \/ k > m
    BY <1>2
  <2>3. \A k \in 1..r : k > m => recs[k].context # "CLOSE_VALUE"
    BY <1>11
  <2>4. QED
    BY <1>11, <2>1, <2>2, <2>3
<1>7. \A k \in close : k \in 1..m /\ recs[k] = first[k] /\ recs[k] \in C
  BY <1>11, <1>2, <1>6
<1>8. ASSUME NEW j \in close, NEW k \in close, j < k, vor(j) < vor(k)
      PROVE  \/ recs[j].reasons \ (recs[k].reasons \cup {"STRONG_VALUE"}) # {}
             \/ recs[k].warnings \ recs[j].warnings # {}
  <2> DEFINE c == recs[j]
             d == recs[k]
  <2>1. c \in C /\ d \in C /\ Precedes(key[c], key[d])
    BY <1>2, <1>7, <1>8
  <2>2. /\ key[c] \in Seq(Int) /\ key[d] \in Seq(Int) /\ Len(key[c]) = 7 /\ Len(key[d]) = 7
        /\ key[c][1] = -TotalScore(c.score) /\ key[d][1] = -TotalScore(d.score)
    BY <1>3, <2>1
  <2>3. /\ vor(j) \in Int /\ vor(k) \in Int /\ BestVor(in.available) \in Int
    BY <1>4, <2>1, VorsAreNumbers
  <2>4. /\ c.score = ScoreOf(c.reasons, c.warnings, c.score.proximity)
        /\ d.score = ScoreOf(d.reasons, d.warnings, d.score.proximity)
        /\ c.score.proximity = 200 - 4 * (BestVor(in.available) - vor(j))
        /\ d.score.proximity = 200 - 4 * (BestVor(in.available) - vor(k))
        /\ c.score.proximity \in Int /\ d.score.proximity \in Int
        /\ TotalScore(c.score) \in Int /\ TotalScore(d.score) \in Int
    BY <1>4, <2>1
  <2> HIDE DEF c, d, vor
  <2>5. c.score.proximity < d.score.proximity
    BY <1>8, <2>3, <2>4
  <2>6. TotalScore(c.score) >= TotalScore(d.score)
    <3> DEFINE a == key[c]
               b == key[d]
    <3> HIDE DEF a, b
    <3>1. PICK i \in DOMAIN a \cap DOMAIN b :
              a[i] < b[i] /\ \A x \in 1..(i - 1) : a[x] = b[x]
      BY <2>1 DEF Precedes, a, b
    <3>2. i \in 1..7
      BY <2>2 DEF a, b
    <3>3. a[1] <= b[1]
      <4>1. i = 1 \/ 1 \in 1..(i - 1)
        BY <3>2
      <4>2. a[1] \in Int /\ b[1] \in Int
        BY <2>2, <2>4 DEF a, b
      <4>3. QED
        BY <3>1, <4>1, <4>2
    <3>4. QED
      BY <2>2, <2>4, <3>3 DEF a, b
  <2>7. \/ c.reasons \ (d.reasons \cup {"STRONG_VALUE"}) # {}
        \/ d.warnings \ c.warnings # {}
    <3> DEFINE p == c.score.proximity
               q == d.score.proximity
    <3>1. TotalScore(ScoreOf(c.reasons, c.warnings, p))
          >= TotalScore(ScoreOf(d.reasons, d.warnings, q))
      BY <2>4, <2>6
    <3>2. p \in Int /\ q \in Int /\ p < q
      BY <2>4, <2>5
    <3> HIDE DEF p, q
    <3>3. QED
      BY <3>1, <3>2, ScoresAreExplained
  <2>8. QED
    BY <2>7 DEF c, d
<1>9. ASSUME close # DOMAIN recs
      PROVE  {recs[k].at : k \in close} = CloseValue(in.available)
  <2>1. \A i \in 1..m : i \in close
    <3>1. PICK k \in 1..r : ~(k <= m)
      BY <1>11, <1>6, <1>9
    <3>2. QED
      BY <1>2, <1>6, <3>1
  <2>2. \A c \in C : \E k \in close : recs[k] = c
    BY <1>2, <1>7, <2>1
  <2>3. \A i \in CloseValue(in.available) : \E k \in close : recs[k].at = i
    BY <1>5, <2>2
  <2>4. \A k \in close : recs[k].at \in CloseValue(in.available)
    BY <1>4, <1>7
  <2> HIDE DEF close
  <2>5. QED
    BY <2>3, <2>4
<1>10. QED
  BY <1>8, <1>9

LEMMA AvailableIsList ==
    ASSUME Inv, ~board.failed, NEW taken
    PROVE  \E n \in Nat : IsList(Available(taken), n)
<1> DEFINE U == Undrafted(taken)
           s == Available(taken)
<1>1. Sortable(U, BestKeys(U)) /\ s = SortedBy(U, BestKeys(U))
  BY AvailableIsSorted
<1>2. /\ Cardinality(U) \in Nat /\ DOMAIN s = 1..Cardinality(U)
      /\ \A i \in 1..Cardinality(U) : s[i] \in U /\ PlaceIn(U, BestKeys(U), s[i]) = i
  BY <1>1, SortedByIsSorted
<1>3. U \in SUBSET board.items /\ \A x, y \in board.items : x.id = y.id => x = y
  BY BoardHolds DEF Undrafted, IsBoard
<1> HIDE DEF U, s
<1>4. IsList(s, Cardinality(U))
  BY <1>2, <1>3 DEF IsList
<1>5. QED
  BY <1>2, <1>4 DEF s

\* A recommendation before a more valuable close one has a reason of its own,
\* and players outside the window come after all inside it (recommend_players),
\* for every league, projection set, roster and draft.
THEOREM OrderIsExplainedHolds == Spec => []OrderIsExplained
<1>1. Inv => OrderIsExplained
  <2> SUFFICES ASSUME Inv, ~board.failed PROVE OrderIsExplained
    BY DEF OrderIsExplained
  <2> DEFINE in == Input(picks)
             answer == Assistant(picks)
  <2>1. in.available = Available(picks)
    BY DEF Input
  <2>2. PICK n \in Nat : IsList(in.available, n)
    BY <2>1, AvailableIsList
  <2> HIDE DEF in
  <2>3. answer.available = in.available /\ answer.recommendations = RecommendPlayers(in)
    BY DEF Assistant, Answer, in
  <2> HIDE DEF answer
  <2>4. LET recs == answer.recommendations
            close == {k \in DOMAIN recs : recs[k].context = "CLOSE_VALUE"}
            vor(k) == Vor(in.available[recs[k].at])
        IN  /\ \A j, k \in close : j < k /\ vor(j) < vor(k) =>
                  \/ recs[j].reasons \ (recs[k].reasons \cup {"STRONG_VALUE"}) # {}
                  \/ recs[k].warnings \ recs[j].warnings # {}
            /\ close # DOMAIN recs => {recs[k].at : k \in close} = CloseValue(in.available)
    BY <2>2, <2>3, CloseAreExplained
  <2>5. QED
    BY <2>3, <2>4 DEF OrderIsExplained, answer
<1>2. QED
  BY <1>1, InvHolds, PTL

-------------------------------------------------------------------------------
(* Seatings of a roster, and their keys. *)

\* Finitely many players, told apart by their ids, and n slots.
IsRoster(players, active, n) ==
    /\ n \in Nat /\ DOMAIN active = 1..n
    /\ IsFiniteSet(players)
    /\ \A p \in players : p.id \in Int /\ p.name \in Int /\ p.pts \in Int
    /\ \A p, q \in players : p.id = q.id => p = q
    /\ \A i \in 1..n : Place(SlotOrder, active[i].slot) \in Int /\ active[i].index \in Int
    /\ \A i, j \in 1..n : SlotKey(active[i]) = SlotKey(active[j]) => i = j

\* Seats in the first i slots, and the ways to take some of them.
Seats(players, active, i) ==
    {s \in {[player |-> p, at |-> k] : p \in players, k \in 1..i} :
        CanPlay(s.player, active[s.at])}
Seatings(players, active, i) ==
    {S \in SUBSET Seats(players, active, i) :
        \A s, t \in S : s # t => s.player # t.player /\ s.at # t.at}

LEMMA SeatIs ==
    ASSUME NEW players, NEW active, NEW i, NEW s \in Seats(players, active, i)
    PROVE  /\ s.player \in players /\ s.at \in 1..i
           /\ CanPlay(s.player, active[s.at])
           /\ s = [player |-> s.player, at |-> s.at]
BY DEF Seats

LEMMA SeatingsAreFinite ==
    ASSUME NEW players, IsFiniteSet(players), NEW active, NEW i \in Nat
    PROVE  /\ IsFiniteSet(Seatings(players, active, i))
           /\ \A S \in Seatings(players, active, i) :
                 IsFiniteSet(S) /\ Cardinality(S) \in Nat
<1> DEFINE A == Seats(players, active, i)
           D == players \X (1..i)
           f == [x \in D |-> [player |-> x[1], at |-> x[2]]]
<1>1. IsFiniteSet(D)
  <2>1. IsFiniteSet(1..i)
    BY FS_Interval
  <2>2. QED
    BY <2>1, FS_Product
<1>2. A \subseteq {f[x] : x \in D}
  <2>1. ASSUME NEW p \in players, NEW k \in 1..i
        PROVE  <<p, k>> \in D /\ f[<<p, k>>] = [player |-> p, at |-> k]
    <3>1. <<p, k>> \in D
      OBVIOUS
    <3>2. f[<<p, k>>] = [player |-> <<p, k>>[1], at |-> <<p, k>>[2]]
      BY <3>1
    <3>3. <<p, k>>[1] = p /\ <<p, k>>[2] = k
      OBVIOUS
    <3>4. QED
      BY <3>1, <3>2, <3>3
  <2> HIDE DEF D, f
  <2>2. \A s \in A : s = f[<<s.player, s.at>>] /\ <<s.player, s.at>> \in D
    BY <2>1, SeatIs
  <2> HIDE DEF A
  <2>3. QED
    BY <2>2
<1> HIDE DEF D, f
<1>3. IsFiniteSet({f[x] : x \in D})
  BY <1>1, FiniteImage
<1>4. IsFiniteSet(A)
  BY <1>2, <1>3, FS_Subset
<1> HIDE DEF A
<1>5. IsFiniteSet(SUBSET A)
  BY <1>4, FS_SUBSET
<1>6. Seatings(players, active, i) \in SUBSET (SUBSET A)
  BY DEF Seatings, A
<1>7. IsFiniteSet(Seatings(players, active, i))
  BY <1>5, <1>6, FS_Subset
<1>8. \A S \in SUBSET A : IsFiniteSet(S)
  BY <1>4, FS_Subset
<1>9. QED
  BY <1>6, <1>7, <1>8, FS_CardinalityType

\* The seats of a seating, slot by slot.
AtKeys(S) == [s \in S |-> <<s.at>>]
Ordered(S) == SortedBy(S, AtKeys(S))

LEMMA SinglesPrecede ==
    ASSUME NEW a \in Int, NEW b \in Int
    PROVE  Precedes(<<a>>, <<b>>) <=> a < b
<1>1. DOMAIN <<a>> \cap DOMAIN <<b>> = {1}
  OBVIOUS
<1>2. \A j \in 1..(1 - 1) : <<a>>[j] = <<b>>[j]
  OBVIOUS
<1>3. <<a>>[1] = a /\ <<b>>[1] = b
  OBVIOUS
<1>4. Precedes(<<a>>, <<b>>) <=> \E i \in {1} : <<a>>[i] < <<b>>[i] /\ \A j \in 1..(i - 1) : <<a>>[j] = <<b>>[j]
  BY <1>1 DEF Precedes
<1>5. QED
  BY <1>2, <1>3, <1>4

LEMMA SeatsAreOrdered ==
    ASSUME NEW players, IsFiniteSet(players), NEW active, NEW i \in Nat,
           NEW S \in Seatings(players, active, i)
    PROVE  /\ Sortable(S, AtKeys(S))
           /\ \A s \in S : s.at \in Int /\ AtKeys(S)[s] = <<s.at>>
           /\ \A s, t \in S : Precedes(AtKeys(S)[s], AtKeys(S)[t]) <=> s.at < t.at
<1>1. IsFiniteSet(S)
  BY SeatingsAreFinite
<1>2. \A s \in S : s.at \in Int /\ AtKeys(S)[s] = <<s.at>>
  BY SeatIs DEF Seatings, AtKeys
<1>3. \A s, t \in S : s.at = t.at => s = t
  BY DEF Seatings
<1>4. \A a, b \in Int : <<a>> \in Seq(Int) /\ Len(<<a>>) = 1 /\ (<<a>> = <<b>> => a = b)
  OBVIOUS
<1>5. Sortable(S, AtKeys(S))
  <2> DEFINE key == AtKeys(S)
  <2>1. \A s \in S : key[s] \in Seq(Int) /\ Len(key[s]) = 1
    BY <1>2, <1>4
  <2>2. \A s, t \in S : key[s] = key[t] => s = t
    BY <1>2, <1>3, <1>4
  <2> HIDE DEF key
  <2>3. Sortable(S, key)
    BY <1>1, <2>1, <2>2 DEF Sortable
  <2>4. QED
    BY <2>3 DEF key
<1>6. QED
  BY <1>2, <1>5, SinglesPrecede

\* What _state_key says of a seat.
Row(s, active) ==
    <<-Place(SlotOrder, active[s.at].slot), -active[s.at].index,
      s.player.pts, -s.player.name, -s.player.id>>

LEMMA Fives ==
    ASSUME NEW y \in Nat, NEW k \in 1..5
    PROVE  ((5 * y + k) - 1) \div 5 = y /\ ((5 * y + k) - 1) % 5 = k - 1
<1> DEFINE x == (5 * y + k) - 1
<1>1. x \in Nat /\ x = 5 * y + (k - 1) /\ k - 1 \in 0..4
  OBVIOUS
<1> HIDE DEF x
<1>2. x = 5 * (x \div 5) + (x % 5) /\ x % 5 \in 0..4 /\ x \div 5 \in Int
  BY <1>1
<1>3. QED
  BY <1>1, <1>2 DEF x

LEMMA InFives ==
    ASSUME NEW m \in Nat, NEW x \in 1..(5 * m)
    PROVE  \E j \in 1..m, k \in 1..5 : x = 5 * (j - 1) + k
<1> DEFINE y == x - 1
<1>1. y \in Nat /\ y < 5 * m
  OBVIOUS
<1> HIDE DEF y
<1>2. y = 5 * (y \div 5) + (y % 5) /\ y % 5 \in 0..4 /\ y \div 5 \in Int
  BY <1>1
<1> DEFINE j == (y \div 5) + 1
           k == (y % 5) + 1
<1>3. j \in 1..m /\ k \in 1..5 /\ y = 5 * (j - 1) + (k - 1)
  BY <1>1, <1>2
<1> HIDE DEF j, k
<1>4. x = 5 * (j - 1) + k
  BY <1>3 DEF y
<1>5. QED
  BY <1>3, <1>4

\* A sequence of rows of five numbers, one after the other.
LEMMA RowsInLine ==
    ASSUME NEW rows \in Seq(Seq(Int)), \A j \in 1..Len(rows) : Len(rows[j]) = 5
    PROVE  /\ FlattenSeq(rows) \in Seq(Int)
           /\ Len(FlattenSeq(rows)) = 5 * Len(rows)
           /\ \A j \in 1..Len(rows), k \in 1..5 :
                 FlattenSeq(rows)[5 * (j - 1) + k] = rows[j][k]
<1> DEFINE m == Len(rows)
           cell(x) == rows[((x - 1) \div 5) + 1][((x - 1) % 5) + 1]
           g == [i \in 1..m |-> [x \in 1..(5 * i) |-> cell(x)]]
           Next5(h) == [i \in 1..m |-> IF i = 1 THEN rows[i] ELSE h[i - 1] \o rows[i]]
           flat == CHOOSE h : h = Next5(h)
<1>1. m \in Nat /\ DOMAIN rows = 1..m
  OBVIOUS
<1>2. \A j \in 1..m, k \in 1..5 : /\ 5 * (j - 1) + k \in 1..(5 * m)
                                  /\ cell(5 * (j - 1) + k) = rows[j][k]
  <2> SUFFICES ASSUME NEW j \in 1..m, NEW k \in 1..5
               PROVE  /\ 5 * (j - 1) + k \in 1..(5 * m)
                      /\ cell(5 * (j - 1) + k) = rows[j][k]
    OBVIOUS
  <2>1. j - 1 \in Nat
    BY <1>1
  <2>2. ((5 * (j - 1) + k) - 1) \div 5 = j - 1 /\ ((5 * (j - 1) + k) - 1) % 5 = k - 1
    BY <2>1, Fives
  <2> HIDE DEF m
  <2>3. 5 * (j - 1) + k \in 1..(5 * m)
    BY <1>1, <2>1
  <2>4. (j - 1) + 1 = j /\ (k - 1) + 1 = k
    BY <2>1
  <2>5. cell(5 * (j - 1) + k) = rows[j][k]
    BY <2>2, <2>4
  <2>6. QED
    BY <2>3, <2>5
<1>3. \A x \in 1..(5 * m) : cell(x) \in Int
  <2> SUFFICES ASSUME NEW x \in 1..(5 * m) PROVE cell(x) \in Int
    OBVIOUS
  <2>1. PICK j \in 1..m, k \in 1..5 : x = 5 * (j - 1) + k
    BY <1>1, InFives
  <2>2. rows[j] \in Seq(Int) /\ Len(rows[j]) = 5
    BY <1>1
  <2>3. rows[j][k] \in Int
    BY <2>2
  <2>4. QED
    BY <1>2, <2>1, <2>3
<1>4. \A i \in 1..m : /\ g[i] \in Seq(Int) /\ Len(g[i]) = 5 * i
                      /\ \A x \in 1..(5 * i) : g[i][x] = cell(x)
  <2> HIDE DEF cell
  <2> SUFFICES ASSUME NEW i \in 1..m
               PROVE  /\ g[i] \in Seq(Int) /\ Len(g[i]) = 5 * i
                      /\ \A x \in 1..(5 * i) : g[i][x] = cell(x)
    OBVIOUS
  <2>1. 5 * i \in Nat /\ \A x \in 1..(5 * i) : cell(x) \in Int
    BY <1>1, <1>3
  <2>2. g[i] = [x \in 1..(5 * i) |-> cell(x)]
    OBVIOUS
  <2>3. g[i] \in [1..(5 * i) -> Int]
    BY <2>1, <2>2
  <2>4. QED
    BY <2>1, <2>2, <2>3
<1>5. \A i \in 1..m : g[i] = IF i = 1 THEN rows[i] ELSE g[i - 1] \o rows[i]
  <2> HIDE DEF cell, g
  <2> SUFFICES ASSUME NEW i \in 1..m
               PROVE  g[i] = IF i = 1 THEN rows[i] ELSE g[i - 1] \o rows[i]
    OBVIOUS
  <2>1. rows[i] \in Seq(Int) /\ Len(rows[i]) = 5
    BY <1>1
  <2>2. \A k \in 1..5 : cell(5 * (i - 1) + k) = rows[i][k]
    BY <1>2
  <2>3. CASE i = 1
    <3>1. g[1] \in Seq(Int) /\ Len(g[1]) = 5 /\ \A x \in 1..5 : g[1][x] = cell(x)
      <4>1. /\ g[i] \in Seq(Int) /\ Len(g[i]) = 5 * i
            /\ \A x \in 1..(5 * i) : g[i][x] = cell(x)
        BY <1>4
      <4>2. 5 * i = 5
        BY <2>3
      <4>3. QED
        BY <2>3, <4>1, <4>2
    <3>2. \A x \in 1..5 : cell(x) = rows[1][x]
      BY <2>2, <2>3
    <3>3. rows[1] \in Seq(Int) /\ Len(rows[1]) = 5
      BY <2>1, <2>3
    <3>4. g[1] = rows[1]
      <4>1. Len(g[1]) = Len(rows[1]) /\ \A x \in 1..Len(g[1]) : g[1][x] = rows[1][x]
        BY <3>1, <3>2, <3>3
      <4>2. QED
        BY <3>1, <3>3, <4>1, SeqEqual
    <3>5. QED
      BY <2>3, <3>4
  <2>4. CASE i # 1
    <3>1. i - 1 \in 1..m /\ 5 * i = 5 * (i - 1) + 5
      BY <1>1, <2>4
    <3>2. /\ g[i - 1] \in Seq(Int) /\ Len(g[i - 1]) = 5 * (i - 1)
          /\ \A x \in 1..(5 * (i - 1)) : g[i - 1][x] = cell(x)
      BY <1>4, <3>1
    <3>3. /\ g[i] \in Seq(Int) /\ Len(g[i]) = 5 * (i - 1) + 5
          /\ \A x \in 1..(5 * (i - 1) + 5) : g[i][x] = cell(x)
      BY <1>4, <3>1
    <3>4. /\ g[i - 1] \o rows[i] \in Seq(Int)
          /\ Len(g[i - 1] \o rows[i]) = 5 * (i - 1) + 5
          /\ \A x \in 1..(5 * (i - 1) + 5) : (g[i - 1] \o rows[i])[x] =
                IF x <= 5 * (i - 1) THEN g[i - 1][x] ELSE rows[i][x - 5 * (i - 1)]
      <4>1. /\ g[i - 1] \o rows[i] \in Seq(Int)
            /\ Len(g[i - 1] \o rows[i]) = Len(g[i - 1]) + Len(rows[i])
            /\ \A x \in 1..(Len(g[i - 1]) + Len(rows[i])) : (g[i - 1] \o rows[i])[x] =
                IF x <= Len(g[i - 1]) THEN g[i - 1][x] ELSE rows[i][x - Len(g[i - 1])]
        BY <2>1, <3>2, ConcatProperties
      <4>2. QED
        BY <2>1, <3>2, <4>1
    <3>5. ASSUME NEW x \in 1..(5 * (i - 1) + 5)
          PROVE  g[i][x] = (g[i - 1] \o rows[i])[x]
      <4>1. CASE x <= 5 * (i - 1)
        <5>1. x \in 1..(5 * (i - 1))
          BY <3>1, <4>1
        <5>2. QED
          BY <3>2, <3>3, <3>4, <4>1, <5>1
      <4>2. CASE ~(x <= 5 * (i - 1))
        <5>1. x - 5 * (i - 1) \in 1..5 /\ 5 * (i - 1) + (x - 5 * (i - 1)) = x
          BY <3>1, <4>2
        <5>2. cell(x) = rows[i][x - 5 * (i - 1)]
          BY <2>2, <5>1
        <5>3. QED
          BY <3>3, <3>4, <4>2, <5>2
      <4>3. QED
        BY <4>1, <4>2
    <3>6. QED
      BY <2>4, <3>3, <3>4, <3>5, SeqEqual
  <2>5. QED
    BY <2>3, <2>4
<1> HIDE DEF cell
<1>6. g = Next5(g)
  <2>1. g = [i \in 1..m |-> g[i]]
    OBVIOUS
  <2> HIDE DEF g
  <2>2. QED
    BY <1>5, <2>1
<1> HIDE DEF g
<1>7. flat = Next5(flat)
  BY <1>6
<1> HIDE DEF flat
<1>8. \A i \in 1..m : flat[i] = g[i]
  <2> DEFINE bad == {i \in 1..m : flat[i] # g[i]}
  <2> SUFFICES ASSUME bad # {} PROVE FALSE
    OBVIOUS
  <2>1. bad \in SUBSET Nat
    BY <1>1
  <2>2. PICK i \in bad : \A j \in bad : i <= j
    BY <2>1, LeastNumber
  <2>3. flat[i] = IF i = 1 THEN rows[i] ELSE flat[i - 1] \o rows[i]
    BY <1>7
  <2>4. i # 1
    BY <1>5, <2>3
  <2>5. i - 1 \in 1..m /\ ~(i <= i - 1)
    BY <1>1, <2>4
  <2>6. flat[i - 1] = g[i - 1]
    BY <2>2, <2>5
  <2>7. QED
    BY <1>5, <2>3, <2>4, <2>6
<1>9. CASE m = 0
  <2>1. FlattenSeq(rows) = rows
    BY <1>9 DEF FlattenSeq
  <2>2. rows = <<>> /\ <<>> \in Seq(Int) /\ Len(<<>>) = 0
    BY <1>9
  <2>3. 1..m = {} /\ 5 * m = 0
    BY <1>9
  <2>4. QED
    BY <2>1, <2>2, <2>3
<1>10. CASE m # 0
  <2>1. FlattenSeq(rows) = flat[m]
    BY <1>10 DEF FlattenSeq, flat
  <2>2. m \in 1..m
    BY <1>1, <1>10
  <2>3. FlattenSeq(rows) = g[m]
    BY <1>8, <2>1, <2>2
  <2>4. \A j \in 1..m, k \in 1..5 : g[m][5 * (j - 1) + k] = rows[j][k]
    BY <1>2, <1>4, <2>2
  <2>5. g[m] \in Seq(Int) /\ Len(g[m]) = 5 * m
    BY <1>4, <2>2
  <2>6. QED
    BY <2>3, <2>4, <2>5
<1>11. QED
  BY <1>9, <1>10

LEMMA PreservationIsNumber ==
    ASSUME NEW player, NEW active, NEW n \in Nat, DOMAIN active = 1..n, NEW instance
    PROVE  Preservation(player, instance, active) \in Int
<1> DEFINE T == {j \in DOMAIN active : CanPlay(player, active[j])}
           f == [j \in T |-> active[j].slot]
<1>1. T \in SUBSET (1..n) /\ IsFiniteSet(1..n)
  BY FS_Interval
<1>2. {active[i].slot : i \in T} = {f[i] : i \in T}
  OBVIOUS
<1>3. Flexibility(player, active) = Cardinality({active[i].slot : i \in T})
  BY DEF Flexibility
<1> HIDE DEF T
<1>4. IsFiniteSet(T)
  BY <1>1, FS_Subset
<1> HIDE DEF f
<1>5. IsFiniteSet({f[i] : i \in T})
  BY <1>4, FiniteImage
<1>6. Flexibility(player, active) \in Nat
  BY <1>2, <1>3, <1>5, FS_CardinalityType
<1>7. QED
  BY <1>6 DEF Preservation

Points(S) == Total([s \in S |-> s.player.pts], S)
Kept(S, active) == Total([s \in S |-> Preservation(s.player, active[s.at], active)], S)

\* After the three sums a key reads the seats, slot by slot.
ReadsRows(key, S, active) ==
    \A j \in 1..Cardinality(S), k \in 1..5 :
        key[3 + (5 * (j - 1) + k)] = Row(Ordered(S)[j], active)[k]

\* The key of a seating, number by number.
LEMMA KeyIs ==
    ASSUME NEW players, NEW active, NEW n, IsRoster(players, active, n),
           NEW i \in 0..n, NEW S \in Seatings(players, active, i)
    PROVE  LET m == Cardinality(S)
               key == SeatsKey(S, active)
           IN  /\ m \in Nat /\ Points(S) \in Int /\ Kept(S, active) \in Int
               /\ key \in Seq(Int) /\ Len(key) = 3 + 5 * m
               /\ key[1] = m /\ key[2] = Points(S) /\ key[3] = Kept(S, active)
               /\ ReadsRows(key, S, active)
<1> DEFINE m == Cardinality(S)
           rows == [j \in 1..m |-> Row(Ordered(S)[j], active)]
<1>1. /\ n \in Nat /\ i \in Nat /\ DOMAIN active = 1..n /\ IsFiniteSet(players)
      /\ IsFiniteSet(S) /\ m \in Nat
  BY SeatingsAreFinite DEF IsRoster
<1>2. \A s \in S : s.player \in players /\ s.at \in 1..n
  BY <1>1, SeatIs DEF Seatings
<1>3. /\ \A s \in S : s.player.pts \in Int
      /\ \A s \in S : Preservation(s.player, active[s.at], active) \in Int
  BY <1>1, <1>2, PreservationIsNumber DEF IsRoster
<1>4. Points(S) \in Int /\ SumFunction([s \in S |-> s.player.pts]) = Points(S)
  <2> DEFINE w == [s \in S |-> s.player.pts]
  <2>1. DOMAIN w = S /\ \A s \in S : w[s] \in Int
    BY <1>3
  <2> HIDE DEF w
  <2>2. SumFunction(w) = Total(w, S) /\ Total(w, S) \in Int
    BY <1>1, <2>1, SumIsTotal, TotalAddsUp
  <2>3. QED
    BY <2>2 DEF w, Points
<1>5. /\ Kept(S, active) \in Int
      /\ SumFunction([s \in S |-> Preservation(s.player, active[s.at], active)]) = Kept(S, active)
  <2> DEFINE w == [s \in S |-> Preservation(s.player, active[s.at], active)]
  <2>1. DOMAIN w = S /\ \A s \in S : w[s] \in Int
    BY <1>3
  <2> HIDE DEF w
  <2>2. SumFunction(w) = Total(w, S) /\ Total(w, S) \in Int
    BY <1>1, <2>1, SumIsTotal, TotalAddsUp
  <2>3. QED
    BY <2>2 DEF w, Kept
<1>6. DOMAIN Ordered(S) = 1..m /\ \A j \in 1..m : Ordered(S)[j] \in S
  BY <1>1, SeatsAreOrdered, SortedByIsSorted DEF Ordered
<1>7. \A s \in S : Row(s, active) \in Seq(Int) /\ Len(Row(s, active)) = 5
  <2>1. \A a, b, c, d, e \in Int : /\ <<-a, -b, c, -d, -e>> \in Seq(Int)
                                   /\ Len(<<-a, -b, c, -d, -e>>) = 5
    OBVIOUS
  <2>2. QED
    BY <1>2, <2>1 DEF Row, IsRoster
<1>8. Details(Ordered(S), active) = FlattenSeq(rows)
  BY <1>6 DEF Details, Row
<1>9. /\ rows \in Seq(Seq(Int)) /\ Len(rows) = m
      /\ \A j \in 1..m : rows[j] = Row(Ordered(S)[j], active) /\ Len(rows[j]) = 5
  <2>1. \A j \in 1..m : rows[j] \in Seq(Int) /\ rows[j] = Row(Ordered(S)[j], active) /\ Len(rows[j]) = 5
    BY <1>6, <1>7
  <2>2. rows = [j \in 1..m |-> rows[j]]
    OBVIOUS
  <2> HIDE DEF rows, m
  <2>3. rows \in [1..m -> Seq(Int)]
    BY <2>1, <2>2
  <2>4. QED
    BY <1>1, <2>1, <2>3
<1> HIDE DEF rows, m
<1> DEFINE d == Details(Ordered(S), active)
           h == <<m, Points(S), Kept(S, active)>>
           key == SeatsKey(S, active)
<1>10. /\ d \in Seq(Int) /\ Len(d) = 5 * m
       /\ \A j \in 1..m, k \in 1..5 : d[5 * (j - 1) + k] = Row(Ordered(S)[j], active)[k]
  <2>1. /\ FlattenSeq(rows) \in Seq(Int) /\ Len(FlattenSeq(rows)) = 5 * Len(rows)
        /\ \A j \in 1..Len(rows), k \in 1..5 : FlattenSeq(rows)[5 * (j - 1) + k] = rows[j][k]
    BY <1>9, RowsInLine
  <2>2. QED
    BY <1>8, <1>9, <2>1
<1>11. key = h \o d
  BY <1>4, <1>5 DEF SeatsKey, Ordered, AtKeys, m
<1>12. h \in Seq(Int) /\ Len(h) = 3 /\ h[1] = m /\ h[2] = Points(S) /\ h[3] = Kept(S, active)
  BY <1>1, <1>4, <1>5
<1> HIDE DEF d, h, key
<1>13. /\ h \o d \in Seq(Int) /\ Len(h \o d) = Len(h) + Len(d)
       /\ \A x \in 1..(Len(h) + Len(d)) :
             (h \o d)[x] = IF x <= Len(h) THEN h[x] ELSE d[x - Len(h)]
  BY <1>10, <1>12, ConcatProperties
<1>14. 5 * m \in Nat
  BY <1>1
<1>15. /\ key \in Seq(Int) /\ Len(key) = 3 + 5 * m
       /\ \A x \in 1..(3 + 5 * m) : key[x] = IF x <= 3 THEN h[x] ELSE d[x - 3]
  BY <1>10, <1>11, <1>12, <1>13
<1>16. key[1] = h[1] /\ key[2] = h[2] /\ key[3] = h[3]
  BY <1>14, <1>15
<1>17. ASSUME NEW j \in 1..m, NEW k \in 1..5
       PROVE  key[3 + (5 * (j - 1) + k)] = Row(Ordered(S)[j], active)[k]
  <2> DEFINE x == 5 * (j - 1) + k
  <2>1. x \in 1..(5 * m)
    BY <1>1
  <2>2. d[x] = Row(Ordered(S)[j], active)[k]
    BY <1>10
  <2> HIDE DEF x
  <2>3. 3 + x \in 1..(3 + 5 * m) /\ ~(3 + x <= 3) /\ (3 + x) - 3 = x
    BY <1>14, <2>1
  <2>4. key[3 + x] = d[x]
    BY <1>15, <2>3
  <2>5. QED
    BY <2>2, <2>4 DEF x
<1>18. ReadsRows(key, S, active)
  BY <1>17 DEF ReadsRows, m
<1>19. QED
  BY <1>1, <1>4, <1>5, <1>12, <1>15, <1>16, <1>18 DEF m, key

\* Seating S is not behind seating T.
AtLeast(S, T, active) == ~Precedes(SeatsKey(S, active), SeatsKey(T, active))

LEMMA FirstDecides ==
    ASSUME NEW a \in Seq(Int), NEW b \in Seq(Int), Len(a) >= 1, Len(b) >= 1
    PROVE  /\ a[1] < b[1] => Precedes(a, b)
           /\ Precedes(a, b) => a[1] <= b[1]
<1>1. 1 \in DOMAIN a \cap DOMAIN b /\ a[1] \in Int /\ b[1] \in Int
  OBVIOUS
<1>2. a[1] < b[1] => Precedes(a, b)
  <2>1. \A j \in 1..(1 - 1) : a[j] = b[j]
    OBVIOUS
  <2>2. QED
    BY <1>1, <2>1 DEF Precedes
<1>3. ASSUME Precedes(a, b) PROVE a[1] <= b[1]
  <2>1. PICK x \in DOMAIN a \cap DOMAIN b : a[x] < b[x] /\ \A j \in 1..(x - 1) : a[j] = b[j]
    BY <1>3 DEF Precedes
  <2>2. x \in Nat \ {0}
    OBVIOUS
  <2>3. x = 1 \/ 1 \in 1..(x - 1)
    BY <2>2
  <2>4. QED
    BY <1>1, <2>1, <2>3
<1>4. QED
  BY <1>2, <1>3

\* The keys of seatings are in line.
LEMMA KeysInLine ==
    ASSUME NEW players, NEW active, NEW n, IsRoster(players, active, n), NEW i \in 0..n,
           NEW S \in Seatings(players, active, i), NEW T \in Seatings(players, active, i)
    PROVE  LET a == SeatsKey(S, active)
               b == SeatsKey(T, active)
           IN  /\ a \in Seq(Int) /\ b \in Seq(Int)
               /\ a = b \/ Precedes(a, b) \/ Precedes(b, a)
               /\ AtLeast(S, T, active) => Cardinality(T) <= Cardinality(S)
<1> DEFINE a == SeatsKey(S, active)
           b == SeatsKey(T, active)
           m == Cardinality(S)
           l == Cardinality(T)
<1>1. /\ m \in Nat /\ a \in Seq(Int) /\ Len(a) = 3 + 5 * m /\ a[1] = m
      /\ l \in Nat /\ b \in Seq(Int) /\ Len(b) = 3 + 5 * l /\ b[1] = l
  BY KeyIs
<1> HIDE DEF a, b, m, l
<1>2. /\ a[1] < b[1] => Precedes(a, b)
      /\ b[1] < a[1] => Precedes(b, a)
  <2>1. Len(a) >= 1 /\ Len(b) >= 1
    BY <1>1
  <2>2. QED
    BY <1>1, <2>1, FirstDecides
<1>3. a = b \/ Precedes(a, b) \/ Precedes(b, a)
  <2>1. CASE m = l
    BY <1>1, <2>1, PrecedesTotal
  <2>2. CASE m # l
    BY <1>1, <1>2, <2>2
  <2>3. QED
    BY <2>1, <2>2
<1>4. ~Precedes(a, b) => l <= m
  BY <1>1, <1>2
<1>5. QED
  BY <1>1, <1>3, <1>4 DEF AtLeast, a, b, m, l

LEMMA AtLeastIsTransitive ==
    ASSUME NEW players, NEW active, NEW n, IsRoster(players, active, n), NEW i \in 0..n,
           NEW S \in Seatings(players, active, i), NEW T \in Seatings(players, active, i),
           NEW U \in Seatings(players, active, i),
           AtLeast(S, T, active), AtLeast(T, U, active)
    PROVE  AtLeast(S, U, active)
<1> DEFINE a == SeatsKey(S, active)
           b == SeatsKey(T, active)
           c == SeatsKey(U, active)
<1>1. /\ a \in Seq(Int) /\ b \in Seq(Int) /\ c \in Seq(Int)
      /\ a = b \/ Precedes(a, b) \/ Precedes(b, a)
  BY KeysInLine
<1>2. ~Precedes(a, b) /\ ~Precedes(b, c)
  BY DEF AtLeast
<1> HIDE DEF a, b, c
<1>3. ~Precedes(a, c)
  BY <1>1, <1>2, PrecedesTransitive
<1>4. QED
  BY <1>3 DEF AtLeast, a, b, c

\* Of some seatings there is a greatest, and Greatest finds it.
LEMMA GreatestIs ==
    ASSUME NEW players, NEW active, NEW n, IsRoster(players, active, n), NEW i \in 0..n,
           NEW O \in SUBSET Seatings(players, active, i), O # {}
    PROVE  /\ Greatest(O, active) \in O
           /\ \A S \in O : AtLeast(Greatest(O, active), S, active)
<1> DEFINE key == [o \in O |-> SeatsKey(o, active)]
           Ahead(o) == {x \in O : Precedes(key[o], key[x])}
           N == {Cardinality(Ahead(o)) : o \in O}
<1>1. IsFiniteSet(O)
  BY SeatingsAreFinite, FS_Subset DEF IsRoster
<1>2. \A o \in O : key[o] \in Seq(Int) /\ key[o] = SeatsKey(o, active)
  BY KeysInLine
<1>3. DOMAIN key = O
  OBVIOUS
<1>4. \A o \in O : IsFiniteSet(Ahead(o)) /\ Cardinality(Ahead(o)) \in Nat
  <2>1. \A o \in O : Ahead(o) \in SUBSET O
    OBVIOUS
  <2> HIDE DEF Ahead
  <2>2. QED
    BY <1>1, <2>1, FS_Subset, FS_CardinalityType
<1>5. PICK o \in O : \A x \in O : Cardinality(Ahead(o)) <= Cardinality(Ahead(x))
  <2>1. N \in SUBSET Nat /\ N # {}
    BY <1>4
  <2> HIDE DEF Ahead, N
  <2>2. Min(N) \in N /\ \A y \in N : Min(N) <= y
    BY <2>1, LeastNumber
  <2>3. \A x \in O : Cardinality(Ahead(x)) \in N
    BY DEF N
  <2>4. PICK o \in O : Min(N) = Cardinality(Ahead(o))
    BY <2>2 DEF N
  <2>5. QED
    BY <2>2, <2>3, <2>4
<1> HIDE DEF key
<1>6. \A x \in O : ~Precedes(key[o], key[x])
  <2> SUFFICES ASSUME NEW x \in O, Precedes(key[o], key[x]) PROVE FALSE
    OBVIOUS
  <2>1. Ahead(x) \in SUBSET Ahead(o)
    BY <1>2, PrecedesTransitive
  <2>2. x \in Ahead(o) /\ x \notin Ahead(x)
    BY <1>2, PrecedesIrreflexive
  <2> HIDE DEF Ahead
  <2>3. Cardinality(Ahead(x)) <= Cardinality(Ahead(o)) /\ Cardinality(Ahead(x)) # Cardinality(Ahead(o))
    BY <1>4, <2>1, <2>2, FS_Subset
  <2>4. QED
    BY <1>4, <1>5, <2>3
<1> DEFINE G == CHOOSE g \in DOMAIN key : \A x \in DOMAIN key : ~Precedes(key[g], key[x])
<1>7. G \in O /\ \A x \in O : ~Precedes(key[G], key[x])
  BY <1>3, <1>6
<1>8. Greatest(O, active) = G
  BY DEF Greatest, GreatestBy, key
<1> HIDE DEF G
<1>9. QED
  BY <1>2, <1>7, <1>8 DEF AtLeast

\* One more player in the next slot makes a seating ...
LEMMA OneMoreFits ==
    ASSUME NEW players, NEW active, NEW n, IsRoster(players, active, n), NEW i \in 0..n,
           i # n, NEW S \in Seatings(players, active, i),
           NEW s \in Seats(players, active, i + 1), s.at = i + 1,
           \A t \in S : t.player # s.player
    PROVE  /\ S \cup {s} \in Seatings(players, active, i + 1)
           /\ s \notin S /\ IsFiniteSet(S)
           /\ Cardinality(S \cup {s}) = Cardinality(S) + 1
<1>1. n \in Nat /\ i \in Nat /\ IsFiniteSet(players) /\ IsFiniteSet(S)
  BY SeatingsAreFinite DEF IsRoster
<1>2. \A t \in S : t.at \in 1..i
  BY SeatIs DEF Seatings
<1>3. s \notin S
  BY <1>1, <1>2
<1>4. S \cup {s} \in Seatings(players, active, i + 1)
  <2>1. 1..i \subseteq 1..(i + 1)
    BY <1>1
  <2>2. Seats(players, active, i) \subseteq Seats(players, active, i + 1)
    BY <2>1 DEF Seats
  <2>3. \A t \in S : t.at # s.at
    BY <1>1, <1>2
  <2>4. QED
    BY <2>2, <2>3 DEF Seatings
<1>5. Cardinality(S \cup {s}) = Cardinality(S) + 1
  BY <1>1, <1>3, FS_AddElement
<1>6. QED
  BY <1>1, <1>3, <1>4, <1>5

\* ... and stands last in the key.
LEMMA OneMoreSeat ==
    ASSUME NEW players, NEW active, NEW n, IsRoster(players, active, n), NEW i \in 0..n,
           i # n, NEW S \in Seatings(players, active, i),
           NEW s \in Seats(players, active, i + 1), s.at = i + 1,
           \A t \in S : t.player # s.player
    PROVE  LET m == Cardinality(S)
               U == S \cup {s}
           IN  /\ \A j \in 1..m : Ordered(U)[j] = Ordered(S)[j]
               /\ Ordered(U)[m + 1] = s
<1> DEFINE m == Cardinality(S)
           U == S \cup {s}
<1>1. n \in Nat /\ i \in Nat /\ IsFiniteSet(players) /\ IsFiniteSet(S) /\ m \in Nat
  BY SeatingsAreFinite DEF IsRoster
<1>2. \A t \in S : t.at \in 1..i
  BY SeatIs DEF Seatings
<1>3. s \notin S /\ s.at \in Nat /\ \A t \in S : t.at \in Nat /\ t.at < s.at
  BY <1>1, <1>2
<1>4. U \in Seatings(players, active, i + 1)
  BY OneMoreFits
<1>5. Cardinality(U) = m + 1
  BY OneMoreFits
<1>6. /\ Sortable(S, AtKeys(S))
      /\ \A t, u \in S : Precedes(AtKeys(S)[t], AtKeys(S)[u]) <=> t.at < u.at
  BY <1>1, SeatsAreOrdered
<1>7. /\ Sortable(U, AtKeys(U))
      /\ \A t, u \in U : Precedes(AtKeys(U)[t], AtKeys(U)[u]) <=> t.at < u.at
  <2> DEFINE k == i + 1
  <2>1. k \in Nat /\ IsFiniteSet(players) /\ U \in Seatings(players, active, k)
    BY <1>1, <1>4
  <2> HIDE DEF k, U
  <2>2. QED
    BY <2>1, SeatsAreOrdered
<1>8. \A t \in S : Before(U, AtKeys(U), t) = Before(S, AtKeys(S), t)
  <2>1. \A t \in S : ~(s.at < t.at)
    BY <1>3
  <2>2. QED
    BY <1>6, <1>7, <2>1 DEF Before
<1>9. Before(U, AtKeys(U), s) = S
  <2>1. \A t \in S : t.at < s.at
    BY <1>3
  <2>2. ~(s.at < s.at)
    BY <1>3
  <2>3. QED
    BY <1>7, <2>1, <2>2 DEF Before
<1>10. /\ \A t \in S : PlaceIn(U, AtKeys(U), t) = PlaceIn(S, AtKeys(S), t)
       /\ PlaceIn(U, AtKeys(U), s) = m + 1
  BY <1>1, <1>8, <1>9 DEF PlaceIn
<1>11. \A j \in 1..m : Ordered(S)[j] \in S /\ PlaceIn(S, AtKeys(S), Ordered(S)[j]) = j
  BY <1>6, SortedByIsSorted DEF Ordered
<1>12. \A x \in U : Ordered(U)[PlaceIn(U, AtKeys(U), x)] = x
  BY <1>7, SortedByIsSorted DEF Ordered
<1> HIDE DEF U, m
<1>13. s \in U /\ S \subseteq U
  BY DEF U
<1>14. QED
  BY <1>3, <1>4, <1>5, <1>10, <1>11, <1>12, <1>13 DEF U, m

\* ... and counts the same on top of every seating.
LEMMA OneMoreCounts ==
    ASSUME NEW players, NEW active, NEW n, IsRoster(players, active, n), NEW i \in 0..n,
           i # n, NEW S \in Seatings(players, active, i),
           NEW s \in Seats(players, active, i + 1), s.at = i + 1,
           \A t \in S : t.player # s.player
    PROVE  LET m == Cardinality(S)
               a == SeatsKey(S, active)
               b == SeatsKey(S \cup {s}, active)
           IN  /\ b[1] = a[1] + 1
               /\ b[2] = a[2] + s.player.pts
               /\ b[3] = a[3] + Preservation(s.player, active[s.at], active)
               /\ \A x \in 1..(5 * m) : b[3 + x] = a[3 + x]
               /\ \A k \in 1..5 : b[3 + (5 * m + k)] = Row(s, active)[k]
<1> DEFINE m == Cardinality(S)
           U == S \cup {s}
           a == SeatsKey(S, active)
           b == SeatsKey(U, active)
<1>1. n \in Nat /\ i \in Nat /\ i + 1 \in 0..n
  BY DEF IsRoster
<1>2. /\ U \in Seatings(players, active, i + 1)
      /\ s \notin S /\ Cardinality(U) = m + 1
      /\ \A j \in 1..m : Ordered(U)[j] = Ordered(S)[j]
      /\ Ordered(U)[m + 1] = s
  BY OneMoreFits, OneMoreSeat
<1>3. /\ m \in Nat /\ Points(S) \in Int /\ Kept(S, active) \in Int
      /\ a[1] = m /\ a[2] = Points(S) /\ a[3] = Kept(S, active)
      /\ ReadsRows(a, S, active)
  BY KeyIs
<1>4. /\ b[1] = m + 1 /\ b[2] = Points(U) /\ b[3] = Kept(U, active)
      /\ ReadsRows(b, U, active)
  <2> DEFINE k == i + 1
  <2>1. k \in 0..n /\ U \in Seatings(players, active, k) /\ Cardinality(U) = m + 1
    BY <1>1, <1>2
  <2> HIDE DEF k, U, m
  <2>2. LET l == Cardinality(U)
            key == SeatsKey(U, active)
        IN  /\ key[1] = l /\ key[2] = Points(U) /\ key[3] = Kept(U, active)
            /\ ReadsRows(key, U, active)
    BY <2>1, KeyIs
  <2>3. QED
    BY <2>1, <2>2
<1>5. IsFiniteSet(U) /\ \A t \in U : t.player \in players /\ t.at \in 1..n
  <2> DEFINE k == i + 1
  <2>1. k \in Nat /\ k \in 0..n /\ IsFiniteSet(players) /\ U \in Seatings(players, active, k)
    BY <1>1, <1>2 DEF IsRoster
  <2> HIDE DEF k, U
  <2>2. IsFiniteSet(U)
    BY <2>1, SeatingsAreFinite
  <2>3. \A t \in U : t.player \in players /\ t.at \in 1..k
    BY <2>1, SeatIs DEF Seatings
  <2>4. \A x \in 1..k : x \in 1..n
    BY <1>1, <2>1
  <2>5. QED
    BY <2>2, <2>3, <2>4
<1>6. Points(U) = s.player.pts + Points(S)
  <2> DEFINE w == [t \in U |-> t.player.pts]
             v == [t \in S |-> t.player.pts]
  <2>1. \A t \in U : w[t] \in Int
    BY <1>5 DEF IsRoster
  <2>2. w[s] = s.player.pts /\ s \in U /\ U \ {s} = S /\ \A t \in S : w[t] = v[t]
    BY <1>2
  <2>3. Points(U) = Total(w, U) /\ Points(S) = Total(v, S)
    BY DEF Points
  <2> HIDE DEF w, v, U
  <2>4. Total(w, U) = w[s] + Total(w, U \ {s})
    BY <1>5, <2>1, <2>2, TotalAddsUp
  <2>5. Total(w, S) = Total(v, S)
    BY <2>2, TotalIsLocal
  <2>6. QED
    BY <2>2, <2>3, <2>4, <2>5
<1>7. Kept(U, active) = Preservation(s.player, active[s.at], active) + Kept(S, active)
  <2> DEFINE w == [t \in U |-> Preservation(t.player, active[t.at], active)]
             v == [t \in S |-> Preservation(t.player, active[t.at], active)]
  <2>1. \A t \in U : w[t] \in Int
    BY <1>1, PreservationIsNumber DEF IsRoster
  <2>2. /\ w[s] = Preservation(s.player, active[s.at], active)
        /\ s \in U /\ U \ {s} = S /\ \A t \in S : w[t] = v[t]
    BY <1>2
  <2>3. Kept(U, active) = Total(w, U) /\ Kept(S, active) = Total(v, S)
    BY DEF Kept
  <2> HIDE DEF w, v, U
  <2>4. Total(w, U) = w[s] + Total(w, U \ {s})
    BY <1>5, <2>1, <2>2, TotalAddsUp
  <2>5. Total(w, S) = Total(v, S)
    BY <2>2, TotalIsLocal
  <2>6. QED
    BY <2>2, <2>3, <2>4, <2>5
<1>8. s.player.pts \in Int /\ Preservation(s.player, active[s.at], active) \in Int
  BY <1>1, <1>5, PreservationIsNumber DEF IsRoster
<1>12. \A j \in 1..m, k \in 1..5 :
          a[3 + (5 * (j - 1) + k)] = Row(Ordered(S)[j], active)[k]
  BY <1>3 DEF ReadsRows
<1>13. \A j \in 1..(m + 1), k \in 1..5 :
          b[3 + (5 * (j - 1) + k)] = Row(Ordered(U)[j], active)[k]
  <2> HIDE DEF U, b
  <2>1. \A j \in 1..Cardinality(U), k \in 1..5 :
            b[3 + (5 * (j - 1) + k)] = Row(Ordered(U)[j], active)[k]
    BY <1>4 DEF ReadsRows
  <2>2. QED
    BY <1>2, <2>1
<1> HIDE DEF a, b, U, m
<1>9. \A x \in 1..(5 * m) : b[3 + x] = a[3 + x]
  <2> SUFFICES ASSUME NEW x \in 1..(5 * m) PROVE b[3 + x] = a[3 + x]
    OBVIOUS
  <2>1. PICK j \in 1..m, k \in 1..5 : x = 5 * (j - 1) + k
    BY <1>3, InFives
  <2>2. j \in 1..(m + 1)
    BY <1>3
  <2>3. QED
    BY <1>2, <1>12, <1>13, <2>1, <2>2
<1>10. \A k \in 1..5 : b[3 + (5 * m + k)] = Row(s, active)[k]
  <2>1. m + 1 \in 1..(m + 1) /\ (m + 1) - 1 = m
    BY <1>3
  <2>2. QED
    BY <1>2, <1>13, <2>1
<1>11. /\ b[1] = a[1] + 1
       /\ b[2] = a[2] + s.player.pts
       /\ b[3] = a[3] + Preservation(s.player, active[s.at], active)
  BY <1>3, <1>4, <1>6, <1>7, <1>8
<1>14. QED
  BY <1>9, <1>10, <1>11 DEF a, b, U, m

LEMMA OneMoreLength ==
    ASSUME NEW players, NEW active, NEW n, IsRoster(players, active, n), NEW i \in 0..n,
           i # n, NEW S \in Seatings(players, active, i),
           NEW s \in Seats(players, active, i + 1), s.at = i + 1,
           \A t \in S : t.player # s.player
    PROVE  LET m == Cardinality(S)
               b == SeatsKey(S \cup {s}, active)
           IN  b \in Seq(Int) /\ Len(b) = 3 + 5 * (m + 1)
<1> DEFINE k == i + 1
           m == Cardinality(S)
           U == S \cup {s}
<1>1. k \in 0..n
  BY DEF IsRoster
<1>2. U \in Seatings(players, active, k) /\ Cardinality(U) = m + 1
  BY OneMoreFits
<1> HIDE DEF k, m, U
<1>3. SeatsKey(U, active) \in Seq(Int) /\ Len(SeatsKey(U, active)) = 3 + 5 * Cardinality(U)
  BY <1>1, <1>2, KeyIs
<1>4. QED
  BY <1>2, <1>3 DEF U, m

\* ... so one more player changes nothing about which of two seatings is ahead.
LEMMA GrowthKeepsOrder ==
    ASSUME NEW players, NEW active, NEW n, IsRoster(players, active, n), NEW i \in 0..n,
           i # n, NEW S \in Seatings(players, active, i), NEW T \in Seatings(players, active, i),
           NEW s \in Seats(players, active, i + 1), s.at = i + 1,
           \A t \in S : t.player # s.player, \A t \in T : t.player # s.player,
           AtLeast(S, T, active)
    PROVE  AtLeast(S \cup {s}, T \cup {s}, active)
<1> DEFINE m == Cardinality(S)
           l == Cardinality(T)
           a == SeatsKey(S, active)
           b == SeatsKey(S \cup {s}, active)
           c == SeatsKey(T, active)
           d == SeatsKey(T \cup {s}, active)
           r == Row(s, active)
           pts == s.player.pts
           kept == Preservation(s.player, active[s.at], active)
<1>1. /\ m \in Nat /\ a \in Seq(Int) /\ Len(a) = 3 + 5 * m /\ a[1] = m
      /\ l \in Nat /\ c \in Seq(Int) /\ Len(c) = 3 + 5 * l /\ c[1] = l
  BY KeyIs
<1>2. /\ b[1] = a[1] + 1 /\ b[2] = a[2] + pts /\ b[3] = a[3] + kept
      /\ \A x \in 1..(5 * m) : b[3 + x] = a[3 + x]
      /\ \A k \in 1..5 : b[3 + (5 * m + k)] = r[k]
  BY OneMoreCounts
<1>3. /\ d[1] = c[1] + 1 /\ d[2] = c[2] + pts /\ d[3] = c[3] + kept
      /\ \A x \in 1..(5 * l) : d[3 + x] = c[3 + x]
      /\ \A k \in 1..5 : d[3 + (5 * l + k)] = r[k]
  BY OneMoreCounts
<1>4. /\ b \in Seq(Int) /\ Len(b) = 3 + 5 * (m + 1)
      /\ d \in Seq(Int) /\ Len(d) = 3 + 5 * (l + 1)
  BY OneMoreLength
<1>5. pts \in Int /\ kept \in Int
  <2>1. s.player \in players /\ n \in Nat /\ DOMAIN active = 1..n
    BY SeatIs DEF IsRoster
  <2>2. QED
    BY <2>1, PreservationIsNumber DEF IsRoster
<1>6. ~Precedes(a, c)
  BY DEF AtLeast
<1> HIDE DEF a, b, c, d, m, l, r, pts, kept
<1>7. SUFFICES ASSUME Precedes(b, d) PROVE FALSE
  BY DEF AtLeast, b, d
<1>8. PICK x \in DOMAIN b \cap DOMAIN d : b[x] < d[x] /\ \A y \in 1..(x - 1) : b[y] = d[y]
  BY <1>7 DEF Precedes
<1>9. /\ x \in Nat \ {0} /\ x <= 3 + 5 * (m + 1) /\ x <= 3 + 5 * (l + 1)
      /\ b[x] \in Int /\ d[x] \in Int
  <2>1. x \in 1..Len(b) /\ x \in 1..Len(d)
    BY <1>4
  <2>2. b[x] \in Int /\ d[x] \in Int
    BY <1>4, <2>1
  <2>3. Len(b) \in Nat /\ Len(d) \in Nat
    BY <1>4
  <2>4. QED
    BY <1>4, <2>1, <2>2, <2>3
<1>10. \A y \in {1, 2, 3} : a[y] \in Int /\ c[y] \in Int
  <2>1. \A y \in {1, 2, 3} : y \in 1..Len(a) /\ y \in 1..Len(c)
    BY <1>1
  <2>2. QED
    BY <1>1, <2>1
<1>11. \A y \in {1, 2, 3} : b[y] = d[y] => a[y] = c[y]
  <2>1. b[1] = d[1] => a[1] = c[1]
    BY <1>2, <1>3, <1>10
  <2>2. b[2] = d[2] => a[2] = c[2]
    BY <1>2, <1>3, <1>5, <1>10
  <2>3. b[3] = d[3] => a[3] = c[3]
    BY <1>2, <1>3, <1>5, <1>10
  <2>4. QED
    BY <2>1, <2>2, <2>3
<1>12. \A y \in {1, 2, 3} : b[y] < d[y] => a[y] < c[y]
  <2>1. b[1] < d[1] => a[1] < c[1]
    BY <1>2, <1>3, <1>10
  <2>2. b[2] < d[2] => a[2] < c[2]
    BY <1>2, <1>3, <1>5, <1>10
  <2>3. b[3] < d[3] => a[3] < c[3]
    BY <1>2, <1>3, <1>5, <1>10
  <2>4. QED
    BY <2>1, <2>2, <2>3
<1>13. \A y \in {1, 2, 3} : y \in DOMAIN a /\ y \in DOMAIN c
  BY <1>1
<1>14. CASE x \in {1, 2, 3}
  <2>1. \A y \in 1..(x - 1) : y \in {1, 2, 3}
    BY <1>14
  <2>2. \A y \in 1..(x - 1) : a[y] = c[y]
    BY <1>8, <1>11, <2>1
  <2>3. a[x] < c[x]
    BY <1>8, <1>12, <1>14
  <2>4. Precedes(a, c)
    BY <1>13, <1>14, <2>2, <2>3 DEF Precedes
  <2>5. QED
    BY <1>6, <2>4
<1>15. CASE x \notin {1, 2, 3}
  <2>1. x > 3 /\ 1 \in 1..(x - 1) /\ \A y \in {1, 2, 3} : y \in 1..(x - 1)
    BY <1>9, <1>15
  <2>2. \A y \in {1, 2, 3} : a[y] = c[y]
    BY <1>8, <1>11, <2>1
  <2>3. m = l
    BY <1>1, <2>2
  <2>4. CASE x - 3 \in 1..(5 * m)
    <3>1. \A y \in 1..x : y \in {1, 2, 3} \/ (y - 3 \in 1..(5 * m) /\ y = 3 + (y - 3))
      BY <1>1, <1>9, <2>4
    <3>2. \A z \in 1..(5 * m) : b[3 + z] = a[3 + z] /\ d[3 + z] = c[3 + z]
      BY <1>2, <1>3, <2>3
    <3>3. \A y \in 1..x : y \notin {1, 2, 3} => b[y] = a[y] /\ d[y] = c[y]
      BY <3>1, <3>2
    <3>4. \A y \in 1..(x - 1) : y \in 1..x
      BY <1>9
    <3>5. \A y \in 1..(x - 1) : a[y] = c[y]
      BY <1>8, <2>2, <3>3, <3>4
    <3>6. x \in 1..x
      BY <1>9
    <3>7. a[x] < c[x]
      BY <1>8, <1>15, <3>3, <3>6
    <3>8. x \in DOMAIN a \cap DOMAIN c
      <4>1. x \in 1..(3 + 5 * m)
        BY <1>1, <1>9, <2>4
      <4>2. DOMAIN a = 1..(3 + 5 * m) /\ DOMAIN c = 1..(3 + 5 * m)
        BY <1>1, <2>3
      <4>3. QED
        BY <4>1, <4>2
    <3>9. Precedes(a, c)
      BY <3>5, <3>7, <3>8 DEF Precedes
    <3>10. QED
      BY <1>6, <3>9
  <2>5. CASE x - 3 \notin 1..(5 * m)
    <3> DEFINE k == x - (3 + 5 * m)
    <3>1. k \in 1..5 /\ x = 3 + (5 * m + k)
      BY <1>1, <1>9, <2>1, <2>5
    <3> HIDE DEF k
    <3>2. b[x] = r[k] /\ d[x] = r[k]
      BY <1>2, <1>3, <2>3, <3>1
    <3>3. QED
      BY <1>8, <1>9, <3>2
  <2>6. QED
    BY <2>4, <2>5
<1>16. QED
  BY <1>14, <1>15

\* A seating of one slot more leaves that slot empty or seats one player in it.
LEMMA SeatingSplits ==
    ASSUME NEW players, NEW active, NEW i \in Nat, NEW T \in Seatings(players, active, i + 1)
    PROVE  \/ T \in Seatings(players, active, i)
           \/ \E s \in T :
                /\ s.at = i + 1 /\ s \in Seats(players, active, i + 1)
                /\ T \ {s} \in Seatings(players, active, i)
                /\ \A t \in T \ {s} : t.player # s.player
<1>1. /\ T \subseteq Seats(players, active, i + 1)
      /\ \A s, t \in T : s # t => s.player # t.player /\ s.at # t.at
  BY DEF Seatings
<1>2. ASSUME NEW t \in T, t.at # i + 1
      PROVE  t \in Seats(players, active, i)
  <2> DEFINE k == i + 1
  <2>1. /\ t.player \in players /\ t.at \in 1..k
        /\ CanPlay(t.player, active[t.at])
        /\ t = [player |-> t.player, at |-> t.at]
    BY <1>1, SeatIs
  <2>2. t.at \in 1..i
    BY <1>2, <2>1
  <2>3. QED
    BY <2>1, <2>2 DEF Seats
<1>3. CASE \A t \in T : t.at # i + 1
  BY <1>1, <1>2, <1>3 DEF Seatings
<1>4. CASE \E t \in T : t.at = i + 1
  <2>1. PICK s \in T : s.at = i + 1
    BY <1>4
  <2>2. \A t \in T \ {s} : t.at # i + 1 /\ t.player # s.player
    BY <1>1, <2>1
  <2>3. T \ {s} \in Seatings(players, active, i)
    BY <1>1, <1>2, <2>2 DEF Seatings
  <2>4. QED
    BY <1>1, <2>1, <2>2, <2>3
<1>5. QED
  BY <1>3, <1>4

LEMMA SeatingsGrow ==
    ASSUME NEW players, NEW active, NEW i \in Nat
    PROVE  Seatings(players, active, i) \subseteq Seatings(players, active, i + 1)
<1>1. 1..i \subseteq 1..(i + 1)
  OBVIOUS
<1>2. Seats(players, active, i) \subseteq Seats(players, active, i + 1)
  BY <1>1 DEF Seats
<1>3. QED
  BY <1>2 DEF Seatings

\* The players seated: the mask of a state.
Who(S) == {s.player : s \in S}

\* The states after i slots: for every set of players that can be seated, the
\* greatest of their seatings.
Good(st, players, active, i) ==
    /\ \A m \in DOMAIN st : st[m] \in Seatings(players, active, i) /\ Who(st[m]) = m
    /\ \A S \in Seatings(players, active, i) :
          Who(S) \in DOMAIN st /\ AtLeast(st[Who(S)], S, active)

\* What Extend chooses from.
Options(st, i, players, active, mask) ==
    {U \in {st[mask]} : mask \in DOMAIN st}
    \cup {w[2] : w \in {x \in SeatOne(st, i, players, active) : x[1] = mask}}

LEMMA OptionsAre ==
    ASSUME NEW st, NEW i, NEW players, NEW active, NEW mask
    PROVE  /\ \A U \in Options(st, i, players, active, mask) :
                \/ mask \in DOMAIN st /\ U = st[mask]
                \/ \E m \in DOMAIN st, p \in players :
                      /\ p \notin m /\ CanPlay(p, active[i]) /\ mask = m \cup {p}
                      /\ U = st[m] \cup {[player |-> p, at |-> i]}
           /\ mask \in DOMAIN st => st[mask] \in Options(st, i, players, active, mask)
           /\ \A m \in DOMAIN st, p \in players :
                p \notin m /\ CanPlay(p, active[i]) /\ mask = m \cup {p}
                => st[m] \cup {[player |-> p, at |-> i]} \in Options(st, i, players, active, mask)
<1> DEFINE with == SeatOne(st, i, players, active)
           pairs == {x \in (DOMAIN st) \X players :
                        x[2] \notin x[1] /\ CanPlay(x[2], active[i])}
           mk(m, p) == <<m \cup {p}, st[m] \cup {[player |-> p, at |-> i]}>>
<1>1. with = {mk(x[1], x[2]) : x \in pairs}
  BY DEF SeatOne
<1>2. \A x \in pairs : x[1] \in DOMAIN st /\ x[2] \in players
                       /\ x[2] \notin x[1] /\ CanPlay(x[2], active[i])
  OBVIOUS
<1>3. \A m \in DOMAIN st, p \in players :
          p \notin m /\ CanPlay(p, active[i]) => \E x \in pairs : x[1] = m /\ x[2] = p
  <2> SUFFICES ASSUME NEW m \in DOMAIN st, NEW p \in players, p \notin m, CanPlay(p, active[i])
               PROVE  \E x \in pairs : x[1] = m /\ x[2] = p
    OBVIOUS
  <2>1. <<m, p>> \in (DOMAIN st) \X players /\ <<m, p>>[1] = m /\ <<m, p>>[2] = p
    OBVIOUS
  <2>2. <<m, p>> \in pairs
    BY <2>1
  <2>3. QED
    BY <2>1, <2>2
<1>4. \A m, p : /\ mk(m, p)[1] = m \cup {p}
                /\ mk(m, p)[2] = st[m] \cup {[player |-> p, at |-> i]}
  OBVIOUS
<1> HIDE DEF with, pairs, mk
<1>5. ASSUME NEW U \in {w[2] : w \in {x \in with : x[1] = mask}}
      PROVE  \E m \in DOMAIN st, p \in players :
                /\ p \notin m /\ CanPlay(p, active[i]) /\ mask = m \cup {p}
                /\ U = st[m] \cup {[player |-> p, at |-> i]}
  <2>1. PICK w \in with : w[1] = mask /\ U = w[2]
    OBVIOUS
  <2>2. PICK x \in pairs : w = mk(x[1], x[2])
    BY <1>1, <2>1
  <2>3. /\ x[1] \in DOMAIN st /\ x[2] \in players
        /\ x[2] \notin x[1] /\ CanPlay(x[2], active[i])
    BY <1>2
  <2>4. mask = x[1] \cup {x[2]} /\ U = st[x[1]] \cup {[player |-> x[2], at |-> i]}
    BY <1>4, <2>1, <2>2
  <2>5. QED
    BY <2>3, <2>4
<1>6. ASSUME NEW m \in DOMAIN st, NEW p \in players,
             p \notin m, CanPlay(p, active[i]), mask = m \cup {p}
      PROVE  st[m] \cup {[player |-> p, at |-> i]}
                \in {w[2] : w \in {x \in with : x[1] = mask}}
  <2>1. mk(m, p) \in with
    BY <1>1, <1>3, <1>6
  <2>2. mk(m, p)[1] = mask /\ mk(m, p)[2] = st[m] \cup {[player |-> p, at |-> i]}
    BY <1>4, <1>6
  <2>3. QED
    BY <2>1, <2>2
<1>7. Options(st, i, players, active, mask) =
          {U \in {st[mask]} : mask \in DOMAIN st}
          \cup {w[2] : w \in {x \in with : x[1] = mask}}
  BY DEF Options, with
<1>8. QED
  BY <1>5, <1>6, <1>7

LEMMA ExtendIs ==
    ASSUME NEW st, NEW i, NEW players, NEW active
    PROVE  LET next == Extend(st, i, players, active)
           IN  \A mask : /\ mask \in DOMAIN next <=> Options(st, i, players, active, mask) # {}
                         /\ mask \in DOMAIN next =>
                               next[mask] = Greatest(Options(st, i, players, active, mask), active)
<1> DEFINE with == SeatOne(st, i, players, active)
           old(mask) == IF mask \in DOMAIN st THEN {st[mask]} ELSE {}
           opt(mask) == old(mask) \cup {w[2] : w \in {x \in with : x[1] = mask}}
           D == DOMAIN st \cup {w[1] : w \in with}
           next == Extend(st, i, players, active)
<1>1. next = [mask \in D |-> Greatest(opt(mask), active)]
  BY DEF Extend
<1>2. \A mask : Options(st, i, players, active, mask) = opt(mask)
  BY DEF Options
<1> HIDE DEF next, with
<1>3. \A mask : mask \in D <=> opt(mask) # {}
  OBVIOUS
<1> HIDE DEF D, opt
<1>4. QED
  BY <1>1, <1>2, <1>3 DEF next

\* One slot more, and the states are still the greatest: Bellman's principle.
LEMMA ExtendKeepsGood ==
    ASSUME NEW players, NEW active, NEW n, IsRoster(players, active, n), NEW i \in 0..n,
           i # n, NEW st, Good(st, players, active, i)
    PROVE  Good(Extend(st, i + 1, players, active), players, active, i + 1)
<1> DEFINE k == i + 1
           next == Extend(st, k, players, active)
           opt(mask) == Options(st, k, players, active, mask)
           old == Seatings(players, active, i)
           new == Seatings(players, active, k)
           seat(p) == [player |-> p, at |-> k]
<1>1. i \in Nat /\ n \in Nat /\ k \in 0..n /\ k \in 1..k
  BY DEF IsRoster
<1>2. \A m \in DOMAIN st : st[m] \in old /\ Who(st[m]) = m
  BY DEF Good
<1>3. \A S \in old : Who(S) \in DOMAIN st /\ AtLeast(st[Who(S)], S, active)
  BY DEF Good
<1>4. old \subseteq new
  BY <1>1, SeatingsGrow
<1>5. ASSUME NEW p \in players, CanPlay(p, active[k])
      PROVE  seat(p) \in Seats(players, active, k) /\ seat(p).at = k /\ seat(p).player = p
  BY <1>1, <1>5 DEF Seats
<1>6. ASSUME NEW S \in old, NEW p \in players, CanPlay(p, active[k]), p \notin Who(S)
      PROVE  S \cup {seat(p)} \in new /\ Who(S \cup {seat(p)}) = Who(S) \cup {p}
  <2>1. seat(p) \in Seats(players, active, k) /\ seat(p).at = k /\ seat(p).player = p
    BY <1>5, <1>6
  <2>2. \A t \in S : t.player # seat(p).player
    BY <1>6, <2>1 DEF Who
  <2> DEFINE s == seat(p)
  <2> HIDE DEF s
  <2>3. s \in Seats(players, active, i + 1) /\ s.at = i + 1 /\ s.player = p
        /\ \A t \in S : t.player # s.player
    BY <2>1, <2>2 DEF s
  <2>4. S \cup {s} \in Seatings(players, active, i + 1)
    BY <2>3, OneMoreFits
  <2>5. Who(S \cup {s}) = Who(S) \cup {p}
    BY <2>3 DEF Who
  <2>6. QED
    BY <2>4, <2>5 DEF s
<1> HIDE DEF old, new, next, seat
<1>7. ASSUME NEW mask, NEW U \in opt(mask)
      PROVE  U \in new /\ Who(U) = mask
  <2>1. CASE mask \in DOMAIN st /\ U = st[mask]
    BY <1>2, <1>4, <2>1
  <2>2. CASE \E m \in DOMAIN st, p \in players :
                /\ p \notin m /\ CanPlay(p, active[k]) /\ mask = m \cup {p}
                /\ U = st[m] \cup {seat(p)}
    BY <1>2, <1>6, <2>2
  <2>3. QED
    BY <2>1, <2>2, OptionsAre DEF seat
<1> HIDE DEF opt
<1>8. ASSUME NEW mask, opt(mask) # {}
      PROVE  /\ next[mask] \in opt(mask)
             /\ \A U \in opt(mask) : AtLeast(next[mask], U, active)
  <2> DEFINE O == opt(mask)
  <2>1. next[mask] = Greatest(O, active)
    BY <1>8, ExtendIs DEF next, opt
  <2>2. O \in SUBSET Seatings(players, active, k) /\ O # {}
    BY <1>7, <1>8 DEF new
  <2> HIDE DEF O, k
  <2>3. Greatest(O, active) \in O /\ \A U \in O : AtLeast(Greatest(O, active), U, active)
    BY <1>1, <2>2, GreatestIs
  <2>4. QED
    BY <2>1, <2>3 DEF O
<1>9. \A mask : mask \in DOMAIN next <=> opt(mask) # {}
  BY ExtendIs DEF next, opt
<1>10. \A mask \in DOMAIN next : next[mask] \in new /\ Who(next[mask]) = mask
  BY <1>7, <1>8, <1>9
<1>11. ASSUME NEW T \in new, NEW U \in opt(Who(T)), AtLeast(U, T, active)
       PROVE  Who(T) \in DOMAIN next /\ AtLeast(next[Who(T)], T, active)
  <2> DEFINE V == next[Who(T)]
  <2>1. V \in opt(Who(T)) /\ AtLeast(V, U, active) /\ Who(T) \in DOMAIN next
    BY <1>8, <1>9
  <2>2. V \in Seatings(players, active, k) /\ U \in Seatings(players, active, k)
        /\ T \in Seatings(players, active, k)
    BY <1>7, <2>1 DEF new
  <2> HIDE DEF V, k
  <2>3. AtLeast(V, T, active)
    BY <1>1, <1>11, <2>1, <2>2, AtLeastIsTransitive
  <2>4. QED
    BY <2>1, <2>3 DEF V
<1>12. ASSUME NEW T \in new
       PROVE  Who(T) \in DOMAIN next /\ AtLeast(next[Who(T)], T, active)
  <2>1. CASE T \in old
    <3>1. Who(T) \in DOMAIN st /\ AtLeast(st[Who(T)], T, active)
      BY <1>3, <2>1
    <3>2. st[Who(T)] \in opt(Who(T))
      BY <3>1, OptionsAre DEF opt
    <3>3. QED
      BY <1>11, <3>1, <3>2
  <2>2. CASE \E s \in T : /\ s.at = i + 1 /\ s \in Seats(players, active, i + 1)
                          /\ T \ {s} \in old /\ \A t \in T \ {s} : t.player # s.player
    <3>1. PICK s \in T : /\ s.at = i + 1 /\ s \in Seats(players, active, i + 1)
                         /\ T \ {s} \in old /\ \A t \in T \ {s} : t.player # s.player
      BY <2>2
    <3> DEFINE S == T \ {s}
               m == Who(S)
               U == st[m]
               p == s.player
    <3>2. /\ p \in players /\ CanPlay(p, active[k]) /\ s = seat(p)
      <4>1. /\ s.player \in players /\ CanPlay(s.player, active[s.at])
            /\ s = [player |-> s.player, at |-> s.at]
        BY <3>1, SeatIs
      <4>2. QED
        BY <3>1, <4>1 DEF seat
    <3>3. p \notin m /\ Who(T) = m \cup {p}
      BY <3>1 DEF Who
    <3>4. m \in DOMAIN st /\ U \in old /\ Who(U) = m /\ AtLeast(U, S, active)
      BY <1>2, <1>3, <3>1
    <3>5. U \cup {s} \in opt(Who(T))
      <4>1. \A q \in players :
                q \notin m /\ CanPlay(q, active[k]) /\ Who(T) = m \cup {q}
                => st[m] \cup {[player |-> q, at |-> k]}
                     \in Options(st, k, players, active, Who(T))
        BY <3>4, OptionsAre
      <4>2. QED
        BY <3>2, <3>3, <4>1 DEF opt, seat
    <3>6. \A t \in U : t.player # s.player
      BY <3>3, <3>4 DEF Who
    <3>7. \A t \in S : t.player # s.player
      BY <3>1
    <3>8. S \in Seatings(players, active, i) /\ U \in Seatings(players, active, i)
      BY <3>1, <3>4 DEF old
    <3>9. S \cup {s} = T
      BY <3>1
    <3> HIDE DEF S, U
    <3>10. AtLeast(U \cup {s}, S \cup {s}, active)
      BY <3>1, <3>4, <3>6, <3>7, <3>8, GrowthKeepsOrder
    <3>11. QED
      BY <1>11, <3>5, <3>9, <3>10
  <2>3. QED
    BY <1>1, <2>1, <2>2, SeatingSplits DEF old, new
<1>13. QED
  BY <1>10, <1>12 DEF Good, next, new

LEMMA GoodToStart ==
    ASSUME NEW players, NEW active, NEW n, IsRoster(players, active, n)
    PROVE  Good([mask \in {{}} |-> {}], players, active, 0)
<1> DEFINE st == [mask \in {{}} |-> {}]
<1>1. Seats(players, active, 0) = {}
  <2>1. 1..0 = {}
    OBVIOUS
  <2>2. QED
    BY <2>1 DEF Seats
<1>2. Seatings(players, active, 0) = {{}}
  BY <1>1 DEF Seatings
<1>3. Who({}) = {}
  BY DEF Who
<1>4. AtLeast({}, {}, active)
  <2> DEFINE E == {}
  <2>1. E \in Seatings(players, active, 0) /\ 0 \in 0..n
    BY <1>2 DEF IsRoster
  <2> HIDE DEF E
  <2>2. SeatsKey(E, active) \in Seq(Int)
    BY <2>1, KeyIs
  <2>3. AtLeast(E, E, active)
    BY <2>2, PrecedesIrreflexive DEF AtLeast
  <2>4. QED
    BY <2>3 DEF E
<1>5. QED
  BY <1>2, <1>3, <1>4 DEF Good

\* The tables of the programme, up to slot k.
Tables(f, players, active, k) ==
    f = [i \in 0..k |-> IF i = 0 THEN [mask \in {{}} |-> {}]
                        ELSE Extend(f[i - 1], i, players, active)]

LEMMA TablesExist ==
    ASSUME NEW players, NEW active, NEW n \in Nat
    PROVE  \E f : Tables(f, players, active, n)
<1> DEFINE bad == {k \in 0..n : ~\E f : Tables(f, players, active, k)}
           start == [mask \in {{}} |-> {}]
<1>1. SUFFICES ASSUME bad # {} PROVE FALSE
  OBVIOUS
<1>2. PICK k \in bad : \A j \in bad : k <= j
  <2>1. bad \in SUBSET Nat
    OBVIOUS
  <2> HIDE DEF bad
  <2>2. QED
    BY <1>1, <2>1, LeastNumber
<1>3. k \in Nat /\ ~\E f : Tables(f, players, active, k)
  OBVIOUS
<1> HIDE DEF start
<1>4. k # 0
  <2> DEFINE f == [i \in 0..0 |-> start]
  <2>1. \A i \in 0..0 : i = 0
    OBVIOUS
  <2>2. f = [i \in 0..0 |-> IF i = 0 THEN start ELSE Extend(f[i - 1], i, players, active)]
    BY <2>1
  <2> HIDE DEF f
  <2>3. Tables(f, players, active, 0)
    BY <2>2 DEF Tables, start
  <2>4. QED
    BY <1>3, <2>3
<1>5. k - 1 \in 0..n /\ ~(k <= k - 1)
  BY <1>3, <1>4
<1>6. PICK f : Tables(f, players, active, k - 1)
  BY <1>2, <1>5
<1>7. f = [i \in 0..(k - 1) |-> IF i = 0 THEN start ELSE Extend(f[i - 1], i, players, active)]
  BY <1>6 DEF Tables, start
<1> HIDE DEF bad
<1> DEFINE g == [i \in 0..k |-> IF i = k THEN Extend(f[k - 1], k, players, active) ELSE f[i]]
<1>8. \A i \in 0..k : g[i] = IF i = 0 THEN start ELSE Extend(g[i - 1], i, players, active)
  <2> SUFFICES ASSUME NEW i \in 0..k
               PROVE  g[i] = IF i = 0 THEN start ELSE Extend(g[i - 1], i, players, active)
    OBVIOUS
  <2>1. \A j \in 0..(k - 1) : g[j] = f[j] /\ j \in 0..k
    BY <1>3
  <2>2. k \in 0..k /\ g[k] = Extend(f[k - 1], k, players, active) /\ k - 1 \in 0..(k - 1)
    BY <1>3, <1>4
  <2> HIDE DEF g
  <2>3. CASE i = k
    BY <1>4, <2>1, <2>2, <2>3
  <2>4. CASE i = 0
    <3>1. 0 \in 0..(k - 1)
      BY <1>3, <1>4
    <3>2. f[0] = start
      BY <1>7, <3>1
    <3>3. QED
      BY <2>1, <2>4, <3>1, <3>2
  <2>5. CASE i # 0 /\ i # k
    <3>1. i \in 0..(k - 1) /\ i - 1 \in 0..(k - 1)
      BY <1>3, <2>5
    <3>2. f[i] = Extend(f[i - 1], i, players, active)
      BY <1>7, <2>5, <3>1
    <3>3. QED
      BY <2>1, <2>5, <3>1, <3>2
  <2>6. QED
    BY <2>3, <2>4, <2>5
<1>9. g = [i \in 0..k |-> g[i]]
  OBVIOUS
<1> HIDE DEF g
<1>10. g = [i \in 0..k |-> IF i = 0 THEN start ELSE Extend(g[i - 1], i, players, active)]
  BY <1>8, <1>9
<1>11. Tables(g, players, active, k)
  BY <1>10 DEF Tables, start
<1>12. QED
  BY <1>3, <1>11

\* The programme finds a greatest of all seatings.
LEMMA AssignIsBest ==
    ASSUME NEW players, NEW active, NEW n, IsRoster(players, active, n), Len(active) = n
    PROVE  LET best == AssignActiveSlots(players, active)
           IN  /\ best \in Seatings(players, active, n)
               /\ \A S \in Seatings(players, active, n) : AtLeast(best, S, active)
<1> DEFINE f == CHOOSE h : Tables(h, players, active, n)
           best == AssignActiveSlots(players, active)
<1>1. n \in Nat
  BY DEF IsRoster
<1>2. Tables(f, players, active, n)
  BY <1>1, TablesExist
<1>3. best = Greatest(Range(f[n]), active)
  BY DEF AssignActiveSlots, Tables
<1> HIDE DEF f, best
<1>4. /\ f[0] = [mask \in {{}} |-> {}]
      /\ \A i \in 0..n : i # 0 => f[i] = Extend(f[i - 1], i, players, active)
  <2>1. 0 \in 0..n
    BY <1>1
  <2>2. QED
    BY <1>2, <2>1 DEF Tables
<1>5. \A i \in 0..n : Good(f[i], players, active, i)
  <2> DEFINE bad == {i \in 0..n : ~Good(f[i], players, active, i)}
  <2>1. SUFFICES ASSUME bad # {} PROVE FALSE
    OBVIOUS
  <2>2. PICK k \in bad : \A j \in bad : k <= j
    <3>1. bad \in SUBSET Nat
      OBVIOUS
    <3> HIDE DEF bad
    <3>2. QED
      BY <2>1, <3>1, LeastNumber
  <2>3. k \in 0..n /\ ~Good(f[k], players, active, k)
    OBVIOUS
  <2>4. k # 0
    BY <1>4, <2>3, GoodToStart
  <2>5. k - 1 \in 0..n /\ ~(k <= k - 1) /\ k - 1 # n /\ (k - 1) + 1 = k
    BY <1>1, <2>3, <2>4
  <2> DEFINE i == k - 1
  <2>6. Good(f[i], players, active, i)
    BY <2>2, <2>5
  <2>7. f[k] = Extend(f[i], k, players, active)
    BY <1>4, <2>3, <2>4
  <2> HIDE DEF i, bad
  <2>8. i \in 0..n /\ i # n /\ i + 1 = k
    BY <2>5 DEF i
  <2>9. Good(Extend(f[i], i + 1, players, active), players, active, i + 1)
    BY <2>6, <2>8, ExtendKeepsGood
  <2>10. QED
    BY <2>3, <2>7, <2>8, <2>9
<1> DEFINE st == f[n]
           O == Range(st)
<1>6. Good(st, players, active, n)
  BY <1>1, <1>5
<1> HIDE DEF st
<1>7. \A S \in O : S \in Seatings(players, active, n)
  BY <1>6 DEF Good, Range
<1>8. \A S \in Seatings(players, active, n) : st[Who(S)] \in O /\ AtLeast(st[Who(S)], S, active)
  BY <1>6 DEF Good, Range
<1>9. {} \in Seatings(players, active, n)
  BY DEF Seatings
<1>10. O \in SUBSET Seatings(players, active, n) /\ O # {}
  BY <1>7, <1>8, <1>9
<1> HIDE DEF O
<1>11. best \in O /\ \A S \in O : AtLeast(best, S, active)
  <2>1. n \in 0..n
    BY <1>1
  <2>2. best = Greatest(O, active)
    BY <1>3 DEF O, st
  <2>3. QED
    BY <1>10, <2>1, <2>2, GreatestIs
<1>12. ASSUME NEW S \in Seatings(players, active, n)
       PROVE  AtLeast(best, S, active)
  <2> DEFINE T == st[Who(S)]
  <2>1. T \in O /\ AtLeast(T, S, active)
    BY <1>8
  <2> HIDE DEF T
  <2>2. AtLeast(best, T, active)
    BY <1>11, <2>1
  <2>3. /\ n \in 0..n /\ T \in Seatings(players, active, n)
        /\ best \in Seatings(players, active, n)
    BY <1>1, <1>10, <1>11, <2>1
  <2>4. QED
    BY <2>1, <2>2, <2>3, AtLeastIsTransitive
<1>13. QED
  BY <1>10, <1>11, <1>12 DEF best

-------------------------------------------------------------------------------
(* The user's roster. *)

LEMMA SlotCountsAreWhole ==
    ASSUME NEW l \in Leagues, NEW key
    PROVE  SlotCount(l.slots, key) \in Nat
<1> DEFINE w == [i \in {j \in DOMAIN l.slots : l.slots[j].key = key} |-> l.slots[i].count]
<1>1. l.slots \in Seq([key : DOMAIN SlotPositions \cup {"IR"}, count : Nat])
  BY LeagueAssumption
<1>2. Len(l.slots) \in Nat /\ DOMAIN l.slots = 1..Len(l.slots)
  BY <1>1
<1>3. \A i \in DOMAIN l.slots : l.slots[i].count \in Nat
  <2> DEFINE R == [key : DOMAIN SlotPositions \cup {"IR"}, count : Nat]
  <2>1. l.slots \in Seq(R)
    BY <1>1
  <2>2. \A r \in R : r.count \in Nat
    OBVIOUS
  <2> HIDE DEF R
  <2>3. QED
    BY <2>1, <2>2, ElementOfSeq, <1>2
<1>4. IsFiniteSet(DOMAIN l.slots)
  BY <1>2, FS_Interval
<1>5. IsFiniteSet(DOMAIN w) /\ \A i \in DOMAIN w : w[i] \in Nat
  BY <1>3, <1>4, FS_Subset
<1> HIDE DEF w
<1>6. SumFunction(w) \in Nat
  BY <1>5, SumIsTotal, TotalIsNatural
<1>7. QED
  BY <1>6 DEF SlotCount, w

LEMMA PlacesOfSlots ==
    \A k \in ActiveSlotKeys : Place(SlotOrder, k) \in 1..8 /\ SlotOrder[Place(SlotOrder, k)] = k
<1>1. DOMAIN SlotOrder = 1..8
  BY DEF SlotOrder
<1>2. \A k \in ActiveSlotKeys : \E i \in 1..8 : SlotOrder[i] = k
  <2>1. /\ SlotOrder[1] = "PG" /\ SlotOrder[2] = "SG" /\ SlotOrder[3] = "SF"
        /\ SlotOrder[4] = "PF" /\ SlotOrder[5] = "C" /\ SlotOrder[6] = "G"
        /\ SlotOrder[7] = "F" /\ SlotOrder[8] = "UTIL"
    BY DEF SlotOrder
  <2>2. /\ 1 \in 1..8 /\ 2 \in 1..8 /\ 3 \in 1..8 /\ 4 \in 1..8
        /\ 5 \in 1..8 /\ 6 \in 1..8 /\ 7 \in 1..8 /\ 8 \in 1..8
    OBVIOUS
  <2>3. QED
    BY <2>1, <2>2 DEF ActiveSlotKeys
<1>3. QED
  BY <1>1, <1>2 DEF Place

LEMMA SlotKeysAreFinite == IsFiniteSet(ActiveSlotKeys)
<1>1. ActiveSlotKeys = {"PG"} \cup ({"SG"} \cup ({"SF"} \cup ({"PF"} \cup ({"C"} \cup
                       ({"G"} \cup ({"F"} \cup ({"UTIL"} \cup {})))))))
  BY DEF ActiveSlotKeys
<1>2. \A S, x : IsFiniteSet(S) => IsFiniteSet({x} \cup S)
  BY FS_AddElement
<1>3. QED
  BY <1>1, <1>2, FS_EmptySet, Zenon

\* The active slots of a league: finitely many, told apart by key and index.
LEMMA ActiveSlotsAre ==
    ASSUME NEW l \in Leagues
    PROVE  LET active == ActiveSlots(l.slots)
               n == Len(active)
           IN  /\ n \in Nat /\ DOMAIN active = 1..n
               /\ \A i \in 1..n : /\ active[i].slot \in ActiveSlotKeys
                                  /\ Place(SlotOrder, active[i].slot) \in Int
                                  /\ active[i].index \in Int
               /\ \A i, j \in 1..n : SlotKey(active[i]) = SlotKey(active[j]) => i = j
               /\ \A i, j \in 1..n : active[i] = active[j] => i = j
<1> DEFINE row(k) == {[slot |-> k, index |-> i] : i \in 1..SlotCount(l.slots, k)}
           instances == UNION {row(k) : k \in ActiveSlotKeys}
           key == [a \in instances |-> SlotKey(a)]
<1>1. \A k \in ActiveSlotKeys : IsFiniteSet(row(k))
  <2> SUFFICES ASSUME NEW k \in ActiveSlotKeys PROVE IsFiniteSet(row(k))
    OBVIOUS
  <2> DEFINE I == 1..SlotCount(l.slots, k)
             f == [i \in I |-> [slot |-> k, index |-> i]]
  <2>1. IsFiniteSet(I)
    BY SlotCountsAreWhole, FS_Interval
  <2>2. row(k) = {f[i] : i \in I}
    OBVIOUS
  <2> HIDE DEF f, I, row
  <2>3. IsFiniteSet({f[i] : i \in I})
    BY <2>1, FiniteImage
  <2>4. QED
    BY <2>2, <2>3
<1>2. IsFiniteSet(instances)
  <2> DEFINE f == [k \in ActiveSlotKeys |-> row(k)]
             rows == {f[k] : k \in ActiveSlotKeys}
  <2>1. \A k \in ActiveSlotKeys : IsFiniteSet(f[k])
    BY <1>1
  <2>2. \A k \in ActiveSlotKeys : f[k] = row(k)
    OBVIOUS
  <2>3. instances = UNION rows
    <3> HIDE DEF f, row
    <3>1. rows = {row(k) : k \in ActiveSlotKeys}
      BY <2>2
    <3>2. QED
      BY <3>1
  <2> HIDE DEF f, instances
  <2>4. IsFiniteSet(rows)
    BY SlotKeysAreFinite, FiniteImage
  <2>5. \A T \in rows : IsFiniteSet(T)
    BY <2>1
  <2> HIDE DEF rows
  <2>6. QED
    BY <2>3, <2>4, <2>5, FS_UNION
<1>3. \A a \in instances : /\ a.slot \in ActiveSlotKeys /\ a.index \in Int
                           /\ a = [slot |-> a.slot, index |-> a.index]
  OBVIOUS
<1> HIDE DEF instances
<1>4. \A a \in instances : /\ Place(SlotOrder, a.slot) \in Int
                           /\ SlotOrder[Place(SlotOrder, a.slot)] = a.slot
  BY <1>3, PlacesOfSlots
<1>5. \A a, b \in Int : <<a, b>> \in Seq(Int) /\ Len(<<a, b>>) = 2
  OBVIOUS
<1>6. \A a, b, c, d : <<a, b>> = <<c, d>> => a = c /\ b = d
  OBVIOUS
<1>7. \A a \in instances : key[a] \in Seq(Int) /\ Len(key[a]) = 2
  BY <1>3, <1>4, <1>5 DEF SlotKey
<1>8. \A a, b \in instances : SlotKey(a) = SlotKey(b) => a = b
  <2> SUFFICES ASSUME NEW a \in instances, NEW b \in instances, SlotKey(a) = SlotKey(b)
               PROVE  a = b
    OBVIOUS
  <2>1. Place(SlotOrder, a.slot) = Place(SlotOrder, b.slot) /\ a.index = b.index
    BY <1>6 DEF SlotKey
  <2>2. a.slot = b.slot
    BY <1>4, <2>1
  <2>3. QED
    BY <1>3, <2>1, <2>2
<1>9. \A a \in instances : key[a] = SlotKey(a)
  OBVIOUS
<1> HIDE DEF key
<1>10. Sortable(instances, key)
  BY <1>2, <1>7, <1>8, <1>9 DEF Sortable
<1> DEFINE active == SortedBy(instances, key)
           n == Len(active)
<1>11. ActiveSlots(l.slots) = active
  BY DEF ActiveSlots, instances, key
<1>12. /\ n \in Nat /\ DOMAIN active = 1..n
       /\ \A i \in 1..n : active[i] \in instances /\ PlaceIn(instances, key, active[i]) = i
  BY <1>10, SortedByIsSorted
<1> HIDE DEF active, n
<1>13. \A i, j \in 1..n : active[i] = active[j] => i = j
  BY <1>12
<1>14. \A i, j \in 1..n : SlotKey(active[i]) = SlotKey(active[j]) => i = j
  BY <1>8, <1>12, <1>13
<1>15. \A i \in 1..n : /\ active[i].slot \in ActiveSlotKeys
                       /\ Place(SlotOrder, active[i].slot) \in Int
                       /\ active[i].index \in Int
  BY <1>3, <1>4, <1>12
<1>16. QED
  BY <1>11, <1>12, <1>13, <1>14, <1>15 DEF n

\* The player of a pick, as the roster has it.
ItemOf(p) == CHOOSE x \in board.items : x.id = p
RosterPlayer(p, k) ==
    LET item == ItemOf(p)
    IN  [id |-> item.id, name |-> item.name, positions |-> pool[item.id].positions,
         pts |-> item.pts, pick |-> k]

LEMMA PlayerOfPick ==
    ASSUME Inv, ~board.failed, NEW p \in DOMAIN pool, NEW k
    PROVE  /\ ItemOf(p) \in board.items /\ ItemOf(p).id = p
           /\ RosterPlayer(p, k).id = p
           /\ RosterPlayer(p, k).positions = pool[p].positions
           /\ RosterPlayer(p, k).id \in Int /\ RosterPlayer(p, k).name \in Int
           /\ RosterPlayer(p, k).pts \in Int /\ RosterPlayer(p, k).pick = k
<1>1. /\ \E x \in board.items : x.id = p
      /\ \A x \in board.items : IsValuation(x)
  BY BoardHolds DEF IsBoard
<1>2. ItemOf(p) \in board.items /\ ItemOf(p).id = p
  BY <1>1 DEF ItemOf
<1>3. IsValuation(ItemOf(p))
  BY <1>1, <1>2
<1>4. QED
  BY <1>2, <1>3 DEF RosterPlayer, IsValuation

LEMMA RosterPlayersAre ==
    ASSUME Inv, ~board.failed
    PROVE  /\ IsFiniteSet(RosterPlayers(picks))
           /\ \A p \in RosterPlayers(picks) : /\ p.id \in Int /\ p.name \in Int /\ p.pts \in Int
                                              /\ p.pick \in DOMAIN picks /\ p.id = picks[p.pick]
           /\ \A p, q \in RosterPlayers(picks) : p.id = q.id => p = q
<1> DEFINE K == UserPicks(picks)
           f == [k \in K |-> RosterPlayer(picks[k], k)]
<1>1. RosterPlayers(picks) = {f[k] : k \in K}
  BY DEF RosterPlayers, RosterPlayer, ItemOf
<1>2. /\ picks \in Seq(DOMAIN pool) /\ Len(picks) \in Nat /\ DOMAIN picks = 1..Len(picks)
      /\ \A i, j \in DOMAIN picks : picks[i] = picks[j] => i = j
  BY DEF Inv
<1>3. K \subseteq DOMAIN picks
  BY DEF UserPicks
<1>4. IsFiniteSet(K)
  <2>1. IsFiniteSet(1..Len(picks))
    BY <1>2, FS_Interval
  <2>2. QED
    BY <1>2, <1>3, <2>1, FS_Subset
<1>5. \A k \in K : /\ f[k].id = picks[k] /\ f[k].pick = k
                   /\ f[k].id \in Int /\ f[k].name \in Int /\ f[k].pts \in Int
  <2> SUFFICES ASSUME NEW k \in K
               PROVE  /\ f[k].id = picks[k] /\ f[k].pick = k
                      /\ f[k].id \in Int /\ f[k].name \in Int /\ f[k].pts \in Int
    OBVIOUS
  <2>1. picks[k] \in DOMAIN pool
    BY <1>2, <1>3
  <2>2. f[k] = RosterPlayer(picks[k], k)
    OBVIOUS
  <2> HIDE DEF f
  <2>3. QED
    BY <2>1, <2>2, PlayerOfPick
<1> HIDE DEF f, K
<1>6. IsFiniteSet({f[k] : k \in K})
  BY <1>4, FiniteImage
<1>7. QED
  BY <1>1, <1>2, <1>3, <1>5, <1>6

LEMMA SomeOfRoster ==
    ASSUME NEW P, NEW active, NEW n, IsRoster(P, active, n), NEW A \in SUBSET P
    PROVE  IsRoster(A, active, n)
<1>1. IsFiniteSet(A)
  BY FS_Subset DEF IsRoster
<1>2. QED
  BY <1>1 DEF IsRoster

\* The players and slots assign_roster works on.
LEMMA RosterIsRoster ==
    ASSUME Inv, ~board.failed
    PROVE  LET active == ActiveSlots(league.slots)
           IN  IsRoster(RosterPlayers(picks), active, Len(active))
<1> DEFINE active == ActiveSlots(league.slots)
           n == Len(active)
           players == RosterPlayers(picks)
<1>1. league \in Leagues
  BY DEF Inv
<1>2. /\ n \in Nat /\ DOMAIN active = 1..n
      /\ \A i \in 1..n : Place(SlotOrder, active[i].slot) \in Int /\ active[i].index \in Int
      /\ \A i, j \in 1..n : SlotKey(active[i]) = SlotKey(active[j]) => i = j
  BY <1>1, ActiveSlotsAre
<1>3. /\ IsFiniteSet(players)
      /\ \A p \in players : p.id \in Int /\ p.name \in Int /\ p.pts \in Int
      /\ \A p, q \in players : p.id = q.id => p = q
  BY RosterPlayersAre
<1> HIDE DEF active, n, players
<1>4. IsRoster(players, active, n)
  BY <1>2, <1>3 DEF IsRoster
<1>5. QED
  BY <1>4 DEF players, active, n

\* Only players with eligibility can be seated.
LEMMA OnlyAssignableSit ==
    ASSUME NEW players, NEW active, NEW i
    PROVE  Seatings(players, active, i) = Seatings(Assignable(players), active, i)
<1>1. \A p, a : CanPlay(p, a) => p.positions # {}
  BY DEF CanPlay, Fits
<1>2. Seats(players, active, i) = Seats(Assignable(players), active, i)
  BY <1>1 DEF Seats, Assignable
<1>3. QED
  BY <1>2 DEF Seatings

\* assign_roster seats the user's players as well as they can be seated: no other
\* seating comes before it, for every league, projection set and course of a draft.
THEOREM LineupIsBestHolds == Spec => []LineupIsBest
<1>1. Inv => LineupIsBest
  <2> SUFFICES ASSUME Inv, ~board.failed PROVE LineupIsBest
    BY DEF LineupIsBest
  <2> DEFINE active == ActiveSlots(league.slots)
             n == Len(active)
             all == RosterPlayers(picks)
             players == Assignable(all)
             best == AssignActiveSlots(players, active)
  <2>1. Roster(picks).active = active /\ Roster(picks).starters = best
    BY DEF Roster, AssignRoster, LineUp, RosterWith
  <2>2. IsRoster(players, active, n)
    <3>1. IsRoster(all, active, n)
      BY RosterIsRoster
    <3>2. players \in SUBSET all
      BY DEF Assignable
    <3> HIDE DEF all, players, active, n
    <3>3. QED
      BY <3>1, <3>2, SomeOfRoster
  <2>3. DOMAIN active = 1..n
    BY <2>2 DEF IsRoster
  <2>4. Seatings(all, active, n) = Seatings(players, active, n)
    BY OnlyAssignableSit
  <2> HIDE DEF active, n, all, players, best
  <2>5. \A S \in Seatings(players, active, n) : AtLeast(best, S, active)
    BY <2>2, AssignIsBest DEF n, best
  <2>6. \A S \in Seatings(all, active, n) : ~Precedes(SeatsKey(best, active), SeatsKey(S, active))
    BY <2>4, <2>5 DEF AtLeast
  <2>7. ASSUME NEW roster \in {Roster(picks)},
               NEW S \in SUBSET {s \in {[player |-> p, at |-> i] :
                                          p \in RosterPlayers(picks), i \in DOMAIN roster.active} :
                                    CanPlay(s.player, roster.active[s.at])},
               \A s, t \in S : s # t => s.player # t.player /\ s.at # t.at
        PROVE  ~Precedes(SeatsKey(roster.starters, roster.active), SeatsKey(S, roster.active))
    <3>1. roster.active = active /\ roster.starters = best
      BY <2>1
    <3>2. S \subseteq Seats(all, active, n)
      BY <2>3, <3>1 DEF Seats, all
    <3>3. S \in Seatings(all, active, n)
      BY <2>7, <3>2 DEF Seatings
    <3>4. QED
      BY <2>6, <3>1, <3>3
  <2>8. QED
    BY <2>7 DEF LineupIsBest
<1>2. QED
  BY <1>1, InvHolds, PTL

-------------------------------------------------------------------------------
(* Renaming: what a seating keeps when players change their pick only. *)

\* r takes S one-to-one onto T.
Renames(r, S, T) ==
    /\ \A x \in S : r[x] \in T
    /\ \A y \in T : \E x \in S : r[x] = y
    /\ \A x, y \in S : r[x] = r[y] => x = y

LEMMA RenamedCounts ==
    ASSUME NEW S, IsFiniteSet(S), NEW T, NEW r, Renames(r, S, T)
    PROVE  IsFiniteSet(T) /\ Cardinality(T) = Cardinality(S)
<1> DEFINE g == [x \in S |-> r[x]]
<1>1. g \in Surjection(S, T) /\ g \in Injection(S, T)
  BY DEF Renames, Surjection, Injection, IsInjective
<1>2. QED
  BY <1>1, FS_Surjection

LEMMA TokensRenamed ==
    ASSUME NEW S, IsFiniteSet(S), NEW w, \A x \in S : w[x] \in Int,
           NEW T, NEW v, NEW r, Renames(r, S, T), \A x \in S : v[r[x]] = w[x]
    PROVE  Cardinality(Tokens(v, T)) = Cardinality(Tokens(w, S))
<1> DEFINE A == Tokens(w, S)
           B == Tokens(v, T)
           g == [a \in A |-> <<r[a[1]], a[2]>>]
<1>1. \A a : a \in A <=> \E x \in S : \E i \in 1..w[x] : a = <<x, i>>
  BY DEF Tokens
<1>2. \A b : b \in B <=> \E y \in T : \E i \in 1..v[y] : b = <<y, i>>
  BY DEF Tokens
<1>3. IsFiniteSet(A)
  BY TokensCount
<1>4. \A x, i, y, j : <<x, i>>[1] = x /\ <<x, i>>[2] = i
                      /\ (<<x, i>> = <<y, j>> => x = y /\ i = j)
  OBVIOUS
<1>5. \A x \in S : \A i \in 1..w[x] : <<x, i>> \in A /\ g[<<x, i>>] = <<r[x], i>>
  <2> SUFFICES ASSUME NEW x \in S, NEW i \in 1..w[x]
               PROVE  <<x, i>> \in A /\ g[<<x, i>>] = <<r[x], i>>
    OBVIOUS
  <2>1. <<x, i>> \in A
    BY <1>1
  <2>2. g[<<x, i>>] = <<r[<<x, i>>[1]], <<x, i>>[2]>>
    BY <2>1
  <2>3. QED
    BY <1>4, <2>1, <2>2
<1> HIDE DEF A, B, g
<1>6. \A a \in A : g[a] \in B
  <2> SUFFICES ASSUME NEW a \in A PROVE g[a] \in B
    OBVIOUS
  <2>1. PICK x \in S : \E i \in 1..w[x] : a = <<x, i>>
    BY <1>1
  <2> PICK i \in 1..w[x] : a = <<x, i>>
    BY <2>1
  <2>2. r[x] \in T /\ v[r[x]] = w[x]
    BY DEF Renames
  <2>3. QED
    BY <1>2, <1>5, <2>1, <2>2
<1>7. \A b \in B : \E a \in A : g[a] = b
  <2> SUFFICES ASSUME NEW b \in B PROVE \E a \in A : g[a] = b
    OBVIOUS
  <2>1. PICK y \in T : \E i \in 1..v[y] : b = <<y, i>>
    BY <1>2
  <2> PICK i \in 1..v[y] : b = <<y, i>>
    BY <2>1
  <2>2. PICK x \in S : r[x] = y
    BY DEF Renames
  <2>3. i \in 1..w[x]
    BY <2>1, <2>2
  <2>4. QED
    BY <1>5, <2>1, <2>2, <2>3
<1>8. \A a, c \in A : g[a] = g[c] => a = c
  <2> SUFFICES ASSUME NEW a \in A, NEW c \in A, g[a] = g[c] PROVE a = c
    OBVIOUS
  <2>1. PICK x \in S : \E i \in 1..w[x] : a = <<x, i>>
    BY <1>1
  <2> PICK i \in 1..w[x] : a = <<x, i>>
    BY <2>1
  <2>2. PICK y \in S : \E j \in 1..w[y] : c = <<y, j>>
    BY <1>1
  <2> PICK j \in 1..w[y] : c = <<y, j>>
    BY <2>2
  <2>3. <<r[x], i>> = <<r[y], j>>
    BY <1>5, <2>1, <2>2
  <2>4. r[x] = r[y] /\ i = j
    BY <1>4, <2>3
  <2>5. x = y
    BY <2>4 DEF Renames
  <2>6. QED
    BY <2>1, <2>2, <2>4, <2>5
<1>9. Renames(g, A, B)
  BY <1>6, <1>7, <1>8 DEF Renames
<1>10. QED
  BY <1>3, <1>9, RenamedCounts DEF A, B

LEMMA TotalRenamed ==
    ASSUME NEW S, IsFiniteSet(S), NEW w, \A x \in S : w[x] \in Int,
           NEW T, NEW v, NEW r, Renames(r, S, T), \A x \in S : v[r[x]] = w[x]
    PROVE  Total(v, T) = Total(w, S)
<1> DEFINE a == [x \in S |-> -w[x]]
           b == [y \in T |-> -v[y]]
<1>1. \A x \in S : a[x] \in Int
  OBVIOUS
<1>2. \A x \in S : r[x] \in T
  BY DEF Renames
<1>3. \A x \in S : b[r[x]] = a[x]
  BY <1>2
<1>4. Cardinality(Tokens(v, T)) = Cardinality(Tokens(w, S))
  BY TokensRenamed
<1>5. Total(v, T) = Cardinality(Tokens(v, T)) - Cardinality(Tokens(b, T))
  BY DEF Total
<1>6. Total(w, S) = Cardinality(Tokens(w, S)) - Cardinality(Tokens(a, S))
  BY DEF Total
<1> HIDE DEF a, b
<1>7. Cardinality(Tokens(b, T)) = Cardinality(Tokens(a, S))
  BY <1>1, <1>3, TokensRenamed
<1>8. QED
  BY <1>4, <1>5, <1>6, <1>7

LEMMA SortedRenamed ==
    ASSUME NEW S, NEW key, Sortable(S, key), NEW T, NEW new, Sortable(T, new),
           NEW r, Renames(r, S, T),
           \A x, y \in S : Precedes(key[x], key[y]) <=> Precedes(new[r[x]], new[r[y]])
    PROVE  /\ Cardinality(T) = Cardinality(S)
           /\ \A i \in 1..Cardinality(S) : SortedBy(T, new)[i] = r[SortedBy(S, key)[i]]
<1>1. IsFiniteSet(S) /\ Cardinality(T) = Cardinality(S)
  BY RenamedCounts DEF Sortable
<1>2. ASSUME NEW x \in S
      PROVE  PlaceIn(T, new, r[x]) = PlaceIn(S, key, x)
  <2> DEFINE A == Before(S, key, x)
             B == Before(T, new, r[x])
  <2>1. \A y : y \in A <=> y \in S /\ Precedes(key[y], key[x])
    BY DEF Before
  <2>2. \A y : y \in B <=> y \in T /\ Precedes(new[y], new[r[x]])
    BY DEF Before
  <2>3. IsFiniteSet(A)
    <3>1. A \in SUBSET S
      BY DEF Before
    <3> HIDE DEF A
    <3>2. QED
      BY <1>1, <3>1, FS_Subset
  <2> HIDE DEF A, B
  <2>4. \A y \in A : r[y] \in B
    BY <2>1, <2>2 DEF Renames
  <2>5. \A y \in B : \E z \in A : r[z] = y
    <3> SUFFICES ASSUME NEW y \in B PROVE \E z \in A : r[z] = y
      OBVIOUS
    <3>1. y \in T /\ Precedes(new[y], new[r[x]])
      BY <2>2
    <3>2. PICK z \in S : r[z] = y
      BY <3>1 DEF Renames
    <3>3. QED
      BY <2>1, <3>1, <3>2
  <2>6. \A y, z \in A : r[y] = r[z] => y = z
    BY <2>1 DEF Renames
  <2>7. Renames(r, A, B)
    BY <2>4, <2>5, <2>6 DEF Renames
  <2>8. Cardinality(B) = Cardinality(A)
    BY <2>3, <2>7, RenamedCounts
  <2>9. QED
    BY <2>8 DEF PlaceIn, A, B
<1>3. ASSUME NEW i \in 1..Cardinality(S)
      PROVE  SortedBy(T, new)[i] = r[SortedBy(S, key)[i]]
  <2> DEFINE x == SortedBy(S, key)[i]
  <2>1. x \in S /\ PlaceIn(S, key, x) = i
    BY SortedByIsSorted
  <2> HIDE DEF x
  <2>2. r[x] \in T
    BY <2>1 DEF Renames
  <2>3. SortedBy(T, new)[PlaceIn(T, new, r[x])] = r[x]
    BY <2>2, SortedByIsSorted
  <2>4. PlaceIn(T, new, r[x]) = i
    BY <1>2, <2>1
  <2>5. QED
    BY <2>3, <2>4 DEF x
<1>4. QED
  BY <1>1, <1>3

\* The same players but for their picks.
Twins(r, P, Q) ==
    /\ Renames(r, P, Q)
    /\ \A p \in P : /\ r[p].id = p.id /\ r[p].name = p.name /\ r[p].pts = p.pts
                    /\ r[p].positions = p.positions

TwinSeats(r, S) == [s \in S |-> [player |-> r[s.player], at |-> s.at]]

LEMMA TwinsBack ==
    ASSUME NEW r, NEW P, NEW Q, Twins(r, P, Q)
    PROVE  LET back == [q \in Q |-> CHOOSE p \in P : r[p] = q]
           IN  Twins(back, Q, P)
<1> DEFINE back == [q \in Q |-> CHOOSE p \in P : r[p] = q]
<1>1. \A q \in Q : back[q] \in P /\ r[back[q]] = q
  BY DEF Twins, Renames
<1> HIDE DEF back
<1>2. \A p \in P : r[p] \in Q /\ back[r[p]] = p
  BY <1>1 DEF Twins, Renames
<1>3. Renames(back, Q, P)
  BY <1>1, <1>2 DEF Renames
<1>4. \A q \in Q : /\ back[q].id = q.id /\ back[q].name = q.name /\ back[q].pts = q.pts
                   /\ back[q].positions = q.positions
  BY <1>1 DEF Twins
<1>5. QED
  BY <1>3, <1>4 DEF Twins, back

\* Renaming the players of a seating leaves its key.
LEMMA SeatingRenamed ==
    ASSUME NEW active, NEW n, NEW P, IsRoster(P, active, n), NEW Q, IsRoster(Q, active, n),
           NEW r, Twins(r, P, Q), NEW S \in Seatings(P, active, n)
    PROVE  LET T == {TwinSeats(r, S)[s] : s \in S}
           IN  T \in Seatings(Q, active, n) /\ SeatsKey(T, active) = SeatsKey(S, active)
<1> DEFINE g == TwinSeats(r, S)
           T == {g[s] : s \in S}
<1>1. /\ n \in Nat /\ n \in 0..n /\ DOMAIN active = 1..n
      /\ IsFiniteSet(P) /\ IsFiniteSet(Q) /\ IsFiniteSet(S)
  BY SeatingsAreFinite DEF IsRoster
<1>2. \A s \in S : s.player \in P /\ s.at \in 1..n /\ CanPlay(s.player, active[s.at])
  BY SeatIs DEF Seatings
<1>3. \A s \in S : g[s].player = r[s.player] /\ g[s].at = s.at
                   /\ g[s] = [player |-> r[s.player], at |-> s.at]
  BY DEF TwinSeats
<1>4. \A s \in S : /\ g[s].player \in Q
                   /\ g[s].player.id = s.player.id /\ g[s].player.name = s.player.name
                   /\ g[s].player.pts = s.player.pts
                   /\ g[s].player.positions = s.player.positions
  BY <1>2, <1>3 DEF Twins, Renames
<1> HIDE DEF g
<1>5. \A s \in S : /\ CanPlay(g[s].player, active[g[s].at])
                   /\ Preservation(g[s].player, active[g[s].at], active)
                        = Preservation(s.player, active[s.at], active)
                   /\ Row(g[s], active) = Row(s, active)
  BY <1>2, <1>3, <1>4 DEF CanPlay, Preservation, Flexibility, Row
<1>6. \A s, t \in S : g[s].at = g[t].at \/ g[s].player = g[t].player => s = t
  <2> SUFFICES ASSUME NEW s \in S, NEW t \in S,
                      g[s].at = g[t].at \/ g[s].player = g[t].player
               PROVE  s = t
    OBVIOUS
  <2>1. s.at = t.at \/ s.player = t.player
    <3>1. /\ g[s].at = s.at /\ g[t].at = t.at
          /\ g[s].player = r[s.player] /\ g[t].player = r[t.player]
          /\ s.player \in P /\ t.player \in P
      BY <1>2, <1>3
    <3>2. \A p, q \in P : r[p] = r[q] => p = q
      BY DEF Twins, Renames
    <3>3. QED
      BY <3>1, <3>2
  <2>2. s # t => s.player # t.player /\ s.at # t.at
    BY DEF Seatings
  <2>3. QED
    BY <2>1, <2>2
<1>7. T \in Seatings(Q, active, n)
  <2>1. ASSUME NEW s \in S PROVE g[s] \in Seats(Q, active, n)
    <3>1. /\ g[s] = [player |-> g[s].player, at |-> g[s].at]
          /\ g[s].player \in Q /\ g[s].at \in 1..n
      BY <1>2, <1>3, <1>4
    <3>2. CanPlay(g[s].player, active[g[s].at])
      BY <1>5
    <3>3. QED
      BY <3>1, <3>2 DEF Seats
  <2>2. QED
    BY <1>6, <2>1 DEF Seatings
<1>8. Renames(g, S, T)
  BY <1>6 DEF Renames
<1>9. \A t \in T : \E s \in S : t = g[s]
  OBVIOUS
<1> HIDE DEF T
<1>10. Cardinality(T) = Cardinality(S)
  BY <1>1, <1>8, RenamedCounts
<1>11. \A s \in S : g[s] \in T
  BY <1>8 DEF Renames
<1>12. Points(T) = Points(S)
  <2> DEFINE w == [s \in S |-> s.player.pts]
             v == [t \in T |-> t.player.pts]
  <2>1. \A s \in S : w[s] \in Int
    BY <1>2 DEF IsRoster
  <2>2. \A s \in S : v[g[s]] = w[s]
    BY <1>4, <1>11
  <2> HIDE DEF w, v
  <2>3. Total(v, T) = Total(w, S)
    BY <1>1, <1>8, <2>1, <2>2, TotalRenamed
  <2>4. QED
    BY <2>3 DEF Points, w, v
<1>13. Kept(T, active) = Kept(S, active)
  <2> DEFINE w == [s \in S |-> Preservation(s.player, active[s.at], active)]
             v == [t \in T |-> Preservation(t.player, active[t.at], active)]
  <2>1. \A s \in S : w[s] \in Int
    BY <1>1, PreservationIsNumber
  <2>2. \A s \in S : v[g[s]] = w[s]
    BY <1>5, <1>11
  <2> HIDE DEF w, v
  <2>3. Total(v, T) = Total(w, S)
    BY <1>1, <1>8, <2>1, <2>2, TotalRenamed
  <2>4. QED
    BY <2>3 DEF Kept, w, v
<1>14. \A j \in 1..Cardinality(S) : Ordered(S)[j] \in S /\ Ordered(T)[j] = g[Ordered(S)[j]]
  <2>1. /\ Sortable(S, AtKeys(S))
        /\ \A s, t \in S : Precedes(AtKeys(S)[s], AtKeys(S)[t]) <=> s.at < t.at
    BY <1>1, SeatsAreOrdered
  <2>2. /\ Sortable(T, AtKeys(T))
        /\ \A s, t \in T : Precedes(AtKeys(T)[s], AtKeys(T)[t]) <=> s.at < t.at
    BY <1>1, <1>7, SeatsAreOrdered
  <2>3. \A s, t \in S : Precedes(AtKeys(S)[s], AtKeys(S)[t])
                           <=> Precedes(AtKeys(T)[g[s]], AtKeys(T)[g[t]])
    BY <1>3, <1>11, <2>1, <2>2
  <2>4. \A j \in 1..Cardinality(S) :
            SortedBy(T, AtKeys(T))[j] = g[SortedBy(S, AtKeys(S))[j]]
    BY <1>8, <2>1, <2>2, <2>3, SortedRenamed
  <2>5. \A j \in 1..Cardinality(S) : SortedBy(S, AtKeys(S))[j] \in S
    BY <2>1, SortedByIsSorted
  <2>6. QED
    BY <2>4, <2>5 DEF Ordered
<1> DEFINE m == Cardinality(S)
           a == SeatsKey(S, active)
           b == SeatsKey(T, active)
<1>15. /\ m \in Nat /\ a \in Seq(Int) /\ Len(a) = 3 + 5 * m
       /\ a[1] = m /\ a[2] = Points(S) /\ a[3] = Kept(S, active)
       /\ ReadsRows(a, S, active)
  BY <1>1, KeyIs
<1>16. /\ b \in Seq(Int) /\ Len(b) = 3 + 5 * m
       /\ b[1] = m /\ b[2] = Points(T) /\ b[3] = Kept(T, active)
       /\ ReadsRows(b, T, active)
  <2>1. LET l == Cardinality(T)
            key == SeatsKey(T, active)
        IN  /\ key \in Seq(Int) /\ Len(key) = 3 + 5 * l
            /\ key[1] = l /\ key[2] = Points(T) /\ key[3] = Kept(T, active)
            /\ ReadsRows(key, T, active)
    BY <1>1, <1>7, KeyIs
  <2>2. QED
    BY <1>10, <2>1
<1> HIDE DEF a, b
<1>17. \A j \in 1..m, k \in 1..5 : b[3 + (5 * (j - 1) + k)] = a[3 + (5 * (j - 1) + k)]
  <2> SUFFICES ASSUME NEW j \in 1..m, NEW k \in 1..5
               PROVE  b[3 + (5 * (j - 1) + k)] = a[3 + (5 * (j - 1) + k)]
    OBVIOUS
  <2>1. a[3 + (5 * (j - 1) + k)] = Row(Ordered(S)[j], active)[k]
    BY <1>15 DEF ReadsRows
  <2>2. b[3 + (5 * (j - 1) + k)] = Row(Ordered(T)[j], active)[k]
    BY <1>10, <1>16 DEF ReadsRows
  <2>3. Row(Ordered(T)[j], active) = Row(Ordered(S)[j], active)
    BY <1>5, <1>14
  <2>4. QED
    BY <2>1, <2>2, <2>3
<1> HIDE DEF m
<1>18. \A x \in 1..(3 + 5 * m) : b[x] = a[x]
  <2> SUFFICES ASSUME NEW x \in 1..(3 + 5 * m) PROVE b[x] = a[x]
    OBVIOUS
  <2>1. CASE x \in {1, 2, 3}
    BY <1>12, <1>13, <1>15, <1>16, <2>1
  <2>2. CASE x \notin {1, 2, 3}
    <3> DEFINE y == x - 3
    <3>1. y \in 1..(5 * m) /\ x = 3 + y
      BY <1>15, <2>2
    <3> HIDE DEF y
    <3>2. PICK j \in 1..m, k \in 1..5 : y = 5 * (j - 1) + k
      BY <1>15, <3>1, InFives
    <3>3. QED
      BY <1>17, <3>1, <3>2
  <2>3. QED
    BY <2>1, <2>2
<1>19. a = b
  BY <1>15, <1>16, <1>18, SeqEqual
<1>20. QED
  BY <1>7, <1>19 DEF T, a, b, g

\* A key tells who sits where.
LEMMA KeyTellsSeats ==
    ASSUME NEW active, NEW n, NEW P, IsRoster(P, active, n), NEW Q, IsRoster(Q, active, n),
           NEW S \in Seatings(P, active, n), NEW T \in Seatings(Q, active, n),
           SeatsKey(S, active) = SeatsKey(T, active)
    PROVE  /\ Cardinality(S) = Cardinality(T) /\ Points(S) = Points(T)
           /\ \A s \in S : \E t \in T : t.at = s.at /\ t.player.id = s.player.id
<1> DEFINE a == SeatsKey(S, active)
           b == SeatsKey(T, active)
<1>1. n \in Nat /\ n \in 0..n /\ DOMAIN active = 1..n /\ IsFiniteSet(P) /\ IsFiniteSet(Q)
  BY DEF IsRoster
<1>2. /\ Cardinality(S) \in Nat /\ a[1] = Cardinality(S) /\ a[2] = Points(S)
      /\ ReadsRows(a, S, active)
  BY <1>1, KeyIs
<1>3. b[1] = Cardinality(T) /\ b[2] = Points(T) /\ ReadsRows(b, T, active)
  <2>1. LET l == Cardinality(T)
            key == SeatsKey(T, active)
        IN  key[1] = l /\ key[2] = Points(T) /\ ReadsRows(key, T, active)
    BY <1>1, KeyIs
  <2>2. QED
    BY <2>1
<1>4. a = b
  OBVIOUS
<1> HIDE DEF a, b
<1>5. Cardinality(S) = Cardinality(T) /\ Points(S) = Points(T)
  BY <1>2, <1>3, <1>4
<1>6. Sortable(S, AtKeys(S)) /\ Sortable(T, AtKeys(T))
  BY <1>1, SeatsAreOrdered
<1>7. ASSUME NEW s \in S
      PROVE  \E t \in T : t.at = s.at /\ t.player.id = s.player.id
  <2> DEFINE j == PlaceIn(S, AtKeys(S), s)
             t == Ordered(T)[j]
  <2>1. j \in 1..Cardinality(S) /\ Ordered(S)[j] = s
    BY <1>6, SortedByIsSorted DEF Ordered
  <2> HIDE DEF j
  <2>2. t \in T
    BY <1>5, <1>6, <2>1, SortedByIsSorted DEF Ordered
  <2> HIDE DEF t
  <2>3. \A k \in 1..5 : a[3 + (5 * (j - 1) + k)] = Row(s, active)[k]
    BY <1>2, <2>1 DEF ReadsRows
  <2>4. \A k \in 1..5 : b[3 + (5 * (j - 1) + k)] = Row(t, active)[k]
    BY <1>3, <1>5, <2>1 DEF ReadsRows, t
  <2>5. \A k \in 1..5 : Row(s, active)[k] = Row(t, active)[k]
    BY <1>4, <2>3, <2>4
  <2>6. /\ s.player \in P /\ s.at \in 1..n /\ t.player \in Q /\ t.at \in 1..n
    BY <2>2, SeatIs DEF Seatings
  <2>7. /\ Row(s, active)[1] = Row(t, active)[1] /\ Row(s, active)[2] = Row(t, active)[2]
        /\ Row(s, active)[5] = Row(t, active)[5]
    BY <2>5
  <2>8. /\ -Place(SlotOrder, active[s.at].slot) = -Place(SlotOrder, active[t.at].slot)
        /\ -active[s.at].index = -active[t.at].index
        /\ -s.player.id = -t.player.id
    BY <2>7 DEF Row
  <2>9. /\ Place(SlotOrder, active[s.at].slot) \in Int /\ active[s.at].index \in Int
        /\ Place(SlotOrder, active[t.at].slot) \in Int /\ active[t.at].index \in Int
        /\ s.player.id \in Int /\ t.player.id \in Int
    BY <2>6 DEF IsRoster
  <2>10. /\ Place(SlotOrder, active[s.at].slot) = Place(SlotOrder, active[t.at].slot)
         /\ active[s.at].index = active[t.at].index
         /\ s.player.id = t.player.id
    BY <2>8, <2>9
  <2>11. SlotKey(active[s.at]) = SlotKey(active[t.at])
    BY <2>10 DEF SlotKey
  <2>12. s.at = t.at
    BY <2>6, <2>11 DEF IsRoster
  <2>13. QED
    BY <2>2, <2>10, <2>12
<1>8. QED
  BY <1>5, <1>7

LEMMA BestRenamed ==
    ASSUME NEW active, NEW n, Len(active) = n,
           NEW P, IsRoster(P, active, n), NEW Q, IsRoster(Q, active, n),
           NEW r, Twins(r, P, Q)
    PROVE  LET b == AssignActiveSlots(P, active)
               c == AssignActiveSlots(Q, active)
           IN  /\ b \in Seatings(P, active, n) /\ c \in Seatings(Q, active, n)
               /\ SeatsKey(b, active) = SeatsKey(c, active)
<1> DEFINE b == AssignActiveSlots(P, active)
           c == AssignActiveSlots(Q, active)
           back == [q \in Q |-> CHOOSE p \in P : r[p] = q]
           T == {TwinSeats(r, b)[s] : s \in b}
           U == {TwinSeats(back, c)[s] : s \in c}
<1>1. n \in 0..n
  BY DEF IsRoster
<1>2. b \in Seatings(P, active, n) /\ \A S \in Seatings(P, active, n) : AtLeast(b, S, active)
  BY AssignIsBest
<1>3. c \in Seatings(Q, active, n) /\ \A S \in Seatings(Q, active, n) : AtLeast(c, S, active)
  BY AssignIsBest
<1> HIDE DEF b, c
<1>4. T \in Seatings(Q, active, n) /\ SeatsKey(T, active) = SeatsKey(b, active)
  BY <1>2, SeatingRenamed
<1>5. Twins(back, Q, P)
  BY TwinsBack
<1> HIDE DEF back
<1>6. U \in Seatings(P, active, n) /\ SeatsKey(U, active) = SeatsKey(c, active)
  BY <1>3, <1>5, SeatingRenamed
<1> HIDE DEF T, U
<1>7. ~Precedes(SeatsKey(c, active), SeatsKey(b, active))
  BY <1>3, <1>4 DEF AtLeast
<1>8. ~Precedes(SeatsKey(b, active), SeatsKey(c, active))
  BY <1>2, <1>6 DEF AtLeast
<1>9. \/ SeatsKey(c, active) = SeatsKey(T, active)
      \/ Precedes(SeatsKey(c, active), SeatsKey(T, active))
      \/ Precedes(SeatsKey(T, active), SeatsKey(c, active))
  BY <1>1, <1>3, <1>4, KeysInLine
<1>10. QED
  BY <1>2, <1>3, <1>4, <1>7, <1>8, <1>9 DEF b, c

LEMMA WhereStarted ==
    ASSUME NEW roster, NEW id, NEW s \in roster.starters, s.player.id = id,
           \A t \in roster.starters : t.player.id = id => t = s
    PROVE  Where(roster, id) = [kind |-> "active", seat |-> roster.active[s.at]]
<1> DEFINE started == {t \in roster.starters : t.player.id = id}
<1>1. started = {s}
  OBVIOUS
<1>2. (CHOOSE t \in {s} : TRUE) = s
  OBVIOUS
<1>3. QED
  BY <1>1, <1>2 DEF Where

LEMMA WhereNotStarted ==
    ASSUME NEW a, NEW b, NEW id, NEW m, DOMAIN a.bench = m, DOMAIN b.bench = m,
           \A i \in m : a.bench[i].id = b.bench[i].id,
           \A t \in a.starters : t.player.id # id, \A t \in b.starters : t.player.id # id
    PROVE  Where(a, id) = Where(b, id)
<1>1. {t \in a.starters : t.player.id = id} = {} /\ {t \in b.starters : t.player.id = id} = {}
  OBVIOUS
<1>2. {i \in DOMAIN a.bench : a.bench[i].id = id} = {i \in DOMAIN b.bench : b.bench[i].id = id}
  OBVIOUS
<1>3. QED
  BY <1>1, <1>2 DEF Where

LEMMA PointsAre ==
    ASSUME NEW players, NEW active, NEW n, IsRoster(players, active, n),
           NEW S \in Seatings(players, active, n)
    PROVE  SumFunction([s \in S |-> s.player.pts]) = Points(S) /\ Points(S) \in Int
<1> DEFINE w == [s \in S |-> s.player.pts]
<1>1. n \in Nat /\ IsFiniteSet(players) /\ IsFiniteSet(S)
  BY SeatingsAreFinite DEF IsRoster
<1>2. \A s \in S : s.player \in players
  BY SeatIs DEF Seatings
<1>3. DOMAIN w = S /\ \A s \in S : w[s] \in Int
  BY <1>2 DEF IsRoster
<1> HIDE DEF w
<1>4. SumFunction(w) = Total(w, S) /\ Total(w, S) \in Int
  BY <1>1, <1>3, SumIsTotal, TotalAddsUp
<1>5. QED
  BY <1>4 DEF w, Points

\* Players of a roster in the order of their picks.
InPickOrder(P) ==
    /\ \A p \in P : p.pick \in Int
    /\ \A p, q \in P : p.pick = q.pick => p = q
PickKeys(P) == [p \in P |-> <<p.pick>>]

LEMMA PicksAreSortable ==
    ASSUME NEW P, InPickOrder(P), NEW R \in SUBSET P, IsFiniteSet(R)
    PROVE  /\ Sortable(R, PickKeys(P))
           /\ \A p, q \in R : Precedes(PickKeys(P)[p], PickKeys(P)[q]) <=> p.pick < q.pick
<1> DEFINE key == PickKeys(P)
<1>1. \A p \in R : p.pick \in Int /\ key[p] = <<p.pick>>
  BY DEF InPickOrder, PickKeys
<1>2. \A a, b \in Int : <<a>> \in Seq(Int) /\ Len(<<a>>) = 1 /\ (<<a>> = <<b>> => a = b)
  OBVIOUS
<1>3. \A p, q \in R : p.pick = q.pick => p = q
  BY DEF InPickOrder
<1> HIDE DEF key
<1>4. \A p \in R : key[p] \in Seq(Int) /\ Len(key[p]) = 1
  BY <1>1, <1>2
<1>5. \A p, q \in R : key[p] = key[q] => p = q
  BY <1>1, <1>2, <1>3
<1>6. Sortable(R, key)
  BY <1>4, <1>5 DEF Sortable
<1>7. QED
  BY <1>1, <1>6, SinglesPrecede DEF key

\* Players and their twins, whose picks are in the same order, are lined up the
\* same.
LEMMA LineupRenamed ==
    ASSUME NEW slots, SlotCount(slots, "BE") \in Nat, NEW active, NEW n, Len(active) = n,
           NEW P, IsRoster(P, active, n), InPickOrder(P),
           NEW Q, IsRoster(Q, active, n), InPickOrder(Q),
           NEW r, Twins(r, P, Q), \A p, q \in P : p.pick < q.pick <=> r[p].pick < r[q].pick
    PROVE  LET a == LineUp(P, slots, active)
               b == LineUp(Q, slots, active)
           IN  /\ ActivePoints(a) = ActivePoints(b)
               /\ Cardinality(a.starters) = Cardinality(b.starters)
               /\ \A id : Where(a, id) = Where(b, id)
<1> DEFINE A == Assignable(P)
           B == Assignable(Q)
           S == AssignActiveSlots(A, active)
           T == AssignActiveSlots(B, active)
           a == LineUp(P, slots, active)
           b == LineUp(Q, slots, active)
           bench == SlotCount(slots, "BE")
           X == A \ {s.player : s \in S}
           Y == B \ {t.player : t \in T}
           x == SortedBy(X, PickKeys(A))
           y == SortedBy(Y, PickKeys(B))
           m == Min({bench, Len(x)})
           l == Min({bench, Len(y)})
<1>1. /\ a.starters = S /\ a.bench = SubSeq(x, 1, m) /\ a.active = active
      /\ b.starters = T /\ b.bench = SubSeq(y, 1, l) /\ b.active = active
  BY DEF LineUp, RosterWith, PickKeys
<1>2. A \in SUBSET P /\ B \in SUBSET Q
  BY DEF Assignable
<1>3. \A p \in P : p \in A <=> r[p] \in B
  BY DEF Assignable, Twins, Renames
<1> HIDE DEF A, B, S, T, a, b
<1>4. Twins(r, A, B)
  <2>1. \A p, q \in A : r[p] = r[q] => p = q
    BY <1>2 DEF Twins, Renames
  <2>2. \A q \in B : \E p \in A : r[p] = q
    BY <1>2, <1>3 DEF Twins, Renames
  <2>3. \A p \in A : r[p] \in B
    BY <1>2, <1>3
  <2>4. QED
    BY <1>2, <2>1, <2>2, <2>3 DEF Twins, Renames
<1>5. IsRoster(A, active, n) /\ IsRoster(B, active, n)
  BY <1>2, SomeOfRoster
<1>6. /\ S \in Seatings(A, active, n) /\ T \in Seatings(B, active, n)
      /\ SeatsKey(S, active) = SeatsKey(T, active)
  BY <1>4, <1>5, BestRenamed DEF S, T
<1>7. /\ Cardinality(S) = Cardinality(T) /\ Points(S) = Points(T)
      /\ \A s \in S : \E t \in T : t.at = s.at /\ t.player.id = s.player.id
  BY <1>5, <1>6, KeyTellsSeats
<1>8. \A t \in T : \E s \in S : s.at = t.at /\ s.player.id = t.player.id
  BY <1>5, <1>6, KeyTellsSeats
<1>9. /\ \A s \in S : s.player \in A
      /\ \A t \in T : t.player \in B
      /\ \A s, u \in S : s # u => s.player # u.player
      /\ \A s, u \in T : s # u => s.player # u.player
  BY <1>6, SeatIs DEF Seatings
<1>10. /\ \A p, q \in A : p.id = q.id => p = q
       /\ \A p, q \in B : p.id = q.id => p = q
       /\ IsFiniteSet(A) /\ IsFiniteSet(B)
  BY <1>5 DEF IsRoster
<1>11. ActivePoints(a) = ActivePoints(b)
  <2>1. SumFunction([s \in S |-> s.player.pts]) = Points(S)
    BY <1>5, <1>6, PointsAre
  <2>2. SumFunction([s \in T |-> s.player.pts]) = Points(T)
    BY <1>5, <1>6, PointsAre
  <2>3. QED
    BY <1>1, <1>7, <2>1, <2>2 DEF ActivePoints
<1>12. Renames(r, X, Y)
  <2>1. \A p \in A : (\E s \in S : s.player = p) <=> (\E t \in T : t.player = r[p])
    <3> SUFFICES ASSUME NEW p \in A
                 PROVE  (\E s \in S : s.player = p) <=> (\E t \in T : t.player = r[p])
      OBVIOUS
    <3>1. r[p] \in B /\ r[p].id = p.id
      BY <1>4 DEF Twins, Renames
    <3>2. ASSUME NEW s \in S, s.player = p PROVE \E t \in T : t.player = r[p]
      <4>1. PICK t \in T : t.player.id = s.player.id
        BY <1>7
      <4>2. t.player \in B /\ t.player.id = r[p].id
        BY <1>9, <3>1, <3>2, <4>1
      <4>3. QED
        BY <1>10, <3>1, <4>2
    <3>3. ASSUME NEW t \in T, t.player = r[p] PROVE \E s \in S : s.player = p
      <4>1. PICK s \in S : s.player.id = t.player.id
        BY <1>8
      <4>2. s.player \in A /\ s.player.id = p.id
        BY <1>9, <3>1, <3>3, <4>1
      <4>3. QED
        BY <1>10, <4>2
    <3>4. QED
      BY <3>2, <3>3
  <2>2. \A p \in A : p \in X <=> r[p] \in Y
    BY <1>4, <2>1 DEF Twins, Renames
  <2>3. \A q \in Y : \E p \in A : r[p] = q
    BY <1>4 DEF Twins, Renames
  <2>4. X \subseteq A /\ Y \subseteq B
    OBVIOUS
  <2> HIDE DEF X, Y
  <2>5. \A p, q \in X : r[p] = r[q] => p = q
    BY <1>4, <2>4 DEF Twins, Renames
  <2>6. QED
    BY <2>2, <2>3, <2>4, <2>5 DEF Renames
<1>13. X \in SUBSET A /\ Y \in SUBSET B
  OBVIOUS
<1> HIDE DEF X, Y
<1>14. InPickOrder(A) /\ InPickOrder(B)
  BY <1>2 DEF InPickOrder
<1>15. IsFiniteSet(X) /\ IsFiniteSet(Y)
  BY <1>10, <1>13, FS_Subset
<1>16. /\ Sortable(X, PickKeys(A))
       /\ \A p, q \in X : Precedes(PickKeys(A)[p], PickKeys(A)[q]) <=> p.pick < q.pick
  BY <1>13, <1>14, <1>15, PicksAreSortable
<1>17. /\ Sortable(Y, PickKeys(B))
       /\ \A p, q \in Y : Precedes(PickKeys(B)[p], PickKeys(B)[q]) <=> p.pick < q.pick
  BY <1>13, <1>14, <1>15, PicksAreSortable
<1>18. \A p, q \in X : Precedes(PickKeys(A)[p], PickKeys(A)[q])
                         <=> Precedes(PickKeys(B)[r[p]], PickKeys(B)[r[q]])
  <2>1. \A p \in X : p \in P /\ r[p] \in Y
    BY <1>2, <1>12, <1>13 DEF Renames
  <2>2. QED
    BY <1>16, <1>17, <2>1
<1> DEFINE k == Cardinality(X)
<1>19. Cardinality(Y) = k /\ \A i \in 1..k : y[i] = r[x[i]]
  BY <1>12, <1>16, <1>17, <1>18, SortedRenamed
<1>20. k \in Nat /\ Len(x) = k /\ \A i \in 1..k : x[i] \in X
  BY <1>16, SortedByIsSorted
<1>21. Len(y) = k /\ \A i \in 1..k : y[i] \in Y
  BY <1>17, <1>19, SortedByIsSorted
<1> HIDE DEF x, y, k
<1>22. m \in 0..k /\ l = m
  <2>1. \A u, v \in Nat : Min({u, v}) \in 0..v
    <3> SUFFICES ASSUME NEW u \in Nat, NEW v \in Nat PROVE Min({u, v}) \in 0..v
      OBVIOUS
    <3>1. {u, v} \in SUBSET Nat /\ {u, v} # {}
      OBVIOUS
    <3> DEFINE M == Min({u, v})
    <3>2. M \in {u, v} /\ \A z \in {u, v} : M <= z
      BY <3>1, LeastNumber
    <3> HIDE DEF M
    <3>3. QED
      BY <3>2 DEF M
  <2>2. QED
    BY <1>20, <1>21, <2>1
<1> HIDE DEF m, l, bench
<1>23. /\ DOMAIN a.bench = 1..m /\ DOMAIN b.bench = 1..m
       /\ \A i \in 1..m : a.bench[i].id = b.bench[i].id
  <2>1. \A i \in 1..m : i \in 1..k
    BY <1>20, <1>22
  <2>2. /\ SubSeq(x, 1, m) \in Seq(X) /\ Len(SubSeq(x, 1, m)) = m
        /\ \A i \in 1..m : SubSeq(x, 1, m)[i] = x[i]
    <3>1. \A i \in 1..m : x[i] \in X
      BY <1>20, <2>1
    <3>2. /\ SubSeq(x, 1, m) \in Seq(X)
          /\ Len(SubSeq(x, 1, m)) = IF 1 <= m THEN m - 1 + 1 ELSE 0
          /\ \A i \in 1..(m - 1 + 1) : SubSeq(x, 1, m)[i] = x[1 + i - 1]
      BY <1>22, <3>1, SubSeqProperties
    <3>3. m - 1 + 1 = m /\ (~(1 <= m) => m = 0) /\ \A i \in Int : 1 + i - 1 = i
      BY <1>22
    <3>4. QED
      BY <3>2, <3>3
  <2>3. /\ SubSeq(y, 1, m) \in Seq(Y) /\ Len(SubSeq(y, 1, m)) = m
        /\ \A i \in 1..m : SubSeq(y, 1, m)[i] = y[i]
    <3>1. \A i \in 1..m : y[i] \in Y
      BY <1>21, <2>1
    <3>2. /\ SubSeq(y, 1, m) \in Seq(Y)
          /\ Len(SubSeq(y, 1, m)) = IF 1 <= m THEN m - 1 + 1 ELSE 0
          /\ \A i \in 1..(m - 1 + 1) : SubSeq(y, 1, m)[i] = y[1 + i - 1]
      BY <1>22, <3>1, SubSeqProperties
    <3>3. m - 1 + 1 = m /\ (~(1 <= m) => m = 0) /\ \A i \in Int : 1 + i - 1 = i
      BY <1>22
    <3>4. QED
      BY <3>2, <3>3
  <2>4. \A i \in 1..m : y[i].id = x[i].id
    BY <1>4, <1>13, <1>19, <1>20, <2>1 DEF Twins
  <2>5. a.bench = SubSeq(x, 1, m) /\ b.bench = SubSeq(y, 1, m)
    BY <1>1, <1>22
  <2>6. QED
    BY <2>2, <2>3, <2>4, <2>5
<1>24. ASSUME NEW id
       PROVE  Where(a, id) = Where(b, id)
  <2>1. CASE \E s \in S : s.player.id = id
    <3>1. PICK s \in S : s.player.id = id
      BY <2>1
    <3>2. PICK t \in T : t.at = s.at /\ t.player.id = id
      BY <1>7, <3>1
    <3>3. \A u \in S : u.player.id = id => u = s
      BY <1>9, <1>10, <3>1
    <3>4. \A u \in T : u.player.id = id => u = t
      BY <1>9, <1>10, <3>2
    <3>5. Where(a, id) = [kind |-> "active", seat |-> a.active[s.at]]
      BY <1>1, <3>1, <3>3, WhereStarted
    <3>6. Where(b, id) = [kind |-> "active", seat |-> b.active[t.at]]
      BY <1>1, <3>2, <3>4, WhereStarted
    <3>7. QED
      BY <1>1, <3>2, <3>5, <3>6
  <2>2. CASE ~\E s \in S : s.player.id = id
    <3>1. \A s \in S : s.player.id # id
      BY <2>2
    <3>2. \A t \in T : t.player.id # id
      BY <1>8, <3>1
    <3> DEFINE D == 1..m
    <3>3. /\ DOMAIN a.bench = D /\ DOMAIN b.bench = D
          /\ \A i \in D : a.bench[i].id = b.bench[i].id
      BY <1>23
    <3>4. /\ \A s \in a.starters : s.player.id # id
          /\ \A s \in b.starters : s.player.id # id
      BY <1>1, <3>1, <3>2
    <3> HIDE DEF D
    <3>5. QED
      BY <3>3, <3>4, WhereNotStarted
  <2>3. QED
    BY <2>1, <2>2
<1>25. QED
  BY <1>1, <1>7, <1>11, <1>24 DEF a, b

-------------------------------------------------------------------------------
(* The predicted fit. *)

LEMMA OneMoreInRoster ==
    ASSUME NEW P, NEW active, NEW n, IsRoster(P, active, n),
           NEW c, c.id \in Int, c.name \in Int, c.pts \in Int, \A p \in P : p.id # c.id
    PROVE  IsRoster(P \cup {c}, active, n)
<1>1. IsFiniteSet(P \cup {c})
  BY FS_AddElement DEF IsRoster
<1>2. /\ \A p \in P \cup {c} : p.id \in Int /\ p.name \in Int /\ p.pts \in Int
      /\ \A p, q \in P \cup {c} : p.id = q.id => p = q
  BY DEF IsRoster
<1>3. QED
  BY <1>1, <1>2 DEF IsRoster

\* A list with a condition takes its elements from the places that meet it.
LEMMA OnlySome ==
    ASSUME NEW n \in Nat, NEW seq, DOMAIN seq = 1..n, NEW places \in SUBSET (1..n)
    PROVE  /\ Cardinality(places) \in Nat
           /\ DOMAIN Only(seq, places) = 1..Cardinality(places)
           /\ \A j \in DOMAIN Only(seq, places) : \E i \in places : Only(seq, places)[j] = seq[i]
           /\ Only(seq, places) # <<>> => places # {}
<1> DEFINE key == [i \in places |-> <<i>>]
           order == SortedBy(places, key)
           m == Cardinality(places)
<1>1. IsFiniteSet(places)
  <2> DEFINE I == 1..n
  <2>1. IsFiniteSet(I) /\ places \in SUBSET I
    BY FS_Interval
  <2> HIDE DEF I
  <2>2. QED
    BY <2>1, FS_Subset
<1>2. Sortable(places, key)
  <2>1. \A a, b \in Int : <<a>> \in Seq(Int) /\ Len(<<a>>) = 1 /\ (<<a>> = <<b>> => a = b)
    OBVIOUS
  <2>2. \A i \in places : i \in Int /\ key[i] = <<i>>
    OBVIOUS
  <2> HIDE DEF key
  <2>3. \A i \in places : key[i] \in Seq(Int) /\ Len(key[i]) = 1
    BY <2>1, <2>2
  <2>4. \A i, j \in places : key[i] = key[j] => i = j
    BY <2>1, <2>2
  <2>5. QED
    BY <1>1, <2>3, <2>4 DEF Sortable
<1>3. m \in Nat /\ \A j \in 1..m : order[j] \in places
  BY <1>2, SortedByIsSorted
<1>4. Only(seq, places) = [j \in 1..m |-> seq[order[j]]]
  BY DEF Only
<1> HIDE DEF order, key
<1>5. places = {} => m = 0
  BY FS_EmptySet
<1> HIDE DEF m
<1>6. m = 0 => Only(seq, places) = <<>>
  <2>1. m = 0 => 1..m = {}
    OBVIOUS
  <2>2. QED
    BY <1>4, <2>1
<1>7. QED
  BY <1>3, <1>4, <1>5, <1>6 DEF m

\* A player who can play an empty slot is one starter more.
LEMMA OneMoreStarts ==
    ASSUME NEW active, NEW n, Len(active) = n, NEW P, NEW c, c \notin P,
           IsRoster(P \cup {c}, active, n), NEW i \in 1..n, CanPlay(c, active[i]),
           \A s \in AssignActiveSlots(P, active) : s.at # i
    PROVE  Cardinality(AssignActiveSlots(P \cup {c}, active))
             = Cardinality(AssignActiveSlots(P, active)) + 1
<1> DEFINE Q == P \cup {c}
           A == AssignActiveSlots(P, active)
           B == AssignActiveSlots(Q, active)
           seat == [player |-> c, at |-> i]
           U == A \cup {seat}
           V == {s \in B : s.player # c}
<1>1. IsRoster(P, active, n) /\ n \in Nat /\ n \in 0..n /\ IsFiniteSet(P) /\ IsFiniteSet(Q)
  <2>1. P \in SUBSET Q
    OBVIOUS
  <2> HIDE DEF Q
  <2>2. IsRoster(Q, active, n)
    BY DEF Q
  <2>3. IsRoster(P, active, n)
    BY <2>1, <2>2, SomeOfRoster
  <2>4. QED
    BY <2>2, <2>3 DEF IsRoster
<1>2. A \in Seatings(P, active, n) /\ \A S \in Seatings(P, active, n) : AtLeast(A, S, active)
  BY <1>1, AssignIsBest
<1>3. B \in Seatings(Q, active, n) /\ \A S \in Seatings(Q, active, n) : AtLeast(B, S, active)
  BY AssignIsBest
<1>4. \A s \in A : s.at # i
  OBVIOUS
<1> HIDE DEF A, B
<1>5. IsFiniteSet(A) /\ IsFiniteSet(B) /\ Cardinality(A) \in Nat /\ Cardinality(B) \in Nat
  BY <1>1, <1>2, <1>3, SeatingsAreFinite
<1>6. seat.player = c /\ seat.at = i /\ seat \in Seats(Q, active, n)
  BY DEF Seats
<1> HIDE DEF seat
<1>7. \A s \in A : s \in Seats(P, active, n) /\ s.player \in P /\ s.player # c
  BY <1>2, SeatIs DEF Seatings
<1>8. U \in Seatings(Q, active, n) /\ Cardinality(U) = Cardinality(A) + 1
  <2>1. Seats(P, active, n) \subseteq Seats(Q, active, n)
    BY DEF Seats
  <2>2. \A s, t \in A : s # t => s.player # t.player /\ s.at # t.at
    BY <1>2 DEF Seatings
  <2>3. seat \notin A
    BY <1>4, <1>6
  <2>4. Cardinality(U) = Cardinality(A) + 1
    BY <1>5, <2>3, FS_AddElement
  <2>5. \A s, t \in U : s # t => s.player # t.player /\ s.at # t.at
    BY <1>4, <1>6, <1>7, <2>2
  <2>6. U \in SUBSET Seats(Q, active, n)
    BY <1>6, <1>7, <2>1
  <2> HIDE DEF U
  <2>7. QED
    BY <2>4, <2>5, <2>6 DEF Seatings
<1> HIDE DEF U
<1>9. Cardinality(A) + 1 <= Cardinality(B)
  <2>1. IsRoster(Q, active, n) /\ AtLeast(B, U, active)
    BY <1>3, <1>8
  <2> HIDE DEF Q
  <2>2. Cardinality(U) <= Cardinality(B)
    BY <1>1, <1>3, <1>8, <2>1, KeysInLine
  <2>3. QED
    BY <1>8, <2>2
<1>10. \A s, t \in B : s # t => s.player # t.player /\ s.at # t.at
  BY <1>3 DEF Seatings
<1>11. V \in Seatings(P, active, n)
  <2>1. \A s \in V : s \in Seats(P, active, n)
    <3> SUFFICES ASSUME NEW s \in V PROVE s \in Seats(P, active, n)
      OBVIOUS
    <3>1. s \in Seats(Q, active, n)
      BY <1>3 DEF Seatings
    <3>2. /\ s.player \in Q /\ s.at \in 1..n /\ CanPlay(s.player, active[s.at])
          /\ s = [player |-> s.player, at |-> s.at]
      BY <3>1, SeatIs
    <3>3. s.player \in P
      BY <3>2
    <3>4. QED
      BY <3>2, <3>3 DEF Seats
  <2>2. \A s, t \in V : s # t => s.player # t.player /\ s.at # t.at
    BY <1>10
  <2>3. V \in SUBSET Seats(P, active, n)
    BY <2>1
  <2> HIDE DEF V
  <2>4. QED
    BY <2>2, <2>3 DEF Seatings
<1>12. Cardinality(V) <= Cardinality(A)
  <2>1. AtLeast(A, V, active)
    BY <1>2, <1>11
  <2> HIDE DEF V
  <2>2. QED
    BY <1>1, <1>2, <1>11, <2>1, KeysInLine
<1>13. Cardinality(B) <= Cardinality(V) + 1 /\ Cardinality(V) \in Nat
  <2>1. Cardinality(V) \in Nat
    <3> HIDE DEF V
    <3>1. QED
      BY <1>1, <1>11, SeatingsAreFinite
  <2>2. ASSUME V = B
        PROVE  Cardinality(B) <= Cardinality(V) + 1
    <3> HIDE DEF V
    <3>1. Cardinality(V) = Cardinality(B)
      BY <2>2
    <3>2. QED
      BY <1>5, <3>1
  <2>3. CASE V # B
    <3>1. PICK s \in B : s.player = c
      BY <2>3
    <3>2. V = B \ {s}
      BY <1>10, <3>1
    <3> HIDE DEF V
    <3>3. Cardinality(V) = Cardinality(B) - 1
      BY <1>5, <3>2, FS_RemoveElement
    <3>4. QED
      BY <1>5, <2>1, <3>3
  <2>4. QED
    BY <2>1, <2>2, <2>3
<1>14. QED
  BY <1>5, <1>9, <1>12, <1>13 DEF A, B

\* A newcomer behind every pick of a roster is seated the same whatever his pick.
LEMMA NewcomersAreSeatedAlike ==
    ASSUME NEW slots, SlotCount(slots, "BE") \in Nat, NEW active, NEW n, Len(active) = n,
           NEW R, IsRoster(R, active, n), InPickOrder(R),
           NEW c, c.id \in Int, c.name \in Int, c.pts \in Int, c.pick \in Int,
           NEW d, d.id = c.id, d.name = c.name, d.pts = c.pts, d.positions = c.positions,
           d.pick \in Int,
           \A p \in R : p.id # c.id /\ p.pick < c.pick /\ p.pick < d.pick
    PROVE  LET a == LineUp(R \cup {c}, slots, active)
               b == LineUp(R \cup {d}, slots, active)
           IN  /\ ActivePoints(a) = ActivePoints(b)
               /\ Cardinality(a.starters) = Cardinality(b.starters)
               /\ \A id : Where(a, id) = Where(b, id)
<1> DEFINE P == R \cup {c}
           Q == R \cup {d}
           r == [x \in P |-> IF x = c THEN d ELSE x]
<1>1. c \notin R /\ d \notin R
  OBVIOUS
<1>2. IsRoster(P, active, n) /\ IsRoster(Q, active, n)
  BY OneMoreInRoster
<1>3. r[c] = d /\ \A x \in R : r[x] = x
  BY <1>1
<1>4. \A p \in R : p.pick \in Int
  BY DEF InPickOrder
<1>5. InPickOrder(P) /\ InPickOrder(Q)
  <2>1. \A p, q \in P : p.pick = q.pick => p = q
    BY <1>4 DEF InPickOrder
  <2>2. \A p, q \in Q : p.pick = q.pick => p = q
    BY <1>4 DEF InPickOrder
  <2>3. QED
    BY <1>4, <2>1, <2>2 DEF InPickOrder
<1> HIDE DEF r
<1>6. Renames(r, P, Q)
  BY <1>1, <1>3 DEF Renames
<1>7. Twins(r, P, Q)
  BY <1>3, <1>6 DEF Twins
<1>8. \A p, q \in P : p.pick < q.pick <=> r[p].pick < r[q].pick
  <2>1. \A p \in R : ~(c.pick < p.pick) /\ ~(d.pick < p.pick)
    BY <1>4
  <2>2. ~(c.pick < c.pick) /\ ~(d.pick < d.pick)
    OBVIOUS
  <2>3. \A p \in P : p = c \/ p \in R
    OBVIOUS
  <2> HIDE DEF P
  <2>4. QED
    BY <1>3, <2>1, <2>2, <2>3
<1> HIDE DEF P, Q
<1>9. LET a == LineUp(P, slots, active)
          b == LineUp(Q, slots, active)
      IN  /\ ActivePoints(a) = ActivePoints(b)
          /\ Cardinality(a.starters) = Cardinality(b.starters)
          /\ \A id : Where(a, id) = Where(b, id)
  BY <1>2, <1>5, <1>7, <1>8, LineupRenamed
<1>10. QED
  BY <1>9 DEF P, Q

\* A newcomer who matches an open slot is one starter more.
LEMMA MatchAddsStarter ==
    ASSUME NEW slots, NEW active, NEW n, Len(active) = n, NEW R, IsRoster(R, active, n),
           NEW c, c.id \in Int, c.name \in Int, c.pts \in Int, \A p \in R : p.id # c.id,
           MatchingOpenSlots(c.positions, LineUp(R, slots, active).unfilled) # <<>>
    PROVE  Cardinality(LineUp(R \cup {c}, slots, active).starters)
             = Cardinality(LineUp(R, slots, active).starters) + 1
<1> DEFINE P == Assignable(R)
           A == AssignActiveSlots(P, active)
           F == {i \in DOMAIN active : \A s \in A : s.at # i}
           unfilled == Only(active, F)
           G == {j \in DOMAIN unfilled : Fits(c.positions, unfilled[j].slot)}
<1>1. /\ LineUp(R, slots, active).starters = A
      /\ LineUp(R, slots, active).unfilled = unfilled
  BY DEF LineUp, RosterWith
<1>2. n \in Nat /\ DOMAIN active = 1..n
  BY DEF IsRoster
<1>3. F \in SUBSET (1..n)
  BY <1>2
<1>4. Only(unfilled, G) # <<>>
  BY <1>1 DEF MatchingOpenSlots
<1>5. G \in SUBSET DOMAIN unfilled
  OBVIOUS
<1>6. \A j \in G : Fits(c.positions, unfilled[j].slot)
  OBVIOUS
<1>7. \A i \in F : \A s \in A : s.at # i
  OBVIOUS
<1> HIDE DEF F, G, A, P, unfilled
<1> DEFINE k == Cardinality(F)
<1>8. k \in Nat /\ DOMAIN unfilled = 1..k /\ \A j \in 1..k : \E i \in F : unfilled[j] = active[i]
  BY <1>2, <1>3, OnlySome DEF unfilled
<1> HIDE DEF k
<1>9. G # {}
  BY <1>4, <1>5, <1>8, OnlySome
<1>10. PICK i \in F : Fits(c.positions, active[i].slot)
  BY <1>5, <1>6, <1>8, <1>9
<1>11. i \in 1..n /\ CanPlay(c, active[i]) /\ c.positions # {} /\ \A s \in A : s.at # i
  BY <1>3, <1>7, <1>10 DEF CanPlay, Fits
<1>12. c \notin P /\ P \in SUBSET R
  BY DEF P, Assignable
<1>13. Assignable(R \cup {c}) = P \cup {c}
  BY <1>11 DEF P, Assignable
<1>14. IsRoster(P \cup {c}, active, n)
  <2>1. IsRoster(R \cup {c}, active, n)
    BY OneMoreInRoster
  <2>2. P \cup {c} \in SUBSET (R \cup {c})
    BY <1>12
  <2>3. QED
    BY <2>1, <2>2, SomeOfRoster
<1>15. Cardinality(AssignActiveSlots(P \cup {c}, active)) = Cardinality(A) + 1
  BY <1>11, <1>12, <1>14, OneMoreStarts DEF A
<1>16. LineUp(R \cup {c}, slots, active).starters = AssignActiveSlots(P \cup {c}, active)
  BY <1>13 DEF LineUp, RosterWith
<1>17. QED
  BY <1>1, <1>15, <1>16

\* There are fewer picks than players, and fewer than the pick of a candidate.
LEMMA PicksAreFew ==
    ASSUME Inv
    PROVE  Len(picks) \in Nat /\ Len(picks) < 999999
<1> DEFINE D == DOMAIN picks
           T == DOMAIN pool
<1>1. /\ Len(picks) \in Nat /\ D = 1..Len(picks)
      /\ picks \in [D -> T]
      /\ \A i, j \in D : picks[i] = picks[j] => i = j
  BY DEF Inv
<1>2. IsFiniteSet(T) /\ Cardinality(T) < 999999
  BY PoolAssumption, SentinelAssumption DEF Inv
<1>3. Cardinality(D) = Len(picks)
  BY <1>1, FS_Interval
<1> HIDE DEF D, T
<1>4. picks \in Injection(D, T)
  BY <1>1 DEF Injection, IsInjective
<1>5. Cardinality(D) <= Cardinality(T)
  BY <1>2, <1>4, FS_Injection
<1>6. Cardinality(T) \in Nat
  BY <1>2, FS_CardinalityType
<1>7. QED
  BY <1>1, <1>2, <1>3, <1>5, <1>6

\* The player picked is the one the list of the available players has for him.
LEMMA DraftedItem ==
    ASSUME Inv, ~board.failed, NEW p \in Pickable
    PROVE  Available(picks)[RankOf(Available(picks), p)] = ItemOf(p)
<1> DEFINE was == Available(picks)
           is == Available(Append(picks, p))
<1>1. PICK n \in Nat : \E gone \in 1..n : Shifted(was, is, n, gone, p)
  BY PickShifts
<1>2. PICK gone \in 1..n : Shifted(was, is, n, gone, p)
  BY <1>1
<1> HIDE DEF was, is
<1>3. /\ DOMAIN was = 1..n /\ was[gone].id = p /\ was[gone] \in board.items
      /\ \A i, j \in 1..n : was[i].id = was[j].id => i = j
  BY <1>2 DEF Shifted
<1>4. RankOf(was, p) = gone
  BY <1>3, RankOfIs
<1>5. ItemOf(p) = was[gone]
  BY <1>3, BoardHolds DEF ItemOf, IsBoard
<1>6. QED
  BY <1>4, <1>5 DEF was

\* A pick of the user's adds its player to the roster.
LEMMA PlayersOfPick ==
    ASSUME Inv, NEW p \in Pickable, UserOnClock(picks)
    PROVE  RosterPlayers(Append(picks, p))
             = RosterPlayers(picks) \cup {RosterPlayer(p, Len(picks) + 1)}
<1> DEFINE n == Len(picks)
           after == Append(picks, p)
<1>1. /\ n \in Nat /\ DOMAIN picks = 1..n /\ DOMAIN after = 1..(n + 1)
      /\ \A i \in 1..n : after[i] = picks[i]
      /\ after[n + 1] = p
  BY PickableIsNew, AppendProperties DEF Inv
<1>2. \A taken : RosterPlayers(taken) = {RosterPlayer(taken[k], k) : k \in UserPicks(taken)}
  BY DEF RosterPlayers, RosterPlayer, ItemOf
<1>3. Turn(1)!Position(n + 1) = user
  BY DEF UserOnClock
<1> HIDE DEF n, after
<1>4. DOMAIN after = DOMAIN picks \cup {n + 1}
  BY <1>1
<1>5. UserPicks(after) = UserPicks(picks) \cup {n + 1}
  BY <1>3, <1>4 DEF UserPicks
<1>6. \A k \in UserPicks(picks) : after[k] = picks[k]
  BY <1>1 DEF UserPicks
<1>7. RosterPlayers(after) = RosterPlayers(picks) \cup {RosterPlayer(p, n + 1)}
  BY <1>1, <1>2, <1>5, <1>6
<1>8. QED
  BY <1>7 DEF n, after

LEMMA FitHoldsOnPick ==
    ASSUME Inv, NEW p \in Pickable, NewPick(picks, Append(picks, p)), UserOnClock(picks)
    PROVE  FitHolds(picks, Append(picks, p))
<1> DEFINE after == Append(picks, p)
           item == ItemOf(p)
           m == Len(picks)
           R == RosterPlayers(picks)
           slots == league.slots
           active == ActiveSlots(slots)
           n == Len(active)
           c == Candidate(item)
           d == RosterPlayer(p, m + 1)
           in == Input(picks)
           was == LineUp(R, slots, active)
           a == LineUp(R \cup {c}, slots, active)
           b == LineUp(R \cup {d}, slots, active)
           fit == FitIn(in, item, a)
<1>1. ~board.failed /\ p \in DOMAIN pool /\ p \notin Range(picks)
  BY PickableIsNew DEF NewPick
<1>2. Last(after) = p
  BY <1>1, AppendProperties DEF Inv, Last
<1>3. Available(picks)[RankOf(Available(picks), p)] = item
  BY <1>1, DraftedItem
<1>4. /\ item \in board.items /\ item.id = p /\ item.id \in Int /\ item.name \in Int
      /\ item.pts \in Int /\ item.positions = pool[p].positions
  <2>1. item \in board.items /\ item.id = p
    BY <1>1, PlayerOfPick
  <2>2. IsValuation(item) /\ item.positions = pool[item.id].positions
    BY <1>1, <2>1, BoardHolds DEF IsBoard
  <2>3. QED
    BY <2>1, <2>2 DEF IsValuation
<1>5. /\ c.id = p /\ c.name = item.name /\ c.pts = item.pts /\ c.pick = 999999
      /\ c.positions = item.positions
  BY <1>4 DEF Candidate
<1>6. /\ d.id = p /\ d.name = item.name /\ d.pts = item.pts /\ d.pick = m + 1
      /\ d.positions = item.positions
  BY <1>1, <1>4, PlayerOfPick DEF RosterPlayer
<1>7. IsRoster(R, active, n) /\ SlotCount(slots, "BE") \in Nat
  BY <1>1, RosterIsRoster, SlotCountsAreWhole DEF Inv
<1>8. m \in Nat /\ m < 999999 /\ DOMAIN picks = 1..m
  BY PicksAreFew DEF Inv
<1>9. \A x \in R : x.pick \in 1..m /\ x.id = picks[x.pick]
  BY <1>1, <1>8, RosterPlayersAre
<1>10. \A x \in R : x.id # p
  BY <1>1, <1>8, <1>9 DEF Range
<1>11. InPickOrder(R)
  <2>1. \A x \in R : x.pick \in Int
    BY <1>9
  <2>2. \A x, y \in R : x.pick = y.pick => x = y
    BY <1>7, <1>9 DEF IsRoster
  <2>3. QED
    BY <2>1, <2>2 DEF InPickOrder
<1>12. RosterPlayers(after) = R \cup {d}
  BY PlayersOfPick
<1>13. Roster(picks) = was /\ Roster(after) = b
  BY <1>12 DEF Roster, AssignRoster
<1>14. /\ in.available = Available(picks) /\ in.players = R /\ in.roster = was
       /\ in.slots = slots
  BY <1>13 DEF Input
<1>15. RosterFit(in, item) = fit
  BY <1>14 DEF RosterFit, AssignRoster
<1> DEFINE where == Where(a, item.id)
<1>16. where = [kind |-> where.kind, seat |-> where.seat]
  BY DEF Where
<1>17. /\ fit.kind = where.kind /\ fit.seat = where.seat
       /\ fit.open = MatchingOpenSlots(item.positions, in.roster.unfilled)
       /\ fit.improves <=> where.kind = "active" /\ ActivePoints(a) > ActivePoints(in.roster)
  <2> HIDE DEF a, in
  <2>1. QED
    BY DEF FitIn
<1>18. /\ ActivePoints(a) = ActivePoints(b)
       /\ Cardinality(a.starters) = Cardinality(b.starters)
       /\ \A id : Where(a, id) = Where(b, id)
  <2>1. \A x \in R : x.id # c.id /\ x.pick < c.pick /\ x.pick < d.pick
    BY <1>5, <1>6, <1>8, <1>9, <1>10
  <2>2. c.id \in Int /\ c.name \in Int /\ c.pts \in Int /\ c.pick \in Int /\ d.pick \in Int
    BY <1>4, <1>5, <1>6, <1>8
  <2>3. Len(active) = n
    OBVIOUS
  <2> HIDE DEF R, slots, active, n, c, d, item
  <2>4. LET e == LineUp(R \cup {c}, slots, active)
            f == LineUp(R \cup {d}, slots, active)
        IN  /\ ActivePoints(e) = ActivePoints(f)
            /\ Cardinality(e.starters) = Cardinality(f.starters)
            /\ \A id : Where(e, id) = Where(f, id)
    BY <1>5, <1>6, <1>7, <1>11, <2>1, <2>2, <2>3, NewcomersAreSeatedAlike
  <2>5. QED
    BY <2>4
<1>19. ASSUME fit.open # <<>>
       PROVE  Cardinality(b.starters) = Cardinality(was.starters) + 1
  <2>1. MatchingOpenSlots(c.positions, was.unfilled) # <<>>
    BY <1>5, <1>14, <1>17, <1>19
  <2>2. c.id \in Int /\ c.name \in Int /\ c.pts \in Int /\ \A x \in R : x.id # c.id
    BY <1>4, <1>5, <1>10
  <2>3. Len(active) = n
    OBVIOUS
  <2> HIDE DEF R, slots, active, n, c, d, item, in
  <2>4. Cardinality(LineUp(R \cup {c}, slots, active).starters)
          = Cardinality(LineUp(R, slots, active).starters) + 1
    BY <1>7, <2>1, <2>2, <2>3, MatchAddsStarter
  <2>5. QED
    BY <1>18, <2>4
<1> HIDE DEF a, b, was, fit, in, item, after
<1>20. /\ Where(b, item.id) = [kind |-> fit.kind, seat |-> fit.seat]
       /\ fit.improves <=> (fit.kind = "active" /\ ActivePoints(b) > ActivePoints(in.roster))
       /\ fit.open # <<>> =>
             Cardinality(b.starters) = Cardinality(in.roster.starters) + 1
  BY <1>14, <1>16, <1>17, <1>18, <1>19
<1>21. in.available[RankOf(in.available, Last(after))] = item
  BY <1>2, <1>3, <1>14
<1>22. FitHolds(picks, after)
  BY <1>13, <1>15, <1>20, <1>21 DEF FitHolds, in
<1>23. QED
  BY <1>22 DEF after

\* The player the user takes is seated where the recommendations said and improves
\* the lineup when they said so, and one who matched an open slot is one starter
\* more (_roster_fit against assign_roster after the pick), in every draft.
THEOREM PredictedFitComesTrueHolds == Spec => PredictedFitComesTrue
<1>1. Inv /\ [Next]_vars =>
        [\A after \in {picks'} :
            NewPick(picks, after) /\ UserOnClock(picks) => FitHolds(picks, after)]_vars
  <2> SUFFICES ASSUME Inv, Next, NEW after, after = picks',
                      NewPick(picks, after), UserOnClock(picks)
               PROVE  FitHolds(picks, after)
    BY DEF vars
  <2>1. CASE Undo
    <3>1. picks # <<>> /\ after = Front(picks)
      BY <2>1 DEF Undo
    <3>2. QED
      BY <3>1, FrontIsShorter DEF NewPick
  <2>2. ASSUME NEW p \in Pickable, Draft(p)
        PROVE  FitHolds(picks, after)
    <3>1. after = Append(picks, p)
      BY <2>2 DEF Draft
    <3>2. QED
      BY <3>1, FitHoldsOnPick
  <2>3. QED
    BY <2>1, <2>2 DEF Next
<1>2. QED
  BY <1>1, InvHolds, PTL DEF Spec, PredictedFitComesTrue

-------------------------------------------------------------------------------
(* Loops: what next leads to, up to where it stops. *)

Closed(A, next, stop) == \A x \in A \ stop : next[x] \in A
Trail(next, stop, s) ==
    {x \in DOMAIN next : \A A \in SUBSET DOMAIN next : s \in A /\ Closed(A, next, stop) => x \in A}

LEMMA TrailIs ==
    ASSUME NEW D, NEW next \in [D -> D], NEW stop, NEW s \in D
    PROVE  /\ Trail(next, stop, s) \in SUBSET D
           /\ s \in Trail(next, stop, s)
           /\ Closed(Trail(next, stop, s), next, stop)
           /\ \A A \in SUBSET D : s \in A /\ Closed(A, next, stop) => Trail(next, stop, s) \subseteq A
BY DEF Trail, Closed

\* A trail goes on with that of the next state.
LEMMA TrailGoesOn ==
    ASSUME NEW D, NEW next \in [D -> D], NEW stop, NEW s \in D
    PROVE  Trail(next, stop, s) = IF s \in stop THEN {s} ELSE {s} \cup Trail(next, stop, next[s])
<1>1. /\ Trail(next, stop, s) \in SUBSET D /\ s \in Trail(next, stop, s)
      /\ Closed(Trail(next, stop, s), next, stop)
  BY TrailIs
<1>2. CASE s \in stop
  <2>1. Closed({s}, next, stop) /\ {s} \in SUBSET D
    BY <1>2 DEF Closed
  <2>2. Trail(next, stop, s) \subseteq {s}
    BY <2>1, TrailIs
  <2>3. QED
    BY <1>1, <1>2, <2>2
<1>3. CASE s \notin stop
  <2> DEFINE rest == Trail(next, stop, next[s])
  <2>1. next[s] \in D /\ rest \in SUBSET D /\ next[s] \in rest /\ Closed(rest, next, stop)
    BY TrailIs
  <2>2. \A A \in SUBSET D : next[s] \in A /\ Closed(A, next, stop) => rest \subseteq A
    BY <2>1, TrailIs
  <2> HIDE DEF rest
  <2>3. Closed({s} \cup rest, next, stop)
    BY <2>1 DEF Closed
  <2>4. Trail(next, stop, s) \subseteq {s} \cup rest
    BY <2>1, <2>3, TrailIs
  <2>5. next[s] \in Trail(next, stop, s)
    BY <1>1, <1>3 DEF Closed
  <2>6. rest \subseteq Trail(next, stop, s)
    BY <1>1, <2>2, <2>5
  <2>7. QED
    BY <1>1, <1>3, <2>4, <2>6 DEF rest
<1>4. QED
  BY <1>2, <1>3

\* A function that calls itself on the next state is one, whether or not it stops.
Loops(g, D, next, stop) == g = [s \in D |-> IF s \in stop THEN s ELSE g[next[s]]]

LEMMA LoopExists ==
    ASSUME NEW D, NEW next \in [D -> D], NEW stop
    PROVE  \E g : Loops(g, D, next, stop)
<1> DEFINE end(S) == CHOOSE t : t \in S
           g == [s \in D |-> end(Trail(next, stop, s) \cap stop)]
<1>1. ASSUME NEW s \in D
      PROVE  g[s] = IF s \in stop THEN s ELSE g[next[s]]
  <2>1. CASE s \in stop
    <3>1. Trail(next, stop, s) \cap stop = {s}
      BY <2>1, TrailGoesOn
    <3>2. end({s}) = s
      OBVIOUS
    <3>3. QED
      BY <2>1, <3>1, <3>2
  <2>2. CASE s \notin stop
    <3>1. Trail(next, stop, s) = {s} \cup Trail(next, stop, next[s])
      BY <2>2, TrailGoesOn
    <3>2. Trail(next, stop, s) \cap stop = Trail(next, stop, next[s]) \cap stop
      BY <2>2, <3>1
    <3>3. next[s] \in D
      OBVIOUS
    <3> HIDE DEF end
    <3>4. g[s] = end(Trail(next, stop, s) \cap stop)
      OBVIOUS
    <3>5. g[next[s]] = end(Trail(next, stop, next[s]) \cap stop)
      BY <3>3
    <3>6. QED
      BY <2>2, <3>2, <3>4, <3>5
  <2>3. QED
    BY <2>1, <2>2
<1>2. g = [s \in D |-> g[s]]
  OBVIOUS
<1> HIDE DEF g
<1>3. g = [s \in D |-> IF s \in stop THEN s ELSE g[next[s]]]
  BY <1>1, <1>2
<1>4. QED
  BY <1>3 DEF Loops

\* It stops where three counts fall from state to state, the first that changes
\* going down, and whatever every step keeps holds there.
LEMMA LoopStops ==
    ASSUME NEW D, NEW next, NEW stop, NEW g, Loops(g, D, next, stop),
           NEW I \in SUBSET D, NEW a \in [I -> Nat], NEW b \in [I -> Nat], NEW c \in [I -> Nat],
           \A s \in I \ stop :
              /\ next[s] \in I
              /\ \/ a[next[s]] < a[s]
                 \/ a[next[s]] = a[s] /\ b[next[s]] < b[s]
                 \/ a[next[s]] = a[s] /\ b[next[s]] = b[s] /\ c[next[s]] < c[s]
    PROVE  \A s \in I : g[s] \in I \cap stop
<1> DEFINE X == {s \in I : g[s] \notin I \cap stop}
<1>1. SUFFICES ASSUME X # {} PROVE FALSE
  OBVIOUS
<1>2. \A s \in X : s \in I \ stop /\ next[s] \in X
  <2> SUFFICES ASSUME NEW s \in X PROVE s \in I \ stop /\ next[s] \in X
    OBVIOUS
  <2>1. s \in D /\ g[s] = IF s \in stop THEN s ELSE g[next[s]]
    BY DEF Loops
  <2>2. s \notin stop
    BY <2>1
  <2>3. next[s] \in I /\ g[next[s]] = g[s]
    BY <2>1, <2>2
  <2>4. QED
    BY <2>2, <2>3
<1>3. X \in SUBSET I
  OBVIOUS
<1> HIDE DEF X
<1>4. ASSUME NEW Y \in SUBSET X, Y # {}, NEW f \in [I -> Nat]
      PROVE  \E s \in Y : \A t \in Y : f[s] <= f[t]
  <2> DEFINE V == {f[s] : s \in Y}
  <2>1. V \in SUBSET Nat /\ V # {}
    BY <1>3, <1>4
  <2>2. Min(V) \in V /\ \A v \in V : Min(V) <= v
    <3> HIDE DEF V
    <3>1. QED
      BY <2>1, LeastNumber
  <2>3. PICK s \in Y : f[s] = Min(V)
    BY <2>2
  <2>4. QED
    BY <2>2, <2>3
<1>5. PICK s1 \in X : \A t \in X : a[s1] <= a[t]
  BY <1>1, <1>4
<1> DEFINE Y == {t \in X : a[t] = a[s1]}
<1>6. PICK s2 \in Y : \A t \in Y : b[s2] <= b[t]
  <2>1. Y \in SUBSET X /\ Y # {}
    BY <1>5
  <2> HIDE DEF Y
  <2>2. QED
    BY <1>4, <2>1
<1> DEFINE Z == {t \in Y : b[t] = b[s2]}
<1>7. PICK s3 \in Z : \A t \in Z : c[s3] <= c[t]
  <2>1. Z \in SUBSET X /\ Z # {}
    BY <1>6
  <2> HIDE DEF Z
  <2>2. QED
    BY <1>4, <2>1
<1>8. s3 \in I \ stop /\ next[s3] \in X /\ next[s3] \in I /\ a[s3] = a[s1] /\ b[s3] = b[s2]
  BY <1>2, <1>3, <1>7
<1>9. a[next[s3]] = a[s3] /\ b[next[s3]] <= b[s3]
  <2>1. /\ a[s1] <= a[next[s3]] /\ a[s3] \in Nat /\ a[next[s3]] \in Nat
        /\ b[s3] \in Nat /\ b[next[s3]] \in Nat
    BY <1>5, <1>8
  <2>2. QED
    BY <1>8, <2>1
<1>10. next[s3] \in Y
  BY <1>8, <1>9
<1>11. b[next[s3]] = b[s3]
  <2>1. b[s2] <= b[next[s3]] /\ b[s3] \in Nat /\ b[next[s3]] \in Nat
    BY <1>6, <1>8, <1>10
  <2>2. QED
    BY <1>8, <1>9, <2>1
<1>12. next[s3] \in Z
  BY <1>8, <1>10, <1>11
<1>13. c[s3] <= c[next[s3]] /\ c[s3] \in Nat /\ c[next[s3]] \in Nat
  BY <1>7, <1>8, <1>12
<1>14. ~(a[next[s3]] < a[s3]) /\ ~(b[next[s3]] < b[s3]) /\ ~(c[next[s3]] < c[s3])
  <2>1. a[s3] \in Nat /\ b[s3] \in Nat
    BY <1>8
  <2>2. QED
    BY <1>9, <1>11, <1>13, <2>1
<1>15. QED
  BY <1>8, <1>14

-------------------------------------------------------------------------------
(* The search for shortest paths. *)

\* What the search asks of a network: edges that cost as much as they bring back.
IsNet(net) ==
    /\ net.sink \in Nat
    /\ \A u, v \in 0..net.sink : /\ EdgeCost(net, u, v) \in Int
                                 /\ EdgeCost(net, u, v) + EdgeCost(net, v, u) = 0

\* No edge is shorter than the difference of its ends: no cycle has a negative cost.
Potential(net, E, pi) ==
    /\ E \subseteq (0..net.sink) \X (0..net.sink)
    /\ pi \in [0..net.sink -> Int]
    /\ pi[0] = 0
    /\ \A u, v \in 0..net.sink : <<u, v>> \in E => pi[v] <= pi[u] + EdgeCost(net, u, v)

\* The nodes that scanning the head of the queue improves.
Through(net, s, v) == s.distance[Head(s.queue)] + EdgeCost(net, Head(s.queue), v)
Improves(net, E, s) ==
    {v \in 0..net.sink : /\ <<Head(s.queue), v>> \in E
                         /\ v \notin s.reached \/ Through(net, s, v) < s.distance[v]}

LEMMA SinglesAreSortable ==
    ASSUME NEW n \in Nat, NEW S \in SUBSET (0..n)
    PROVE  Sortable(S, [v \in S |-> <<v>>])
<1>1. IsFiniteSet(S)
  BY FS_Interval, FS_Subset, 0 \in Int, n \in Int
<1>2. \A v \in S : v \in Int /\ <<v>> \in Seq(Int) /\ Len(<<v>>) = 1 /\ <<v>>[1] = v
  OBVIOUS
<1>3. QED
  BY <1>1, <1>2 DEF Sortable

LEMMA ScanIs ==
    ASSUME NEW net, IsNet(net), NEW E, NEW s \in Searches(net), s.queue # <<>>
    PROVE  LET t == Scan(net, E, s)
               better == Improves(net, E, s)
           IN  /\ t \in Searches(net)
               /\ Head(s.queue) \in Range(s.queue)
               /\ Range(s.queue) = {Head(s.queue)} \cup Range(Tail(s.queue))
               /\ t.reached = s.reached \cup better
               /\ \A v \in 0..net.sink :
                     /\ t.distance[v] = IF v \in better THEN Through(net, s, v) ELSE s.distance[v]
                     /\ t.previous[v] = IF v \in better THEN Head(s.queue) ELSE s.previous[v]
               /\ Range(t.queue) = Range(Tail(s.queue)) \cup better
               /\ better = {} => Len(t.queue) = Len(s.queue) - 1
<1> DEFINE nodes == 0..net.sink
           u == Head(s.queue)
           better == Improves(net, E, s)
           rest == Tail(s.queue)
           entering == better \ Range(rest)
           more == SortedBy(entering, [v \in entering |-> <<v>>])
           t == Scan(net, E, s)
<1>1. /\ s.reached \in SUBSET nodes /\ s.distance \in [nodes -> Int]
      /\ s.previous \in [nodes -> nodes] /\ s.queue \in Seq(nodes)
  BY DEF Searches
<1>2. u \in nodes /\ rest \in Seq(nodes) /\ Len(rest) = Len(s.queue) - 1
  BY <1>1, HeadTailProperties
<1>3. \A i \in 1..Len(s.queue) : s.queue[i] = IF i = 1 THEN u ELSE rest[i - 1]
  BY <1>1, HeadTailProperties
<1>4. /\ u \in Range(s.queue)
      /\ Range(s.queue) = {u} \cup Range(rest)
  <2>1. DOMAIN s.queue = 1..Len(s.queue) /\ Len(s.queue) \in Nat \ {0}
    BY <1>1, EmptySeq
  <2>2. DOMAIN rest = 1..(Len(s.queue) - 1)
    BY <1>2
  <2> HIDE DEF u, rest
  <2>3. u \in Range(s.queue)
    BY <1>3, <2>1 DEF Range
  <2>4. Range(s.queue) \subseteq {u} \cup Range(rest)
    BY <1>3, <2>1, <2>2 DEF Range
  <2>5. ASSUME NEW x \in Range(rest)
        PROVE  x \in Range(s.queue)
    <3>1. PICK i \in 1..(Len(s.queue) - 1) : rest[i] = x
      BY <2>2 DEF Range
    <3>2. i + 1 \in 1..Len(s.queue) /\ (i + 1) - 1 = i /\ i + 1 # 1
      BY <2>1
    <3>3. s.queue[i + 1] = x
      BY <1>3, <3>1, <3>2
    <3>4. QED
      BY <2>1, <3>2, <3>3 DEF Range
  <2>6. QED
    BY <2>3, <2>4, <2>5
<1>5. better \in SUBSET nodes /\ entering \in SUBSET nodes
  BY DEF Improves
<1>6. \A v \in nodes : Through(net, s, v) \in Int
  <2>1. s.distance[u] \in Int
    BY <1>1, <1>2
  <2>2. \A v \in nodes : EdgeCost(net, u, v) \in Int
    BY <1>2 DEF IsNet
  <2>3. QED
    BY <2>1, <2>2 DEF Through
<1>7. /\ Cardinality(entering) \in Nat
      /\ more \in Seq(entering) /\ Len(more) = Cardinality(entering)
      /\ Range(more) = entering
  <2>1. Sortable(entering, [v \in entering |-> <<v>>])
    BY <1>5, SinglesAreSortable DEF IsNet
  <2> DEFINE key == [v \in entering |-> <<v>>]
  <2>2. Sortable(entering, key) /\ more = SortedBy(entering, key)
    BY <2>1
  <2> HIDE DEF key, more, entering
  <2>3. /\ Cardinality(entering) \in Nat
        /\ more \in Seq(entering) /\ Len(more) = Cardinality(entering)
        /\ DOMAIN more = 1..Cardinality(entering)
        /\ \A i \in 1..Cardinality(entering) : more[i] \in entering
        /\ \A x \in entering : PlaceIn(entering, key, x) \in 1..Cardinality(entering)
                               /\ more[PlaceIn(entering, key, x)] = x
    BY <2>2, SortedByIsSorted
  <2>4. Range(more) = entering
    BY <2>3 DEF Range
  <2>5. QED
    BY <2>3, <2>4
<1>8. t = [reached |-> s.reached \cup better,
           distance |-> [v \in nodes |-> IF v \in better THEN Through(net, s, v) ELSE s.distance[v]],
           previous |-> [v \in nodes |-> IF v \in better THEN u ELSE s.previous[v]],
           queue |-> rest \o more]
  BY DEF Scan, Improves, Through
<1> HIDE DEF more, entering, better, t, u, rest, nodes
<1>9. more \in Seq(nodes)
  <2>1. \A i \in 1..Len(more) : more[i] \in nodes
    BY <1>5, <1>7
  <2>2. more \in [1..Len(more) -> nodes] /\ Len(more) \in Nat
    BY <1>7, <2>1
  <2>3. QED
    BY <2>2, SeqDef
<1>10. rest \o more \in Seq(nodes) /\ Range(rest \o more) = Range(rest) \cup Range(more)
  <2>1. rest \o more \in Seq(nodes)
    BY <1>2, <1>9
  <2> DEFINE both == rest \o more
  <2>2. /\ Len(both) = Len(rest) + Len(more)
        /\ \A i \in 1..(Len(rest) + Len(more)) :
              both[i] = IF i <= Len(rest) THEN rest[i] ELSE more[i - Len(rest)]
    BY <1>2, <1>9, ConcatProperties, Zenon
  <2> HIDE DEF both
  <2>0. /\ Len(rest) \in Nat /\ Len(more) \in Nat
        /\ DOMAIN rest = 1..Len(rest) /\ DOMAIN more = 1..Len(more)
        /\ DOMAIN both = 1..(Len(rest) + Len(more))
    <3>1. both \in Seq(nodes)
      BY <2>1 DEF both
    <3>2. QED
      BY <1>2, <1>9, <2>2, <3>1, LenProperties
  <2>3. ASSUME NEW x \in Range(both)
        PROVE  x \in Range(rest) \cup Range(more)
    <3>1. PICK i \in 1..(Len(rest) + Len(more)) : both[i] = x
      BY <2>0 DEF Range
    <3>2. CASE i <= Len(rest)
      <4>1. i \in DOMAIN rest /\ rest[i] = x
        BY <2>0, <2>2, <3>1, <3>2
      <4>2. QED
        BY <4>1 DEF Range
    <3>3. CASE ~(i <= Len(rest))
      <4>1. i - Len(rest) \in DOMAIN more /\ more[i - Len(rest)] = x
        BY <2>0, <2>2, <3>1, <3>3
      <4>2. QED
        BY <4>1 DEF Range
    <3>4. QED
      BY <3>2, <3>3
  <2>4. ASSUME NEW x \in Range(rest)
        PROVE  x \in Range(both)
    <3>1. PICK i \in 1..Len(rest) : rest[i] = x
      BY <2>0 DEF Range
    <3>2. i \in DOMAIN both /\ both[i] = x
      BY <2>0, <2>2, <3>1
    <3>3. QED
      BY <3>2 DEF Range
  <2>5. ASSUME NEW x \in Range(more)
        PROVE  x \in Range(both)
    <3>1. PICK i \in 1..Len(more) : more[i] = x
      BY <2>0 DEF Range
    <3>2. i + Len(rest) \in DOMAIN both /\ ~(i + Len(rest) <= Len(rest))
          /\ (i + Len(rest)) - Len(rest) = i
      BY <2>0, <2>2, <3>1
    <3>3. both[i + Len(rest)] = x
      BY <2>0, <2>2, <3>1, <3>2
    <3>4. QED
      BY <3>2, <3>3 DEF Range
  <2>6. QED
    BY <2>1, <2>3, <2>4, <2>5 DEF both
<1>11. t \in Searches(net)
  <2>1. s.reached \cup better \in SUBSET nodes
    BY <1>1, <1>5
  <2>2. [v \in nodes |-> IF v \in better THEN Through(net, s, v) ELSE s.distance[v]] \in [nodes -> Int]
    BY <1>1, <1>6
  <2>3. [v \in nodes |-> IF v \in better THEN u ELSE s.previous[v]] \in [nodes -> nodes]
    BY <1>1, <1>2
  <2>4. QED
    BY <1>8, <1>10, <2>1, <2>2, <2>3 DEF Searches, nodes
<1>12. Range(t.queue) = Range(rest) \cup better
  BY <1>7, <1>8, <1>10 DEF entering
<1>13. better = {} => Len(t.queue) = Len(s.queue) - 1
  <2>1. better = {} => entering = {}
    BY DEF entering
  <2>2. better = {} => Len(more) = 0
    BY <1>7, <2>1, FS_EmptySet
  <2>3. Len(rest \o more) = Len(rest) + Len(more)
    BY <1>2, <1>9
  <2>4. QED
    BY <1>1, <1>2, <1>8, <2>2, <2>3
<1>14. \A v \in nodes :
          /\ t.distance[v] = IF v \in better THEN Through(net, s, v) ELSE s.distance[v]
          /\ t.previous[v] = IF v \in better THEN u ELSE s.previous[v]
  BY <1>8
<1>15. t.reached = s.reached \cup better
  BY <1>8
<1>16. QED
  BY <1>4, <1>11, <1>12, <1>13, <1>14, <1>15 DEF better, t, u, rest, nodes

\* Going from a reached node to the one before ends in the source.
Rooted(reached, previous) ==
    \A C \in SUBSET (reached \ {0}) : C # {} => \E x \in C : previous[x] \notin C

\* The reached nodes form a tree whose edges are at least as long as they need to
\* be, and the edges out of the nodes that do not wait in the queue say nothing new.
SearchInv(net, E, pi, s) ==
    /\ s \in Searches(net)
    /\ 0 \in s.reached /\ s.distance[0] = 0
    /\ Range(s.queue) \subseteq s.reached
    /\ \A v \in s.reached : s.distance[v] >= pi[v]
    /\ \A v \in s.reached \ {0} :
          /\ s.previous[v] \in s.reached /\ <<s.previous[v], v>> \in E
          /\ s.distance[v] >= s.distance[s.previous[v]] + EdgeCost(net, s.previous[v], v)
    /\ Rooted(s.reached, s.previous)
    /\ \A u \in s.reached \ Range(s.queue) : \A v \in 0..net.sink :
          <<u, v>> \in E => /\ v \in s.reached
                            /\ s.distance[v] <= s.distance[u] + EdgeCost(net, u, v)

LEMMA SearchStarts ==
    ASSUME NEW net, IsNet(net), NEW E, NEW pi, Potential(net, E, pi)
    PROVE  SearchInv(net, E, pi, StartOfSearch(net))
<1> DEFINE s == StartOfSearch(net)
<1>1. s = [reached |-> {0}, distance |-> [v \in 0..net.sink |-> 0],
           previous |-> [v \in 0..net.sink |-> 0], queue |-> <<0>>]
  BY DEF StartOfSearch
<1>2. 0 \in 0..net.sink
  BY DEF IsNet
<1>3. <<0>> \in Seq(0..net.sink)
  BY <1>2
<1>4. Range(<<0>>) = {0}
  BY DEF Range
<1> HIDE DEF s
<1>5. s \in Searches(net)
  <2>1. {0} \in SUBSET (0..net.sink)
    BY <1>2
  <2>2. [v \in 0..net.sink |-> 0] \in [0..net.sink -> Int]
        /\ [v \in 0..net.sink |-> 0] \in [0..net.sink -> 0..net.sink]
    BY <1>2
  <2>3. QED
    BY <1>1, <1>3, <2>1, <2>2 DEF Searches
<1>6. s.reached = {0} /\ s.distance[0] = 0 /\ Range(s.queue) = {0} /\ pi[0] = 0
  BY <1>1, <1>2, <1>4 DEF Potential
<1>7. Rooted(s.reached, s.previous)
  BY <1>6 DEF Rooted
<1>8. SearchInv(net, E, pi, s)
  BY <1>5, <1>6, <1>7 DEF SearchInv
<1>9. QED
  BY <1>8 DEF s

\* What scanning a node does to the distances, given the potential.
LEMMA ImprovesIs ==
    ASSUME NEW net, IsNet(net), NEW E, NEW pi, Potential(net, E, pi),
           NEW s, SearchInv(net, E, pi, s), s.queue # <<>>
    PROVE  LET u == Head(s.queue)
               better == Improves(net, E, s)
           IN  /\ u \in s.reached /\ u \in 0..net.sink /\ u \notin better
               /\ 0 \notin better
               /\ \A v \in 0..net.sink : s.distance[v] \in Int /\ pi[v] \in Int
               /\ s.reached \in SUBSET (0..net.sink)
               /\ \A v \in better :
                     /\ v \in 0..net.sink /\ <<u, v>> \in E
                     /\ EdgeCost(net, u, v) \in Int /\ Through(net, s, v) \in Int
                     /\ Through(net, s, v) = s.distance[u] + EdgeCost(net, u, v)
                     /\ Through(net, s, v) - pi[v] >= s.distance[u] - pi[u]
                     /\ v \in s.reached => Through(net, s, v) < s.distance[v]
<1> DEFINE u == Head(s.queue)
           better == Improves(net, E, s)
<1>1. /\ s \in Searches(net) /\ Range(s.queue) \subseteq s.reached
      /\ 0 \in s.reached /\ s.distance[0] = 0
      /\ \A v \in s.reached : s.distance[v] >= pi[v]
  BY DEF SearchInv
<1>2. s.distance \in [0..net.sink -> Int] /\ s.reached \in SUBSET (0..net.sink)
  BY <1>1 DEF Searches
<1>3. u \in s.reached
  BY <1>1, ScanIs
<1>4. pi \in [0..net.sink -> Int] /\ pi[0] = 0
      /\ \A v, w \in 0..net.sink : <<v, w>> \in E => pi[w] <= pi[v] + EdgeCost(net, v, w)
  BY DEF Potential
<1>5. \A v \in better : /\ v \in 0..net.sink /\ <<u, v>> \in E
                        /\ v \in s.reached => Through(net, s, v) < s.distance[v]
  BY DEF Improves
<1>6. \A v \in 0..net.sink : Through(net, s, v) = s.distance[u] + EdgeCost(net, u, v)
  BY DEF Through
<1> HIDE DEF u, better
<1>7. /\ u \in 0..net.sink /\ s.distance[u] \in Int /\ pi[u] \in Int
      /\ s.distance[u] >= pi[u]
  BY <1>1, <1>2, <1>3, <1>4
<1>8. ASSUME NEW v \in better
      PROVE  /\ EdgeCost(net, u, v) \in Int /\ Through(net, s, v) \in Int
             /\ Through(net, s, v) = s.distance[u] + EdgeCost(net, u, v)
             /\ Through(net, s, v) - pi[v] >= s.distance[u] - pi[u]
  <2>1. EdgeCost(net, u, v) \in Int
    BY <1>5, <1>7 DEF IsNet
  <2>2. Through(net, s, v) = s.distance[u] + EdgeCost(net, u, v)
    BY <1>5, <1>6
  <2>3. pi[v] <= pi[u] + EdgeCost(net, u, v) /\ pi[v] \in Int
    BY <1>4, <1>5, <1>7
  <2>4. QED
    BY <1>7, <2>1, <2>2, <2>3
<1>9. 0 \notin better
  <2>1. SUFFICES ASSUME 0 \in better PROVE FALSE
    OBVIOUS
  <2>2. Through(net, s, 0) < 0
    BY <1>1, <1>5, <2>1
  <2>3. Through(net, s, 0) - 0 >= s.distance[u] - pi[u] /\ Through(net, s, 0) \in Int
    BY <1>4, <1>7, <1>8, <2>1
  <2>4. QED
    BY <1>7, <2>2, <2>3
<1>10. u \notin better
  <2>1. SUFFICES ASSUME u \in better PROVE FALSE
    OBVIOUS
  <2>2. EdgeCost(net, u, u) \in Int /\ EdgeCost(net, u, u) + EdgeCost(net, u, u) = 0
    BY <1>7 DEF IsNet
  <2>3. EdgeCost(net, u, u) = 0
    BY <2>2
  <2>4. Through(net, s, u) < s.distance[u] /\ Through(net, s, u) = s.distance[u] + 0
    BY <1>3, <1>5, <1>8, <2>1, <2>3
  <2>5. QED
    BY <1>7, <2>4
<1>11. \A v \in 0..net.sink : s.distance[v] \in Int /\ pi[v] \in Int
  BY <1>2, <1>4
<1>12. QED
  BY <1>2, <1>3, <1>5, <1>7, <1>8, <1>9, <1>10, <1>11 DEF u, better

\* A node that u improves lies further out than u, so that no improved node is on
\* the way from the source to u: the tree stays one.
LEMMA ScanKeepsRooted ==
    ASSUME NEW net, IsNet(net), NEW E, NEW pi, Potential(net, E, pi),
           NEW s, SearchInv(net, E, pi, s), s.queue # <<>>
    PROVE  Rooted(Scan(net, E, s).reached, Scan(net, E, s).previous)
<1> DEFINE u == Head(s.queue)
           better == Improves(net, E, s)
           t == Scan(net, E, s)
<1>1. /\ s \in Searches(net)
      /\ \A v \in s.reached \ {0} :
            /\ s.previous[v] \in s.reached /\ <<s.previous[v], v>> \in E
            /\ s.distance[v] >= s.distance[s.previous[v]] + EdgeCost(net, s.previous[v], v)
      /\ Rooted(s.reached, s.previous)
  BY DEF SearchInv
<1>2. /\ t.reached = s.reached \cup better
      /\ \A v \in 0..net.sink : t.previous[v] = IF v \in better THEN u ELSE s.previous[v]
  BY <1>1, ScanIs
<1>3. /\ u \in s.reached /\ u \in 0..net.sink /\ u \notin better
      /\ \A v \in 0..net.sink : s.distance[v] \in Int /\ pi[v] \in Int
      /\ s.reached \in SUBSET (0..net.sink)
      /\ \A v \in better :
            /\ v \in 0..net.sink
            /\ Through(net, s, v) \in Int
            /\ Through(net, s, v) - pi[v] >= s.distance[u] - pi[u]
            /\ v \in s.reached => Through(net, s, v) < s.distance[v]
  BY ImprovesIs
<1>4. \A v \in s.reached \ {0} :
         s.distance[v] - pi[v] >= s.distance[s.previous[v]] - pi[s.previous[v]]
  <2>1. TAKE v \in s.reached \ {0}
  <2>2. v \in 0..net.sink /\ s.previous[v] \in 0..net.sink /\ <<s.previous[v], v>> \in E
        /\ s.distance[v] >= s.distance[s.previous[v]] + EdgeCost(net, s.previous[v], v)
    BY <1>1, <1>3
  <2>3. pi[v] <= pi[s.previous[v]] + EdgeCost(net, s.previous[v], v)
        /\ EdgeCost(net, s.previous[v], v) \in Int
    BY <2>2 DEF Potential, IsNet
  <2>4. /\ s.distance[v] \in Int /\ pi[v] \in Int
        /\ s.distance[s.previous[v]] \in Int /\ pi[s.previous[v]] \in Int
    BY <1>3, <2>2
  <2>5. QED
    BY <2>2, <2>3, <2>4
<1> HIDE DEF u, better, t
<1>5. SUFFICES ASSUME NEW C \in SUBSET (t.reached \ {0}), C # {},
                      \A x \in C : t.previous[x] \in C
               PROVE  FALSE
  BY DEF Rooted, t
<1>6. u \in C
  <2>1. CASE C \cap better = {}
    <3>1. C \in SUBSET (s.reached \ {0})
      BY <1>2, <1>5, <2>1
    <3>2. \A x \in C : s.previous[x] = t.previous[x]
      BY <1>2, <1>3, <2>1, <3>1
    <3>3. QED
      BY <1>1, <1>5, <3>1, <3>2 DEF Rooted
  <2>2. CASE C \cap better # {}
    BY <1>2, <1>3, <1>5, <2>2
  <2>3. QED
    BY <2>1, <2>2
<1> DEFINE D == {x \in C \ better : s.distance[x] - pi[x] <= s.distance[u] - pi[u]}
<1>7. u \in D
  BY <1>3, <1>6
<1>8. D \in SUBSET (s.reached \ {0})
  BY <1>2, <1>5
<1>9. ASSUME NEW x \in D
      PROVE  s.previous[x] \in D
  <2> DEFINE y == s.previous[x]
  <2>1. x \in C /\ x \notin better /\ x \in s.reached \ {0} /\ x \in 0..net.sink
        /\ s.distance[x] - pi[x] <= s.distance[u] - pi[u]
    BY <1>3, <1>8
  <2>2. y \in C /\ y \in s.reached /\ y \in 0..net.sink
    BY <1>1, <1>2, <1>3, <1>5, <2>1
  <2>3. s.distance[x] - pi[x] >= s.distance[y] - pi[y]
    BY <1>4, <2>1
  <2>4. /\ s.distance[x] \in Int /\ pi[x] \in Int /\ s.distance[y] \in Int /\ pi[y] \in Int
        /\ s.distance[u] \in Int /\ pi[u] \in Int
    BY <1>3, <2>1, <2>2
  <2> HIDE DEF y
  <2>5. s.distance[y] - pi[y] <= s.distance[u] - pi[u]
    BY <2>1, <2>3, <2>4
  <2>6. y \notin better
    <3>1. SUFFICES ASSUME y \in better PROVE FALSE
      OBVIOUS
    <3>2. /\ Through(net, s, y) - pi[y] >= s.distance[u] - pi[u]
          /\ Through(net, s, y) < s.distance[y] /\ Through(net, s, y) \in Int
      BY <1>3, <2>2, <3>1
    <3>3. QED
      BY <2>4, <2>5, <3>2
  <2>7. y \in D
    BY <2>2, <2>5, <2>6
  <2>8. QED
    BY <2>7 DEF y
<1>10. QED
  BY <1>1, <1>7, <1>8, <1>9 DEF Rooted

LEMMA ScanKeeps ==
    ASSUME NEW net, IsNet(net), NEW E, NEW pi, Potential(net, E, pi),
           NEW s, SearchInv(net, E, pi, s), s.queue # <<>>
    PROVE  SearchInv(net, E, pi, Scan(net, E, s))
<1> DEFINE u == Head(s.queue)
           better == Improves(net, E, s)
           t == Scan(net, E, s)
<1>1. /\ s \in Searches(net)
      /\ 0 \in s.reached /\ s.distance[0] = 0
      /\ Range(s.queue) \subseteq s.reached
      /\ \A v \in s.reached : s.distance[v] >= pi[v]
      /\ \A v \in s.reached \ {0} :
            /\ s.previous[v] \in s.reached /\ <<s.previous[v], v>> \in E
            /\ s.distance[v] >= s.distance[s.previous[v]] + EdgeCost(net, s.previous[v], v)
      /\ \A x \in s.reached \ Range(s.queue) : \A v \in 0..net.sink :
            <<x, v>> \in E => /\ v \in s.reached
                              /\ s.distance[v] <= s.distance[x] + EdgeCost(net, x, v)
  BY DEF SearchInv
<1>2. /\ t \in Searches(net)
      /\ Range(s.queue) = {u} \cup Range(Tail(s.queue))
      /\ t.reached = s.reached \cup better
      /\ \A v \in 0..net.sink :
            /\ t.distance[v] = IF v \in better THEN Through(net, s, v) ELSE s.distance[v]
            /\ t.previous[v] = IF v \in better THEN u ELSE s.previous[v]
      /\ Range(t.queue) = Range(Tail(s.queue)) \cup better
  BY <1>1, ScanIs
<1>3. /\ u \in s.reached /\ u \in 0..net.sink /\ u \notin better /\ 0 \notin better
      /\ \A v \in 0..net.sink : s.distance[v] \in Int /\ pi[v] \in Int
      /\ s.reached \in SUBSET (0..net.sink)
      /\ \A v \in better :
            /\ v \in 0..net.sink /\ <<u, v>> \in E
            /\ EdgeCost(net, u, v) \in Int /\ Through(net, s, v) \in Int
            /\ Through(net, s, v) = s.distance[u] + EdgeCost(net, u, v)
            /\ Through(net, s, v) - pi[v] >= s.distance[u] - pi[u]
            /\ v \in s.reached => Through(net, s, v) < s.distance[v]
  BY ImprovesIs
<1>4. \A v \in 0..net.sink : <<u, v>> \in E =>
         v \in better \/ (v \in s.reached /\ s.distance[v] <= s.distance[u] + EdgeCost(net, u, v))
  <2>1. TAKE v \in 0..net.sink
  <2>2. HAVE <<u, v>> \in E
  <2>3. EdgeCost(net, u, v) \in Int /\ s.distance[u] \in Int /\ s.distance[v] \in Int
    BY <1>3 DEF IsNet
  <2>4. v \notin better =>
            v \in s.reached /\ ~(s.distance[u] + EdgeCost(net, u, v) < s.distance[v])
    BY <2>2 DEF Improves, Through
  <2>5. QED
    BY <2>3, <2>4
<1> HIDE DEF u, better, t
<1>5. \A v \in s.reached : t.distance[v] <= s.distance[v]
  <2>1. TAKE v \in s.reached
  <2>2. v \in better => Through(net, s, v) < s.distance[v] /\ Through(net, s, v) \in Int
    BY <1>3
  <2>3. v \in 0..net.sink /\ s.distance[v] \in Int
    BY <1>3
  <2>4. t.distance[v] = IF v \in better THEN Through(net, s, v) ELSE s.distance[v]
    BY <1>2, <2>3
  <2> HIDE DEF t
  <2>5. QED
    BY <2>2, <2>3, <2>4
<1>6. 0 \in t.reached /\ t.distance[0] = 0 /\ Range(t.queue) \subseteq t.reached
  BY <1>1, <1>2, <1>3
<1>7. ASSUME NEW v \in t.reached
      PROVE  t.distance[v] >= pi[v]
  <2>1. CASE v \in better
    <3>1. t.distance[v] = Through(net, s, v) /\ Through(net, s, v) \in Int
          /\ Through(net, s, v) - pi[v] >= s.distance[u] - pi[u]
          /\ s.distance[u] \in Int /\ pi[u] \in Int /\ pi[v] \in Int
      BY <1>2, <1>3, <2>1
    <3>2. s.distance[u] >= pi[u]
      BY <1>1, <1>3
    <3>3. QED
      BY <3>1, <3>2
  <2>2. CASE v \notin better
    <3>1. v \in s.reached /\ v \in 0..net.sink
      BY <1>2, <1>3, <2>2
    <3>2. QED
      BY <1>1, <1>2, <2>2, <3>1
  <2>3. QED
    BY <2>1, <2>2
<1>8. t.distance[u] = s.distance[u]
  BY <1>2, <1>3
<1>9. ASSUME NEW v \in t.reached \ {0}
      PROVE  /\ t.previous[v] \in t.reached /\ <<t.previous[v], v>> \in E
             /\ t.distance[v] >= t.distance[t.previous[v]] + EdgeCost(net, t.previous[v], v)
  <2>1. CASE v \in better
    <3>1. t.previous[v] = u /\ t.distance[v] = s.distance[u] + EdgeCost(net, u, v)
      BY <1>2, <1>3, <2>1
    <3>2. s.distance[u] \in Int /\ EdgeCost(net, u, v) \in Int
      BY <1>3, <2>1
    <3>3. QED
      BY <1>2, <1>3, <1>8, <2>1, <3>1, <3>2
  <2>2. CASE v \notin better
    <3> DEFINE y == s.previous[v]
    <3>1. v \in s.reached \ {0} /\ v \in 0..net.sink
      BY <1>2, <1>3, <2>2
    <3>2. /\ t.previous[v] = y /\ t.distance[v] = s.distance[v]
          /\ y \in s.reached /\ y \in 0..net.sink /\ <<y, v>> \in E
          /\ s.distance[v] >= s.distance[y] + EdgeCost(net, y, v)
      BY <1>1, <1>2, <1>3, <2>2, <3>1
    <3> HIDE DEF y
    <3>3. /\ s.distance[v] \in Int /\ s.distance[y] \in Int /\ EdgeCost(net, y, v) \in Int
          /\ t.distance[y] \in Int /\ t.distance[y] <= s.distance[y]
      <4>1. EdgeCost(net, y, v) \in Int
        BY <3>1, <3>2 DEF IsNet
      <4>2. t.distance[y] \in Int
        BY <1>2, <3>2 DEF Searches
      <4>3. QED
        BY <1>3, <1>5, <3>1, <3>2, <4>1, <4>2
    <3>4. t.distance[v] >= t.distance[y] + EdgeCost(net, y, v)
      BY <3>2, <3>3
    <3>5. QED
      BY <1>2, <3>2, <3>4
  <2>3. QED
    BY <2>1, <2>2
<1>10. ASSUME NEW x \in t.reached \ Range(t.queue), NEW v \in 0..net.sink, <<x, v>> \in E
       PROVE  v \in t.reached /\ t.distance[v] <= t.distance[x] + EdgeCost(net, x, v)
  <2>1. x \notin better /\ x \in s.reached /\ x \in 0..net.sink
        /\ (x = u \/ x \notin Range(s.queue)) /\ t.distance[x] = s.distance[x]
    BY <1>2, <1>3
  <2>2. /\ s.distance[x] \in Int /\ s.distance[v] \in Int /\ t.distance[v] \in Int
        /\ EdgeCost(net, x, v) \in Int
    <3>1. t.distance[v] \in Int
      BY <1>2 DEF Searches
    <3>2. EdgeCost(net, x, v) \in Int
      BY <2>1 DEF IsNet
    <3>3. QED
      BY <1>3, <2>1, <3>1, <3>2
  <2>3. CASE v \in better /\ x = u
    <3>1. v \in t.reached /\ t.distance[v] = s.distance[u] + EdgeCost(net, u, v)
      BY <1>2, <1>3, <2>3
    <3>2. QED
      BY <2>1, <2>2, <2>3, <3>1
  <2>4. CASE v \in s.reached /\ s.distance[v] <= s.distance[x] + EdgeCost(net, x, v)
    <3>1. t.distance[v] <= s.distance[v]
      BY <1>5, <2>4
    <3>2. QED
      BY <1>2, <2>1, <2>2, <2>4, <3>1
  <2>5. QED
    BY <1>1, <1>4, <1>10, <2>1, <2>3, <2>4
<1>11. Rooted(t.reached, t.previous)
  BY ScanKeepsRooted DEF t
<1>12. SearchInv(net, E, pi, t)
  BY <1>2, <1>6, <1>7, <1>9, <1>10, <1>11 DEF SearchInv
<1>13. QED
  BY <1>12 DEF t

\* What is left to do: nodes to reach, distances above the potential, the queue.
Unseen(net, s) == Cardinality((0..net.sink) \ s.reached)
Heights(net, pi, s) == [v \in 0..net.sink |-> s.distance[v] - pi[v]]
Slack(net, pi, s) == Cardinality(Tokens(Heights(net, pi, s), s.reached))

\* Distances that go down leave fewer tokens.
LEMMA FewerTokens ==
    ASSUME NEW S, IsFiniteSet(S), NEW v, NEW w,
           \A x \in S : v[x] \in Int /\ w[x] \in Int /\ w[x] <= v[x],
           NEW y \in S, w[y] < v[y], v[y] >= 1
    PROVE  Cardinality(Tokens(w, S)) < Cardinality(Tokens(v, S))
<1>1. IsFiniteSet(Tokens(v, S)) /\ Cardinality(Tokens(v, S)) \in Nat
      /\ Cardinality(Tokens(w, S)) \in Nat
  BY TokensCount
<1>2. Tokens(w, S) \subseteq Tokens(v, S)
  <2>1. ASSUME NEW x \in S, NEW i \in 1..w[x] PROVE i \in 1..v[x]
    OBVIOUS
  <2>2. QED
    BY <2>1 DEF Tokens
<1>3. <<y, v[y]>> \in Tokens(v, S) /\ <<y, v[y]>> \notin Tokens(w, S)
  <2>1. v[y] \in 1..v[y] /\ v[y] \notin 1..w[y]
    OBVIOUS
  <2>2. QED
    BY <2>1 DEF Tokens
<1>4. /\ Cardinality(Tokens(w, S)) <= Cardinality(Tokens(v, S))
      /\ Cardinality(Tokens(w, S)) # Cardinality(Tokens(v, S))
  BY <1>1, <1>2, <1>3, FS_Subset
<1>5. QED
  BY <1>1, <1>4

\* Every scan brings the end nearer.
LEMMA ScanAdvances ==
    ASSUME NEW net, IsNet(net), NEW E, NEW pi, Potential(net, E, pi),
           NEW s, SearchInv(net, E, pi, s), s.queue # <<>>
    PROVE  LET t == Scan(net, E, s)
           IN  \/ Unseen(net, t) < Unseen(net, s)
               \/ Unseen(net, t) = Unseen(net, s) /\ Slack(net, pi, t) < Slack(net, pi, s)
               \/ /\ Unseen(net, t) = Unseen(net, s) /\ Slack(net, pi, t) = Slack(net, pi, s)
                  /\ Len(t.queue) < Len(s.queue)
<1> DEFINE nodes == 0..net.sink
           better == Improves(net, E, s)
           t == Scan(net, E, s)
<1>1. s \in Searches(net) /\ \A v \in s.reached : s.distance[v] >= pi[v]
  BY DEF SearchInv
<1>2. /\ t \in Searches(net)
      /\ t.reached = s.reached \cup better
      /\ \A v \in nodes :
            t.distance[v] = IF v \in better THEN Through(net, s, v) ELSE s.distance[v]
      /\ better = {} => Len(t.queue) = Len(s.queue) - 1
  BY <1>1, ScanIs
<1>3. /\ \A v \in nodes : s.distance[v] \in Int /\ pi[v] \in Int
      /\ s.reached \in SUBSET nodes
      /\ \A v \in better : /\ v \in nodes /\ Through(net, s, v) \in Int
                           /\ v \in s.reached => Through(net, s, v) < s.distance[v]
  BY ImprovesIs
<1>4. \A v \in t.reached : t.distance[v] >= pi[v]
  BY ScanKeeps DEF SearchInv
<1>5. IsFiniteSet(nodes)
  BY FS_Interval, 0 \in Int DEF IsNet
<1>6. t.distance \in [nodes -> Int] /\ s.queue \in Seq(nodes) /\ t.reached \in SUBSET nodes
  BY <1>1, <1>2 DEF Searches
<1> HIDE DEF better, t, nodes
<1>7. CASE \E v \in better : v \notin s.reached
  <2>1. PICK v \in better : v \notin s.reached
    BY <1>7
  <2>2. v \in nodes \ s.reached /\ v \notin nodes \ t.reached
    BY <1>2, <1>3, <2>1
  <2>3. nodes \ t.reached \in SUBSET (nodes \ s.reached) /\ IsFiniteSet(nodes \ s.reached)
    BY <1>2, <1>5, FS_Subset
  <2>4. nodes \ t.reached # nodes \ s.reached
    BY <2>2
  <2>5. /\ Cardinality(nodes \ t.reached) <= Cardinality(nodes \ s.reached)
        /\ Cardinality(nodes \ t.reached) # Cardinality(nodes \ s.reached)
        /\ Cardinality(nodes \ t.reached) \in Nat /\ Cardinality(nodes \ s.reached) \in Nat
    BY <2>3, <2>4, FS_Subset, FS_CardinalityType
  <2>6. Unseen(net, t) < Unseen(net, s)
    BY <2>5 DEF Unseen, nodes
  <2>7. QED
    BY <2>6 DEF t
<1>8. CASE better # {} /\ better \subseteq s.reached
  <2>1. t.reached = s.reached
    BY <1>2, <1>8
  <2>2. PICK y \in better : y \in s.reached
    BY <1>8
  <2> DEFINE v == Heights(net, pi, s)
             w == Heights(net, pi, t)
  <2>3. \A x \in nodes : v[x] = s.distance[x] - pi[x] /\ w[x] = t.distance[x] - pi[x]
    BY DEF Heights, nodes
  <2> HIDE DEF v, w
  <2>4. \A x \in s.reached : v[x] \in Int /\ w[x] \in Int /\ w[x] <= v[x]
    <3>1. TAKE x \in s.reached
    <3>2. x \in nodes /\ s.distance[x] \in Int /\ pi[x] \in Int /\ t.distance[x] \in Int
      BY <1>3, <1>6
    <3>3. t.distance[x] <= s.distance[x]
      BY <1>2, <1>3, <3>2
    <3>4. QED
      BY <2>3, <3>2, <3>3
  <2>5. w[y] < v[y] /\ v[y] >= 1
    <3>1. y \in nodes /\ s.distance[y] \in Int /\ pi[y] \in Int /\ t.distance[y] \in Int
      BY <1>3, <1>6
    <3>2. t.distance[y] < s.distance[y] /\ t.distance[y] >= pi[y]
      BY <1>2, <1>3, <1>4, <2>1, <2>2, <3>1
    <3>3. QED
      BY <2>3, <3>1, <3>2
  <2>6. IsFiniteSet(s.reached)
    BY <1>3, <1>5, FS_Subset
  <2>7. Cardinality(Tokens(w, s.reached)) < Cardinality(Tokens(v, s.reached))
    BY <2>2, <2>4, <2>5, <2>6, FewerTokens
  <2>8. Unseen(net, t) = Unseen(net, s) /\ Slack(net, pi, t) < Slack(net, pi, s)
    BY <2>1, <2>7 DEF Unseen, Slack, v, w
  <2>9. QED
    BY <2>8 DEF t
<1>9. CASE better = {}
  <2>1. t.reached = s.reached /\ \A v \in nodes : t.distance[v] = s.distance[v]
    BY <1>2, <1>9
  <2>2. Heights(net, pi, t) = Heights(net, pi, s)
    BY <2>1 DEF Heights, nodes
  <2>3. Len(s.queue) \in Nat /\ Len(t.queue) = Len(s.queue) - 1
    BY <1>2, <1>6, <1>9
  <2>4. Len(t.queue) < Len(s.queue)
    BY <2>3
  <2>5. Unseen(net, t) = Unseen(net, s) /\ Slack(net, pi, t) = Slack(net, pi, s)
    BY <2>1, <2>2 DEF Unseen, Slack
  <2>6. QED
    BY <2>4, <2>5 DEF t
<1>10. QED
  BY <1>7, <1>8, <1>9

Searching(g, net, E) ==
    g = [s \in Searches(net) |-> IF s.queue = <<>> THEN s ELSE g[Scan(net, E, s)]]

\* The search ends, with nothing left to scan.
LEMMA SearchEnds ==
    ASSUME NEW net, IsNet(net), NEW E, NEW pi, Potential(net, E, pi)
    PROVE  SearchInv(net, E, pi, ShortestPaths(net, E)) /\ ShortestPaths(net, E).queue = <<>>
<1> DEFINE D == Searches(net)
           stop == {s \in D : s.queue = <<>>}
           next == [s \in D |-> IF s.queue = <<>> THEN s ELSE Scan(net, E, s)]
           g == CHOOSE h : Searching(h, net, E)
           I == {s \in D : SearchInv(net, E, pi, s)}
           a == [s \in I |-> Unseen(net, s)]
           b == [s \in I |-> Slack(net, pi, s)]
           c == [s \in I |-> Len(s.queue)]
<1>1. next \in [D -> D]
  <2>1. \A s \in D : s.queue # <<>> => Scan(net, E, s) \in D
    BY ScanIs
  <2>2. QED
    BY <2>1
<1>2. \A h : Loops(h, D, next, stop) <=> Searching(h, net, E)
  <2>1. TAKE h
  <2>2. [s \in D |-> IF s \in stop THEN s ELSE h[next[s]]]
        = [s \in D |-> IF s.queue = <<>> THEN s ELSE h[Scan(net, E, s)]]
    OBVIOUS
  <2> HIDE DEF stop, next
  <2>3. QED
    BY <2>2 DEF Loops, Searching
<1>3. Searching(g, net, E)
  <2> HIDE DEF D, stop, next
  <2>1. \E h : Loops(h, D, next, stop)
    BY <1>1, LoopExists
  <2>2. QED
    BY <1>2, <2>1
<1>4. ShortestPaths(net, E) = g[StartOfSearch(net)]
  BY DEF ShortestPaths, Searching
<1>5. ASSUME NEW s \in I
      PROVE  Unseen(net, s) \in Nat /\ Slack(net, pi, s) \in Nat /\ Len(s.queue) \in Nat
  <2>1. s.reached \in SUBSET (0..net.sink) /\ s.queue \in Seq(0..net.sink)
        /\ s.distance \in [0..net.sink -> Int]
    BY DEF Searches
  <2>2. IsFiniteSet(0..net.sink) /\ IsFiniteSet(s.reached)
        /\ IsFiniteSet((0..net.sink) \ s.reached)
    <3>1. IsFiniteSet(0..net.sink)
      BY FS_Interval, 0 \in Int DEF IsNet
    <3>2. QED
      BY <2>1, <3>1, FS_Subset
  <2>3. \A v \in s.reached : Heights(net, pi, s)[v] \in Int
    <3>1. \A v \in 0..net.sink : s.distance[v] \in Int /\ pi[v] \in Int
      BY <2>1 DEF Potential
    <3>2. \A v \in 0..net.sink : Heights(net, pi, s)[v] = s.distance[v] - pi[v]
      BY DEF Heights
    <3>3. QED
      BY <2>1, <3>1, <3>2
  <2>4. Slack(net, pi, s) \in Nat
    BY <2>2, <2>3, TokensCount DEF Slack
  <2>5. Unseen(net, s) \in Nat
    BY <2>2, FS_CardinalityType DEF Unseen
  <2>6. QED
    BY <2>1, <2>4, <2>5
<1>6. a \in [I -> Nat] /\ b \in [I -> Nat] /\ c \in [I -> Nat] /\ I \in SUBSET D
  BY <1>5
<1>7. ASSUME NEW s \in I \ stop
      PROVE  /\ next[s] \in I
             /\ \/ a[next[s]] < a[s]
                \/ a[next[s]] = a[s] /\ b[next[s]] < b[s]
                \/ a[next[s]] = a[s] /\ b[next[s]] = b[s] /\ c[next[s]] < c[s]
  <2> DEFINE t == Scan(net, E, s)
  <2>1. s \in D /\ s.queue # <<>> /\ SearchInv(net, E, pi, s) /\ next[s] = t
    OBVIOUS
  <2>2. SearchInv(net, E, pi, t)
    BY <2>1, ScanKeeps
  <2>3. \/ Unseen(net, t) < Unseen(net, s)
        \/ Unseen(net, t) = Unseen(net, s) /\ Slack(net, pi, t) < Slack(net, pi, s)
        \/ /\ Unseen(net, t) = Unseen(net, s) /\ Slack(net, pi, t) = Slack(net, pi, s)
           /\ Len(t.queue) < Len(s.queue)
    BY <2>1, ScanAdvances
  <2> HIDE DEF t, next
  <2>4. t \in I
    BY <2>2 DEF SearchInv
  <2>5. /\ a[s] = Unseen(net, s) /\ b[s] = Slack(net, pi, s) /\ c[s] = Len(s.queue)
        /\ a[t] = Unseen(net, t) /\ b[t] = Slack(net, pi, t) /\ c[t] = Len(t.queue)
    BY <2>4
  <2>6. QED
    BY <2>1, <2>3, <2>4, <2>5
<1>8. StartOfSearch(net) \in I
  BY SearchStarts DEF SearchInv
<1>9. Loops(g, D, next, stop)
  BY <1>2, <1>3
<1> HIDE DEF D, stop, next, g, I, a, b, c
<1>10. g[StartOfSearch(net)] \in I \cap stop
  BY <1>6, <1>7, <1>8, <1>9, LoopStops
<1>11. QED
  BY <1>4, <1>10 DEF I, stop

\* The way back from a node to the source.
WayBack(previous, v) == Trail(previous, {0}, v)
StepsBack(previous, v) == {<<previous[x], x>> : x \in WayBack(previous, v) \ {0}}
IsTree(n, R, previous) ==
    /\ n \in Nat /\ previous \in [0..n -> 0..n]
    /\ R \in SUBSET (0..n) /\ 0 \in R
    /\ \A v \in R \ {0} : previous[v] \in R
    /\ Rooted(R, previous)

LEMMA WayBackIs ==
    ASSUME NEW n, NEW R, NEW previous, IsTree(n, R, previous), NEW v \in 0..n
    PROVE  /\ WayBack(previous, v) \in SUBSET (0..n)
           /\ v \in WayBack(previous, v)
           /\ WayBack(previous, 0) = {0}
           /\ v # 0 => WayBack(previous, v) = {v} \cup WayBack(previous, previous[v])
           /\ \A x \in WayBack(previous, v) \ {0} : previous[x] \in WayBack(previous, v)
           /\ \A A \in SUBSET (0..n) : v \in A /\ (\A x \in A \ {0} : previous[x] \in A)
                                          => WayBack(previous, v) \subseteq A
           /\ v \in R => WayBack(previous, v) \subseteq R
<1>1. previous \in [0..n -> 0..n] /\ R \in SUBSET (0..n) /\ 0 \in 0..n
      /\ \A x \in R \ {0} : previous[x] \in R
  BY DEF IsTree
<1>2. /\ Trail(previous, {0}, v) \in SUBSET (0..n)
      /\ v \in Trail(previous, {0}, v)
      /\ Closed(Trail(previous, {0}, v), previous, {0})
      /\ \A A \in SUBSET (0..n) : v \in A /\ Closed(A, previous, {0})
                                     => Trail(previous, {0}, v) \subseteq A
  BY <1>1, TrailIs
<1>3. /\ Trail(previous, {0}, 0) = {0}
      /\ v # 0 => Trail(previous, {0}, v) = {v} \cup Trail(previous, {0}, previous[v])
  <2> DEFINE D == 0..n
             stop == {0}
  <2>1. \A w \in D : Trail(previous, stop, w) =
            IF w \in stop THEN {w} ELSE {w} \cup Trail(previous, stop, previous[w])
    <3>1. previous \in [D -> D]
      BY <1>1
    <3> HIDE DEF D, stop
    <3>2. TAKE w \in D
    <3>3. QED
      BY <3>1, TrailGoesOn
  <2>2. QED
    BY <1>1, <2>1
<1>4. v \in R => Trail(previous, {0}, v) \subseteq R
  BY <1>1, <1>2 DEF Closed
<1>5. QED
  BY <1>2, <1>3, <1>4 DEF WayBack, Closed

\* Nothing comes back to itself, and everything comes back to the source.
LEMMA NoReturn ==
    ASSUME NEW n, NEW R, NEW previous, IsTree(n, R, previous), NEW v \in R \ {0}
    PROVE  v \notin WayBack(previous, previous[v])
<1>1. SUFFICES ASSUME v \in WayBack(previous, previous[v]) PROVE FALSE
  OBVIOUS
<1>2. previous \in [0..n -> 0..n] /\ R \in SUBSET (0..n) /\ Rooted(R, previous)
      /\ \A x \in R \ {0} : previous[x] \in R
  BY DEF IsTree
<1> DEFINE C == {y \in R \ {0} : v \in WayBack(previous, y)}
<1>3. v \in C
  BY <1>2, WayBackIs
<1>4. ASSUME NEW y \in C
      PROVE  previous[y] \in C
  <2>1. y \in R \ {0} /\ y \in 0..n /\ previous[y] \in 0..n /\ previous[y] \in R
    BY <1>2
  <2>2. v \in WayBack(previous, previous[y])
    <3>1. CASE y = v
      BY <1>1, <3>1
    <3>2. CASE y # v
      <4>1. WayBack(previous, y) = {y} \cup WayBack(previous, previous[y])
        BY <2>1, WayBackIs
      <4>2. QED
        BY <3>2, <4>1
    <3>3. QED
      BY <3>1, <3>2
  <2>3. previous[y] # 0
    <3>1. WayBack(previous, 0) = {0}
      BY <2>1, WayBackIs
    <3>2. QED
      BY <2>2, <3>1
  <2>4. QED
    BY <2>1, <2>2, <2>3
<1>5. C \in SUBSET (R \ {0}) /\ C # {}
  BY <1>3
<1>6. QED
  BY <1>2, <1>4, <1>5 DEF Rooted

\* Of two nodes on the way back, one is on the way back from the other.
LEMMA WayBackIsLine ==
    ASSUME NEW n, NEW R, NEW previous, IsTree(n, R, previous), NEW v \in R
    PROVE  /\ 0 \in WayBack(previous, v)
           /\ \A x, y \in WayBack(previous, v) :
                 x \in WayBack(previous, y) \/ y \in WayBack(previous, x)
<1> DEFINE Line(w) == /\ 0 \in WayBack(previous, w)
                      /\ \A x, y \in WayBack(previous, w) :
                            x \in WayBack(previous, y) \/ y \in WayBack(previous, x)
           C == {w \in R \ {0} : ~Line(w)}
<1>1. previous \in [0..n -> 0..n] /\ R \in SUBSET (0..n) /\ Rooted(R, previous)
      /\ \A x \in R \ {0} : previous[x] \in R
  BY DEF IsTree
<1>2. WayBack(previous, 0) = {0}
  BY <1>1, WayBackIs
<1>3. Line(0)
  BY <1>2
<1>4. C = {}
  <2>1. SUFFICES ASSUME C # {} PROVE FALSE
    OBVIOUS
  <2>2. PICK w \in C : previous[w] \notin C
    <3>1. C \in SUBSET (R \ {0})
      OBVIOUS
    <3> HIDE DEF C
    <3>2. QED
      BY <1>1, <2>1, <3>1 DEF Rooted
  <2>3. w \in R \ {0} /\ w \in 0..n /\ previous[w] \in R /\ ~Line(w)
    BY <1>1
  <2>4. Line(previous[w])
    BY <1>3, <2>2, <2>3
  <2>5. WayBack(previous, w) = {w} \cup WayBack(previous, previous[w])
    BY <2>3, WayBackIs
  <2>6. Line(w)
    BY <2>4, <2>5
  <2>7. QED
    BY <2>3, <2>6
<1>5. Line(v)
  BY <1>3, <1>4
<1>6. QED
  BY <1>5

Pathing(path, previous) ==
    path = [v \in DOMAIN previous |->
                IF v = 0 THEN {} ELSE {<<previous[v], v>>} \cup path[previous[v]]]

\* The path to a node consists of the steps back from it.
LEMMA PathIs ==
    ASSUME NEW n, NEW R, NEW previous, IsTree(n, R, previous), NEW v \in R
    PROVE  PathTo(previous, v) = StepsBack(previous, v)
<1>1. previous \in [0..n -> 0..n] /\ R \in SUBSET (0..n) /\ Rooted(R, previous)
      /\ DOMAIN previous = 0..n /\ \A x \in R \ {0} : previous[x] \in R
  BY DEF IsTree
<1>2. /\ StepsBack(previous, 0) = {}
      /\ \A w \in 0..n : w # 0 => StepsBack(previous, w) =
                                     {<<previous[w], w>>} \cup StepsBack(previous, previous[w])
  <2>1. WayBack(previous, 0) = {0}
    BY <1>1, WayBackIs
  <2>2. \A w \in 0..n : w # 0 => WayBack(previous, w) = {w} \cup WayBack(previous, previous[w])
    BY WayBackIs
  <2>3. QED
    BY <2>1, <2>2 DEF StepsBack
<1> DEFINE steps == [w \in 0..n |-> StepsBack(previous, w)]
           path == CHOOSE p : Pathing(p, previous)
<1>3. Pathing(path, previous)
  <2>1. \A w \in 0..n : steps[w] = IF w = 0 THEN {} ELSE {<<previous[w], w>>} \cup steps[previous[w]]
    BY <1>1, <1>2
  <2>2. steps = [w \in 0..n |-> steps[w]]
    OBVIOUS
  <2> HIDE DEF steps
  <2>3. Pathing(steps, previous)
    BY <1>1, <2>1, <2>2 DEF Pathing
  <2>4. QED
    BY <2>3
<1>4. PathTo(previous, v) = path[v]
  BY DEF PathTo, Pathing
<1> HIDE DEF path
<1>5. \A w \in 0..n : path[w] = IF w = 0 THEN {} ELSE {<<previous[w], w>>} \cup path[previous[w]]
  BY <1>1, <1>3 DEF Pathing
<1> DEFINE C == {w \in R \ {0} : path[w] # StepsBack(previous, w)}
<1>6. C = {}
  <2>1. SUFFICES ASSUME C # {} PROVE FALSE
    OBVIOUS
  <2>2. PICK w \in C : previous[w] \notin C
    <3>1. C \in SUBSET (R \ {0})
      OBVIOUS
    <3> HIDE DEF C
    <3>2. QED
      BY <1>1, <2>1, <3>1 DEF Rooted
  <2>3. w \in R \ {0} /\ w \in 0..n /\ previous[w] \in R /\ path[w] # StepsBack(previous, w)
    BY <1>1
  <2>4. path[previous[w]] = StepsBack(previous, previous[w])
    BY <1>1, <1>2, <1>5, <2>2, <2>3
  <2>5. QED
    BY <1>2, <1>5, <2>3, <2>4
<1>7. path[v] = StepsBack(previous, v)
  BY <1>1, <1>2, <1>5, <1>6
<1>8. QED
  BY <1>4, <1>7

\* On the path every node but the last has one step out, and it never returns.
LEMMA PathIsLine ==
    ASSUME NEW n, NEW R, NEW previous, IsTree(n, R, previous), NEW v \in R \ {0}
    PROVE  LET A == WayBack(previous, v)
           IN  /\ A \subseteq R /\ 0 \in A /\ v \in A
               /\ \A x \in A \ {0} : /\ previous[x] \in A /\ previous[x] # v
                                     /\ previous[x] # 0 => previous[previous[x]] # x
               /\ \A x \in A \ {v} : \E y \in A \ {0} : previous[y] = x
               /\ \A x, y \in A \ {0} : previous[x] = previous[y] => x = y
<1> DEFINE A == WayBack(previous, v)
<1>1. previous \in [0..n -> 0..n] /\ R \in SUBSET (0..n) /\ v \in 0..n
      /\ \A x \in R \ {0} : previous[x] \in R
  BY DEF IsTree
<1>2. /\ A \subseteq R /\ v \in A /\ A \in SUBSET (0..n)
      /\ \A x \in A \ {0} : previous[x] \in A
      /\ \A B \in SUBSET (0..n) : v \in B /\ (\A x \in B \ {0} : previous[x] \in B) => A \subseteq B
  BY <1>1, WayBackIs
<1>3. 0 \in A /\ \A x, y \in A : x \in WayBack(previous, y) \/ y \in WayBack(previous, x)
  BY WayBackIsLine
<1> HIDE DEF A
<1>4. \A x \in A \ {0} : /\ x \notin WayBack(previous, previous[x])
                         /\ WayBack(previous, x) = {x} \cup WayBack(previous, previous[x])
  <2>1. \A x \in R \ {0} : x \notin WayBack(previous, previous[x])
    BY NoReturn
  <2>2. \A x \in 0..n : x # 0 => WayBack(previous, x) = {x} \cup WayBack(previous, previous[x])
    BY WayBackIs
  <2>3. QED
    BY <1>1, <1>2, <2>1, <2>2
<1>5. ASSUME NEW x \in A \ {0}, NEW y \in A \ {0}, previous[x] = previous[y]
      PROVE  x = y
  BY <1>3, <1>4, <1>5
<1>6. ASSUME NEW x \in A \ {0}
      PROVE  previous[x] # v
  <2>1. SUFFICES ASSUME previous[x] = v PROVE FALSE
    OBVIOUS
  <2>2. x \notin WayBack(previous, v)
    BY <1>4, <2>1
  <2>3. QED
    BY <2>2 DEF A
<1>7. ASSUME NEW x \in A \ {0}, previous[x] # 0
      PROVE  previous[previous[x]] # x
  <2>1. SUFFICES ASSUME previous[previous[x]] = x PROVE FALSE
    OBVIOUS
  <2> DEFINE y == previous[x]
  <2>2. y \in A /\ y \in 0..n /\ previous[y] \in 0..n
    BY <1>1, <1>2
  <2>3. y \in A \ {0}
    BY <1>7, <2>2
  <2>4. WayBack(previous, y) = {y} \cup WayBack(previous, x)
    BY <1>4, <2>1, <2>3
  <2>5. x \in WayBack(previous, x)
    BY <1>2, WayBackIs
  <2>6. QED
    BY <1>4, <2>4, <2>5
<1>8. ASSUME NEW x \in A \ {v}
      PROVE  \E y \in A \ {0} : previous[y] = x
  <2>1. SUFFICES ASSUME \A y \in A \ {0} : previous[y] # x PROVE FALSE
    OBVIOUS
  <2> DEFINE B == A \ {x}
  <2>2. B \in SUBSET (0..n) /\ v \in B /\ \A y \in B \ {0} : previous[y] \in B
    BY <1>2, <2>1
  <2>3. A \subseteq B
    BY <1>2, <2>2
  <2>4. QED
    BY <2>3
<1>9. QED
  BY <1>2, <1>3, <1>5, <1>6, <1>7, <1>8 DEF A

-------------------------------------------------------------------------------
(* The flow. *)

\* The source leads to every player, players to slots and slots to the sink.
FlowNet(net) ==
    /\ net.players \in Nat /\ net.sink \in Nat /\ net.players < net.sink
    /\ \A i \in 1..net.players : net.pts[i] \in Int
    /\ {0} \X (1..net.players) \subseteq net.edges
    /\ net.edges \subseteq ({0} \X (1..net.players))
                           \cup ((1..net.players) \X ((net.players + 1)..(net.sink - 1)))
                           \cup (((net.players + 1)..(net.sink - 1)) \X {net.sink})

LEMMA FlowNetIsNet ==
    ASSUME NEW net, FlowNet(net)
    PROVE  /\ IsNet(net)
           /\ net.edges \subseteq (0..net.sink) \X (0..net.sink)
<1>1. net.players \in Nat /\ net.sink \in Nat /\ net.players < net.sink
      /\ \A i \in 1..net.players : net.pts[i] \in Int
  BY DEF FlowNet
<1>2. ASSUME NEW u \in 0..net.sink, NEW v \in 0..net.sink
      PROVE  EdgeCost(net, u, v) \in Int /\ EdgeCost(net, u, v) + EdgeCost(net, v, u) = 0
  <2>1. CASE u \in 1..net.players /\ v > net.players
    <3>1. EdgeCost(net, u, v) = -net.pts[u] /\ EdgeCost(net, v, u) = net.pts[u]
      BY <1>1, <2>1 DEF EdgeCost
    <3>2. QED
      BY <1>1, <2>1, <3>1
  <2>2. CASE v \in 1..net.players /\ u > net.players
    <3>1. EdgeCost(net, v, u) = -net.pts[v] /\ EdgeCost(net, u, v) = net.pts[v]
      BY <1>1, <2>2 DEF EdgeCost
    <3>2. QED
      BY <1>1, <2>2, <3>1
  <2>3. CASE /\ ~(u \in 1..net.players /\ v > net.players)
             /\ ~(v \in 1..net.players /\ u > net.players)
    <3>1. EdgeCost(net, v, u) = 0
      BY <2>3 DEF EdgeCost
    <3>2. EdgeCost(net, u, v) = 0
      BY <2>3 DEF EdgeCost
    <3>3. QED
      BY <3>1, <3>2
  <2>4. QED
    BY <2>1, <2>2, <2>3
<1>3. net.edges \subseteq (0..net.sink) \X (0..net.sink)
  <2>1. 0 \in 0..net.sink /\ net.sink \in 0..net.sink
        /\ 1..net.players \subseteq 0..net.sink
        /\ (net.players + 1)..(net.sink - 1) \subseteq 0..net.sink
    BY <1>1
  <2>2. QED
    BY <2>1 DEF FlowNet
<1>4. QED
  BY <1>1, <1>2, <1>3 DEF IsNet

\* What the three kinds of edges cost.
LEMMA FlowCosts ==
    ASSUME NEW net, FlowNet(net), NEW i \in 1..net.players,
           NEW a \in (net.players + 1)..net.sink
    PROVE  /\ EdgeCost(net, 0, i) = 0 /\ EdgeCost(net, i, 0) = 0
           /\ EdgeCost(net, i, a) = -net.pts[i] /\ EdgeCost(net, a, i) = net.pts[i]
           /\ EdgeCost(net, a, net.sink) = 0
<1>1. net.players \in Nat /\ net.sink \in Nat /\ net.players < net.sink
  BY DEF FlowNet
<1>2. i \in 1..net.players /\ a > net.players /\ a \notin 1..net.players
      /\ 0 \notin 1..net.players /\ ~(0 > net.players)
      /\ net.sink > net.players /\ net.sink \notin 1..net.players /\ ~(i > net.players)
  BY <1>1
<1>3. QED
  BY <1>2 DEF EdgeCost

\* The residual edges lead one way or the other along an edge.
LEMMA ResidualIs ==
    ASSUME NEW net, FlowNet(net), NEW used \in SUBSET net.edges
    PROVE  /\ ResidualEdges(net, used) \subseteq (0..net.sink) \X (0..net.sink)
           /\ \A u, v : <<u, v>> \in ResidualEdges(net, used) <=>
                  (<<u, v>> \in net.edges \ used \/ <<v, u>> \in used)
<1>1. net.edges \subseteq (0..net.sink) \X (0..net.sink)
  BY FlowNetIsNet
<1> DEFINE N == 0..net.sink
<1>2. net.edges \subseteq N \X N
  BY <1>1
<1> HIDE DEF N
<1>3. \A e \in used : e = <<e[1], e[2]>> /\ e[1] \in N /\ e[2] \in N
  BY <1>2
<1>4. ResidualEdges(net, used) \subseteq N \X N
  BY <1>2, <1>3 DEF ResidualEdges
<1>5. ASSUME NEW u, NEW v
      PROVE  <<u, v>> \in {<<e[2], e[1]>> : e \in used} <=> <<v, u>> \in used
  BY <1>3
<1>6. QED
  BY <1>4, <1>5 DEF ResidualEdges, N

\* A number of tokens is no more than all of them.
LEMMA TokensBound ==
    ASSUME NEW S, IsFiniteSet(S), NEW w, \A x \in S : w[x] \in Int, NEW x \in S
    PROVE  w[x] <= Cardinality(Tokens(w, S))
<1>1. Cardinality(Tokens(w, S)) = (IF w[x] > 0 THEN w[x] ELSE 0) + Cardinality(Tokens(w, S \ {x}))
  BY TokensCount
<1>2. IsFiniteSet(S \ {x}) /\ \A y \in S \ {x} : w[y] \in Int
  BY FS_RemoveElement
<1>3. Cardinality(Tokens(w, S \ {x})) \in Nat
  BY <1>2, TokensCount
<1>4. w[x] \in Int
  OBVIOUS
<1>5. QED
  BY <1>1, <1>3, <1>4

\* No cycle of what is left of the network has a negative cost, and a player has an
\* edge to a slot in use, and one only, where the edge to the player is; a slot is
\* in use by one player where its edge to the sink is.
Carries(net, used, i) ==
    /\ <<0, i>> \in used <=> \E a : <<i, a>> \in used
    /\ \A a, b : <<i, a>> \in used /\ <<i, b>> \in used => a = b
Serves(net, used, a) ==
    /\ <<a, net.sink>> \in used <=> \E i : <<i, a>> \in used
    /\ \A i, k : <<i, a>> \in used /\ <<k, a>> \in used => i = k
FlowInv(net, used) ==
    /\ used \in SUBSET net.edges
    /\ \E pi : Potential(net, ResidualEdges(net, used), pi)
    /\ \A i \in 1..net.players : Carries(net, used, i)
    /\ \A a \in (net.players + 1)..(net.sink - 1) : Serves(net, used, a)

LEMMA FlowStarts ==
    ASSUME NEW net, FlowNet(net)
    PROVE  FlowInv(net, {})
<1> DEFINE n == net.players
           most == Cardinality(Tokens(net.pts, 1..n))
           pi == [v \in 0..net.sink |-> IF v <= n THEN 0 ELSE -most]
           E == ResidualEdges(net, {})
<1>1. /\ n \in Nat /\ net.sink \in Nat /\ n < net.sink
      /\ \A i \in 1..n : net.pts[i] \in Int
      /\ net.edges \subseteq ({0} \X (1..n)) \cup ((1..n) \X ((n + 1)..(net.sink - 1)))
                             \cup (((n + 1)..(net.sink - 1)) \X {net.sink})
  BY DEF FlowNet
<1>2. IsFiniteSet(1..n)
  BY <1>1, FS_Interval, 1 \in Int, n \in Int
<1>3. most \in Nat /\ \A i \in 1..n : net.pts[i] <= most
  BY <1>1, <1>2, TokensCount, TokensBound
<1>4. E \subseteq (0..net.sink) \X (0..net.sink) /\ \A u, v : <<u, v>> \in E <=> <<u, v>> \in net.edges
  <2>1. {} \in SUBSET net.edges
    OBVIOUS
  <2>2. QED
    BY <2>1, ResidualIs
<1> HIDE DEF most, E, n
<1>5. pi \in [0..net.sink -> Int] /\ pi[0] = 0
  BY <1>1, <1>3
<1>6. ASSUME NEW u \in 0..net.sink, NEW v \in 0..net.sink, <<u, v>> \in E
      PROVE  pi[v] <= pi[u] + EdgeCost(net, u, v)
  <2>1. <<u, v>> \in net.edges
    BY <1>4, <1>6
  <2>2. CASE u = 0 /\ v \in 1..n
    <3>1. EdgeCost(net, 0, v) = 0
      <4>1. net.sink \in (n + 1)..net.sink
        BY <1>1
      <4>2. QED
        BY <2>2, <4>1, FlowCosts DEF n
    <3>2. pi[u] = 0 /\ pi[v] = 0
      BY <1>1, <2>2
    <3>3. QED
      BY <2>2, <3>1, <3>2
  <2>3. CASE u \in 1..n /\ v \in (n + 1)..(net.sink - 1)
    <3>1. v \in (n + 1)..net.sink
      BY <1>1, <2>3
    <3>2. EdgeCost(net, u, v) = -net.pts[u]
      BY <2>3, <3>1, FlowCosts DEF n
    <3>3. pi[u] = 0 /\ pi[v] = -most
      BY <1>1, <2>3
    <3>4. net.pts[u] \in Int /\ net.pts[u] <= most
      BY <1>1, <1>3, <2>3
    <3> HIDE DEF pi
    <3>5. QED
      BY <1>3, <3>2, <3>3, <3>4
  <2>4. CASE u \in (n + 1)..(net.sink - 1) /\ v = net.sink
    <3>1. EdgeCost(net, u, v) = 0
      <4>1. u \in 0..net.sink /\ ~(u \in 1..n) /\ ~(net.sink \in 1..n)
        BY <1>1, <2>4
      <4>2. QED
        BY <2>4, <4>1 DEF EdgeCost, n
    <3>2. pi[u] = -most /\ pi[v] = -most
      BY <1>1, <2>4
    <3> HIDE DEF pi
    <3>3. QED
      BY <1>3, <3>1, <3>2
  <2>5. QED
    BY <1>1, <2>1, <2>2, <2>3, <2>4
<1>7. Potential(net, E, pi)
  BY <1>4, <1>5, <1>6 DEF Potential
<1>8. QED
  BY <1>7 DEF FlowInv, Carries, Serves, E

\* What the search leaves: a tree of shortest paths to all that can be reached.
LEMMA SearchFinds ==
    ASSUME NEW net, IsNet(net), NEW E, NEW pi, Potential(net, E, pi),
           NEW s, s = ShortestPaths(net, E)
    PROVE  /\ IsTree(net.sink, s.reached, s.previous)
           /\ s.distance \in [0..net.sink -> Int] /\ s.distance[0] = 0
           /\ \A v \in s.reached \ {0} :
                 /\ <<s.previous[v], v>> \in E
                 /\ s.distance[v] >= s.distance[s.previous[v]] + EdgeCost(net, s.previous[v], v)
           /\ \A u \in s.reached, v \in 0..net.sink :
                 <<u, v>> \in E => /\ v \in s.reached
                                   /\ s.distance[v] <= s.distance[u] + EdgeCost(net, u, v)
<1>1. SearchInv(net, E, pi, s) /\ s.queue = <<>>
  BY SearchEnds
<1>2. s.reached \ Range(s.queue) = s.reached
  BY <1>1 DEF Range
<1>3. s \in Searches(net)
  BY <1>1 DEF SearchInv
<1>4. /\ s.distance \in [0..net.sink -> Int] /\ s.previous \in [0..net.sink -> 0..net.sink]
      /\ s.reached \in SUBSET (0..net.sink)
  BY <1>3 DEF Searches
<1>5. /\ 0 \in s.reached /\ s.distance[0] = 0
      /\ \A v \in s.reached \ {0} :
            /\ s.previous[v] \in s.reached /\ <<s.previous[v], v>> \in E
            /\ s.distance[v] >= s.distance[s.previous[v]] + EdgeCost(net, s.previous[v], v)
      /\ Rooted(s.reached, s.previous)
  BY <1>1 DEF SearchInv
<1>6. \A u \in s.reached \ Range(s.queue) : \A v \in 0..net.sink :
          <<u, v>> \in E => /\ v \in s.reached
                            /\ s.distance[v] <= s.distance[u] + EdgeCost(net, u, v)
  BY <1>1 DEF SearchInv
<1>7. IsTree(net.sink, s.reached, s.previous)
  BY <1>4, <1>5 DEF IsTree, IsNet
<1>8. QED
  BY <1>2, <1>4, <1>5, <1>6, <1>7

\* Augmenting puts the edges of the path to use and takes those it goes back over
\* out of it.
LEMMA AugmentIs ==
    ASSUME NEW net, FlowNet(net), NEW used \in SUBSET net.edges,
           NEW R, NEW previous, IsTree(net.sink, R, previous), NEW v \in R,
           NEW next, next = Augment(net, used, PathTo(previous, v))
    PROVE  /\ next \in SUBSET net.edges
           /\ \A x, y : <<x, y>> \in next <=>
                 /\ ~(x \in WayBack(previous, v) \ {0} /\ y = previous[x])
                 /\ \/ <<x, y>> \in used
                    \/ /\ y \in WayBack(previous, v) \ {0} /\ x = previous[y]
                       /\ <<x, y>> \in net.edges
<1> DEFINE path == PathTo(previous, v)
           A == WayBack(previous, v) \ {0}
<1>1. path = {<<previous[x], x>> : x \in A}
  BY PathIs DEF StepsBack
<1> HIDE DEF path, A
<1>2. next = (used \cup (path \cap net.edges)) \ {<<e[2], e[1]>> : e \in path}
  BY DEF Augment, path
<1>3. \A x, y : <<x, y>> \in path <=> y \in A /\ x = previous[y]
  BY <1>1
<1>4. \A x, y : <<x, y>> \in {<<e[2], e[1]>> : e \in path} <=> <<y, x>> \in path
  <2>1. \A e \in path : e = <<e[1], e[2]>>
    BY <1>1
  <2>2. QED
    BY <2>1
<1>5. \A x, y : <<x, y>> \in next <=>
         /\ <<y, x>> \notin path
         /\ <<x, y>> \in used \/ (<<x, y>> \in path /\ <<x, y>> \in net.edges)
  BY <1>2, <1>4
<1>6. next \in SUBSET net.edges
  BY <1>2
<1>7. \A x, y : <<x, y>> \in next <=>
         /\ ~(x \in A /\ y = previous[x])
         /\ <<x, y>> \in used \/ (y \in A /\ x = previous[y] /\ <<x, y>> \in net.edges)
  BY <1>3, <1>5
<1>8. QED
  BY <1>6, <1>7 DEF A

\* The distances are a potential of what is left after augmenting, since an edge of
\* a shortest path is no longer than it needs to be.
LEMMA AugmentKeepsPotential ==
    ASSUME NEW net, FlowNet(net), NEW used \in SUBSET net.edges,
           NEW pi, Potential(net, ResidualEdges(net, used), pi),
           NEW s, s = ShortestPaths(net, ResidualEdges(net, used)), net.sink \in s.reached,
           NEW next, next = Augment(net, used, PathTo(s.previous, net.sink))
    PROVE  \E rho : Potential(net, ResidualEdges(net, next), rho)
<1> DEFINE N == 0..net.sink
           E == ResidualEdges(net, used)
           F == ResidualEdges(net, next)
           A == WayBack(s.previous, net.sink) \ {0}
           height == [v \in N |-> s.distance[v] - pi[v]]
           most == Cardinality(Tokens(height, s.reached))
           rho == [v \in N |-> IF v \in s.reached THEN s.distance[v] ELSE pi[v] + most]
<1>1. IsNet(net)
  BY FlowNetIsNet
<1>2. /\ IsTree(net.sink, s.reached, s.previous)
      /\ s.distance \in [N -> Int] /\ s.distance[0] = 0
      /\ \A v \in s.reached \ {0} :
            /\ <<s.previous[v], v>> \in E
            /\ s.distance[v] >= s.distance[s.previous[v]] + EdgeCost(net, s.previous[v], v)
      /\ \A u \in s.reached, v \in N :
            <<u, v>> \in E => /\ v \in s.reached
                              /\ s.distance[v] <= s.distance[u] + EdgeCost(net, u, v)
  BY <1>1, SearchFinds
<1>3. /\ next \in SUBSET net.edges
      /\ \A x, y : <<x, y>> \in next <=>
            /\ ~(x \in A /\ y = s.previous[x])
            /\ <<x, y>> \in used \/ (y \in A /\ x = s.previous[y] /\ <<x, y>> \in net.edges)
  BY <1>2, AugmentIs
<1>4. /\ E \subseteq N \X N /\ F \subseteq N \X N
      /\ \A u, v : <<u, v>> \in E <=> (<<u, v>> \in net.edges \ used \/ <<v, u>> \in used)
      /\ \A u, v : <<u, v>> \in F <=> (<<u, v>> \in net.edges \ next \/ <<v, u>> \in next)
  BY <1>3, ResidualIs
<1>5. /\ pi \in [N -> Int] /\ pi[0] = 0
      /\ \A u, v \in N : <<u, v>> \in E => pi[v] <= pi[u] + EdgeCost(net, u, v)
  BY DEF Potential
<1>6. /\ s.reached \in SUBSET N /\ 0 \in s.reached
      /\ A \subseteq s.reached \ {0}
      /\ \A v \in s.reached \ {0} : s.previous[v] \in s.reached
  <2>1. /\ s.reached \in SUBSET N /\ 0 \in s.reached /\ net.sink \in N
        /\ \A v \in s.reached \ {0} : s.previous[v] \in s.reached
    BY <1>2 DEF IsTree
  <2>2. WayBack(s.previous, net.sink) \subseteq s.reached
    BY <1>2, <2>1, WayBackIs
  <2>3. QED
    BY <2>1, <2>2
<1>7. \A v \in N : s.distance[v] \in Int /\ pi[v] \in Int
                   /\ height[v] = s.distance[v] - pi[v] /\ height[v] \in Int
  <2>1. \A v \in N : s.distance[v] \in Int /\ pi[v] \in Int
    BY <1>2, <1>5
  <2>2. \A v \in N : height[v] = s.distance[v] - pi[v]
    OBVIOUS
  <2> HIDE DEF N, height
  <2>3. QED
    BY <2>1, <2>2
<1>8. \A u, v \in N : EdgeCost(net, u, v) \in Int /\ EdgeCost(net, u, v) + EdgeCost(net, v, u) = 0
  BY <1>1 DEF IsNet
<1> HIDE DEF N, E, F, A, height
<1>9. most \in Nat /\ \A v \in s.reached : s.distance[v] <= pi[v] + most
  <2>1. IsFiniteSet(s.reached)
    <3>1. IsFiniteSet(N)
      BY <1>1, FS_Interval, 0 \in Int DEF IsNet, N
    <3>2. QED
      BY <1>6, <3>1, FS_Subset
  <2>2. \A v \in s.reached : height[v] \in Int
    BY <1>6, <1>7
  <2>3. most \in Nat
    BY <2>1, <2>2, TokensCount
  <2>4. \A v \in s.reached : height[v] <= most
    BY <2>1, <2>2, TokensBound
  <2> HIDE DEF most
  <2>5. ASSUME NEW v \in s.reached
        PROVE  s.distance[v] <= pi[v] + most
    <3>1. s.distance[v] \in Int /\ pi[v] \in Int /\ s.distance[v] - pi[v] <= most
      BY <1>6, <1>7, <2>4
    <3>2. QED
      BY <2>3, <3>1
  <2>6. QED
    BY <2>3, <2>5
<1> HIDE DEF most
<1>10. /\ rho \in [N -> Int] /\ rho[0] = 0
       /\ \A v \in s.reached : rho[v] = s.distance[v]
       /\ \A v \in N \ s.reached : rho[v] = pi[v] + most
  BY <1>2, <1>5, <1>6, <1>7, <1>9
<1> HIDE DEF rho
<1>11. ASSUME NEW u \in N, NEW v \in N, <<u, v>> \in E
       PROVE  rho[v] <= rho[u] + EdgeCost(net, u, v)
  <2>1. /\ pi[v] <= pi[u] + EdgeCost(net, u, v) /\ EdgeCost(net, u, v) \in Int
        /\ pi[u] \in Int /\ pi[v] \in Int /\ s.distance[v] \in Int
    BY <1>5, <1>7, <1>8, <1>11
  <2>2. CASE u \in s.reached
    BY <1>2, <1>10, <1>11, <2>2
  <2>3. CASE u \notin s.reached /\ v \in s.reached
    <3>1. rho[v] = s.distance[v] /\ rho[u] = pi[u] + most /\ s.distance[v] <= pi[v] + most
      BY <1>9, <1>10, <2>3
    <3>2. QED
      BY <1>9, <2>1, <3>1
  <2>4. CASE u \notin s.reached /\ v \notin s.reached
    <3>1. rho[v] = pi[v] + most /\ rho[u] = pi[u] + most
      BY <1>10, <2>4
    <3>2. QED
      BY <1>9, <2>1, <3>1
  <2>5. QED
    BY <2>2, <2>3, <2>4
<1>12. ASSUME NEW x \in A
       PROVE  rho[s.previous[x]] <= rho[x] + EdgeCost(net, x, s.previous[x])
  <2> DEFINE y == s.previous[x]
  <2>1. x \in s.reached \ {0} /\ y \in s.reached /\ x \in N /\ y \in N
    BY <1>6
  <2>2. s.distance[x] >= s.distance[y] + EdgeCost(net, y, x)
    BY <1>2, <2>1
  <2> HIDE DEF y
  <2>3. /\ rho[x] = s.distance[x] /\ rho[y] = s.distance[y]
        /\ s.distance[x] \in Int /\ s.distance[y] \in Int
        /\ EdgeCost(net, x, y) \in Int /\ EdgeCost(net, y, x) \in Int
        /\ EdgeCost(net, x, y) + EdgeCost(net, y, x) = 0
    BY <1>7, <1>8, <1>10, <2>1
  <2>4. rho[y] <= rho[x] + EdgeCost(net, x, y)
    BY <2>2, <2>3
  <2>5. QED
    BY <2>4 DEF y
<1>13. ASSUME NEW u \in N, NEW v \in N, <<u, v>> \in F
       PROVE  <<u, v>> \in E \/ (u \in A /\ v = s.previous[u])
  BY <1>3, <1>4, <1>13
<1>14. \A u, v \in N : <<u, v>> \in F => rho[v] <= rho[u] + EdgeCost(net, u, v)
  BY <1>11, <1>12, <1>13
<1>15. Potential(net, F, rho)
  BY <1>4, <1>10, <1>14 DEF Potential, N
<1>16. QED
  BY <1>15 DEF F

\* An edge into or out of a player, or out of the source.
LEMMA FlowEdges ==
    ASSUME NEW net, FlowNet(net), NEW x, NEW y, <<x, y>> \in net.edges
    PROVE  /\ y # 0
           /\ x = 0 => y \in 1..net.players
           /\ y \in 1..net.players => x = 0
<1>1. net.players \in Nat /\ net.sink \in Nat /\ net.players < net.sink
  BY DEF FlowNet
<1>2. \/ x = 0 /\ y \in 1..net.players
      \/ x \in 1..net.players /\ y \in (net.players + 1)..(net.sink - 1)
      \/ x \in (net.players + 1)..(net.sink - 1) /\ y = net.sink
  BY DEF FlowNet
<1>3. QED
  BY <1>1, <1>2

\* An edge out of a slot, or none out of the sink.
LEMMA EdgesOfSlots ==
    ASSUME NEW net, FlowNet(net), NEW a \in (net.players + 1)..(net.sink - 1)
    PROVE  /\ a # 0 /\ a # net.sink /\ a \notin 1..net.players
           /\ \A y : <<a, y>> \in net.edges => y = net.sink
           /\ \A x : <<x, a>> \in net.edges => x \in 1..net.players
           /\ \A y : <<net.sink, y>> \notin net.edges
<1>1. net.players \in Nat /\ net.sink \in Nat /\ net.players < net.sink
  BY DEF FlowNet
<1>2. \A x, y : <<x, y>> \in net.edges =>
         \/ x = 0 /\ y \in 1..net.players
         \/ x \in 1..net.players /\ y \in (net.players + 1)..(net.sink - 1)
         \/ x \in (net.players + 1)..(net.sink - 1) /\ y = net.sink
  BY DEF FlowNet
<1>3. a # 0 /\ a # net.sink /\ a \notin 1..net.players
  BY <1>1
<1>4. net.sink \notin (net.players + 1)..(net.sink - 1) /\ net.sink \notin 1..net.players
      /\ net.sink # 0
  BY <1>1
<1>5. QED
  BY <1>2, <1>3, <1>4

\* A path through a player takes a new edge out of it for the edge into it, which is
\* new or was in use the other way.
LEMMA AugmentKeepsCarries ==
    ASSUME NEW net, FlowNet(net), NEW used \in SUBSET net.edges,
           NEW R, NEW previous, IsTree(net.sink, R, previous), net.sink \in R \ {0},
           \A v \in R \ {0} : <<previous[v], v>> \in ResidualEdges(net, used),
           NEW next, next = Augment(net, used, PathTo(previous, net.sink)),
           NEW i \in 1..net.players, Carries(net, used, i)
    PROVE  Carries(net, next, i)
<1> DEFINE A == WayBack(previous, net.sink)
           E == ResidualEdges(net, used)
<1>1. /\ A \subseteq R /\ 0 \in A /\ net.sink \in A
      /\ \A x \in A \ {0} : /\ previous[x] \in A /\ previous[x] # net.sink
                            /\ previous[x] # 0 => previous[previous[x]] # x
      /\ \A x \in A \ {net.sink} : \E y \in A \ {0} : previous[y] = x
      /\ \A x, y \in A \ {0} : previous[x] = previous[y] => x = y
  BY PathIsLine
<1>2. \A x, y : <<x, y>> \in next <=>
         /\ ~(x \in A \ {0} /\ y = previous[x])
         /\ <<x, y>> \in used \/ (y \in A \ {0} /\ x = previous[y] /\ <<x, y>> \in net.edges)
  <2>1. net.sink \in R
    OBVIOUS
  <2>2. /\ next \in SUBSET net.edges
        /\ \A x, y : <<x, y>> \in next <=>
              /\ ~(x \in A \ {0} /\ y = previous[x])
              /\ <<x, y>> \in used \/ (y \in A \ {0} /\ x = previous[y] /\ <<x, y>> \in net.edges)
    BY <2>1, AugmentIs
  <2>3. QED
    BY <2>2
<1>3. \A x, y : <<x, y>> \in E <=> (<<x, y>> \in net.edges \ used \/ <<y, x>> \in used)
  BY ResidualIs
<1>4. i # 0 /\ i # net.sink
  BY DEF FlowNet
<1>5. \A x, y : <<x, y>> \in net.edges => /\ y # 0
                                          /\ x = 0 => y \in 1..net.players
                                          /\ y \in 1..net.players => x = 0
  BY FlowEdges
<1>6. \A v \in A \ {0} : <<previous[v], v>> \in E
  BY <1>1
<1>7. /\ <<0, i>> \in used <=> \E a : <<i, a>> \in used
      /\ \A a, b : <<i, a>> \in used /\ <<i, b>> \in used => a = b
  BY DEF Carries
<1> HIDE DEF A, E
<1>8. CASE i \notin A
  <2>1. \A a : <<i, a>> \in next <=> <<i, a>> \in used
    BY <1>1, <1>2, <1>8
  <2>2. <<0, i>> \in next <=> <<0, i>> \in used
    BY <1>2, <1>8
  <2>3. QED
    BY <1>7, <2>1, <2>2 DEF Carries
<1>9. CASE i \in A
  <2>1. PICK b \in A \ {0} : previous[b] = i
    BY <1>1, <1>4, <1>9
  <2>2. \A c \in A \ {0} : previous[c] = i => c = b
    BY <1>1, <2>1
  <2>3. b # previous[i]
    BY <1>1, <1>4, <2>1
  <2>4. <<i, b>> \in net.edges
    <3>1. <<i, b>> \in E
      BY <1>6, <2>1
    <3>2. <<b, i>> \notin used
      BY <1>5, <2>1
    <3>3. QED
      BY <1>3, <3>1, <3>2
  <2>5. \A a : <<i, a>> \in next <=> a # previous[i] /\ (<<i, a>> \in used \/ a = b)
    BY <1>2, <1>4, <1>9, <2>1, <2>2, <2>4
  <2>6. <<previous[i], i>> \in E
    BY <1>4, <1>6, <1>9
  <2>7. CASE previous[i] = 0
    <3>1. <<0, i>> \in net.edges \ used
      BY <1>3, <1>5, <2>6, <2>7
    <3>2. \A a : <<i, a>> \notin used
      BY <1>7, <3>1
    <3>3. <<0, i>> \in next
      BY <1>2, <1>4, <1>9, <2>7, <3>1
    <3>4. \A a : <<i, a>> \in next <=> a = b
      BY <2>3, <2>5, <3>2
    <3>5. QED
      BY <3>3, <3>4 DEF Carries
  <2>8. CASE previous[i] # 0
    <3>1. <<i, previous[i]>> \in used
      BY <1>3, <1>5, <2>6, <2>8
    <3>2. \A a : <<i, a>> \in used => a = previous[i]
      BY <1>7, <3>1
    <3>3. <<0, i>> \in used
      BY <1>7, <3>1
    <3>4. <<0, i>> \in next
      BY <1>2, <3>3
    <3>5. \A a : <<i, a>> \in next <=> a = b
      BY <2>3, <2>5, <3>2
    <3>6. QED
      BY <3>4, <3>5 DEF Carries
  <2>9. QED
    BY <2>7, <2>8
<1>10. QED
  BY <1>8, <1>9

\* A path through a slot comes from a player it is given to, and goes on to the sink,
\* or back to the player who had it.
LEMMA AugmentKeepsServes ==
    ASSUME NEW net, FlowNet(net), NEW used \in SUBSET net.edges,
           NEW R, NEW previous, IsTree(net.sink, R, previous), net.sink \in R \ {0},
           \A v \in R \ {0} : <<previous[v], v>> \in ResidualEdges(net, used),
           NEW next, next = Augment(net, used, PathTo(previous, net.sink)),
           NEW a \in (net.players + 1)..(net.sink - 1), Serves(net, used, a)
    PROVE  Serves(net, next, a)
<1> DEFINE A == WayBack(previous, net.sink)
           E == ResidualEdges(net, used)
<1>1. /\ A \subseteq R /\ 0 \in A /\ net.sink \in A
      /\ \A x \in A \ {0} : /\ previous[x] \in A /\ previous[x] # net.sink
                            /\ previous[x] # 0 => previous[previous[x]] # x
      /\ \A x \in A \ {net.sink} : \E y \in A \ {0} : previous[y] = x
      /\ \A x, y \in A \ {0} : previous[x] = previous[y] => x = y
  BY PathIsLine
<1>2. \A x, y : <<x, y>> \in next <=>
         /\ ~(x \in A \ {0} /\ y = previous[x])
         /\ <<x, y>> \in used \/ (y \in A \ {0} /\ x = previous[y] /\ <<x, y>> \in net.edges)
  <2>1. net.sink \in R
    OBVIOUS
  <2>2. /\ next \in SUBSET net.edges
        /\ \A x, y : <<x, y>> \in next <=>
              /\ ~(x \in A \ {0} /\ y = previous[x])
              /\ <<x, y>> \in used \/ (y \in A \ {0} /\ x = previous[y] /\ <<x, y>> \in net.edges)
    BY <2>1, AugmentIs
  <2>3. QED
    BY <2>2
<1>3. \A x, y : <<x, y>> \in E <=> (<<x, y>> \in net.edges \ used \/ <<y, x>> \in used)
  BY ResidualIs
<1>4. /\ a # 0 /\ a # net.sink
      /\ \A y : <<a, y>> \in net.edges => y = net.sink
      /\ \A y : <<net.sink, y>> \notin net.edges
  BY EdgesOfSlots
<1>5. \A v \in A \ {0} : <<previous[v], v>> \in E
  BY <1>1
<1>6. /\ <<a, net.sink>> \in used <=> \E i : <<i, a>> \in used
      /\ \A i, k : <<i, a>> \in used /\ <<k, a>> \in used => i = k
  BY DEF Serves
<1> HIDE DEF A, E
<1>7. CASE a \notin A
  <2>1. \A i : <<i, a>> \in next <=> <<i, a>> \in used
    BY <1>1, <1>2, <1>7
  <2>2. <<a, net.sink>> \in next <=> <<a, net.sink>> \in used
    <3>1. previous[net.sink] # a
      BY <1>1, <1>4, <1>7
    <3>2. QED
      BY <1>2, <1>7, <3>1
  <2>3. QED
    BY <1>6, <2>1, <2>2 DEF Serves
<1>8. CASE a \in A
  <2>1. PICK b \in A \ {0} : previous[b] = a
    BY <1>1, <1>4, <1>8
  <2>2. /\ \A c \in A \ {0} : previous[c] = a => c = b
        /\ b # previous[a] /\ previous[a] # net.sink
    BY <1>1, <1>4, <1>8, <2>1
  <2>3. <<previous[a], a>> \in net.edges \ used
    <3>1. <<previous[a], a>> \in E
      BY <1>4, <1>5, <1>8
    <3>2. <<a, previous[a]>> \notin used
      BY <1>4, <2>2
    <3>3. QED
      BY <1>3, <3>1, <3>2
  <2>4. \A x : <<x, a>> \in next <=> x # b /\ (<<x, a>> \in used \/ x = previous[a])
    BY <1>2, <1>4, <1>8, <2>1, <2>2, <2>3
  <2>5. <<a, b>> \in E
    BY <1>5, <2>1
  <2>6. CASE b = net.sink
    <3>1. <<a, net.sink>> \in net.edges \ used
      BY <1>3, <1>4, <2>5, <2>6
    <3>2. \A x : <<x, a>> \notin used
      BY <1>6, <3>1
    <3>3. \A x : <<x, a>> \in next <=> x = previous[a]
      BY <2>2, <2>4, <3>2
    <3>4. <<a, net.sink>> \in next
      BY <1>2, <2>1, <2>2, <2>6, <3>1
    <3>5. \E x : <<x, a>> \in next
      BY <3>3
    <3>6. \A x, y : <<x, a>> \in next /\ <<y, a>> \in next => x = y
      BY <3>3
    <3>7. QED
      BY <3>4, <3>5, <3>6 DEF Serves
  <2>7. CASE b # net.sink
    <3>1. <<b, a>> \in used
      BY <1>3, <1>4, <2>5, <2>7
    <3>2. \A x : <<x, a>> \in used => x = b
      BY <1>6, <3>1
    <3>3. \A x : <<x, a>> \in next <=> x = previous[a]
      BY <2>2, <2>4, <3>2
    <3>4. <<a, net.sink>> \in next
      <4>1. <<a, net.sink>> \in used
        BY <1>6, <3>1
      <4>2. QED
        BY <1>2, <2>2, <4>1
    <3>5. \E x : <<x, a>> \in next
      BY <3>3
    <3>6. \A x, y : <<x, a>> \in next /\ <<y, a>> \in next => x = y
      BY <3>3
    <3>7. QED
      BY <3>4, <3>5, <3>6 DEF Serves
  <2>8. QED
    BY <2>6, <2>7
<1>9. QED
  BY <1>7, <1>8

\* Each path takes one more player.
Waiting(net, used) == {i \in 1..net.players : <<0, i>> \notin used}

LEMMA AugmentTakesPlayer ==
    ASSUME NEW net, FlowNet(net), NEW used \in SUBSET net.edges,
           NEW R, NEW previous, IsTree(net.sink, R, previous), net.sink \in R \ {0},
           \A v \in R \ {0} : <<previous[v], v>> \in ResidualEdges(net, used),
           NEW next, next = Augment(net, used, PathTo(previous, net.sink))
    PROVE  Cardinality(Waiting(net, next)) < Cardinality(Waiting(net, used))
<1> DEFINE A == WayBack(previous, net.sink)
           E == ResidualEdges(net, used)
<1>1. /\ A \subseteq R /\ 0 \in A
      /\ \A x \in A \ {net.sink} : \E y \in A \ {0} : previous[y] = x
  BY PathIsLine
<1>2. \A x, y : <<x, y>> \in next <=>
         /\ ~(x \in A \ {0} /\ y = previous[x])
         /\ <<x, y>> \in used \/ (y \in A \ {0} /\ x = previous[y] /\ <<x, y>> \in net.edges)
  <2>1. net.sink \in R
    OBVIOUS
  <2>2. /\ next \in SUBSET net.edges
        /\ \A x, y : <<x, y>> \in next <=>
              /\ ~(x \in A \ {0} /\ y = previous[x])
              /\ <<x, y>> \in used \/ (y \in A \ {0} /\ x = previous[y] /\ <<x, y>> \in net.edges)
    BY <2>1, AugmentIs
  <2>3. QED
    BY <2>2
<1>3. \A x, y : <<x, y>> \in E <=> (<<x, y>> \in net.edges \ used \/ <<y, x>> \in used)
  BY ResidualIs
<1>4. \A x, y : <<x, y>> \in net.edges => /\ y # 0
                                          /\ x = 0 => y \in 1..net.players
  BY FlowEdges
<1>5. \A v \in A \ {0} : <<previous[v], v>> \in E
  BY <1>1
<1> HIDE DEF A, E
<1>6. PICK y \in A \ {0} : previous[y] = 0
  BY <1>1
<1>7. <<0, y>> \in net.edges \ used
  <2>1. <<0, y>> \in E
    BY <1>5, <1>6
  <2>2. <<y, 0>> \notin used
    BY <1>4
  <2>3. QED
    BY <1>3, <2>1, <2>2
<1>8. y \in 1..net.players /\ <<0, y>> \in next
  BY <1>2, <1>4, <1>6, <1>7
<1>9. \A i : <<0, i>> \in used => <<0, i>> \in next
  BY <1>2
<1>10. Waiting(net, next) \in SUBSET Waiting(net, used) /\ y \in Waiting(net, used)
       /\ y \notin Waiting(net, next)
  BY <1>7, <1>8, <1>9 DEF Waiting
<1>11. IsFiniteSet(Waiting(net, used))
  <2>1. IsFiniteSet(1..net.players)
    BY FS_Interval, 1 \in Int DEF FlowNet
  <2>2. Waiting(net, used) \in SUBSET (1..net.players)
    BY DEF Waiting
  <2>3. QED
    BY <2>1, <2>2, FS_Subset
<1>12. /\ Cardinality(Waiting(net, next)) <= Cardinality(Waiting(net, used))
       /\ Cardinality(Waiting(net, next)) # Cardinality(Waiting(net, used))
       /\ Cardinality(Waiting(net, next)) \in Nat /\ Cardinality(Waiting(net, used)) \in Nat
  BY <1>10, <1>11, FS_Subset, FS_CardinalityType
<1>13. QED
  BY <1>12

Flowing(flow, net) ==
    flow = [used \in SUBSET net.edges |->
               LET search == ShortestPaths(net, ResidualEdges(net, used))
               IN  IF net.sink \notin search.reached THEN used
                   ELSE flow[Augment(net, used, PathTo(search.previous, net.sink))]]

\* The flow ends, with the potential of the last search.
LEMMA FlowEnds ==
    ASSUME NEW net, FlowNet(net)
    PROVE  /\ FlowInv(net, Flow(net))
           /\ net.sink \notin ShortestPaths(net, ResidualEdges(net, Flow(net))).reached
<1> DEFINE D == SUBSET net.edges
           search(used) == ShortestPaths(net, ResidualEdges(net, used))
           after(used) == Augment(net, used, PathTo(search(used).previous, net.sink))
           stop == {used \in D : net.sink \notin search(used).reached}
           next == [used \in D |-> IF used \in stop THEN used ELSE after(used)]
           g == CHOOSE f : Flowing(f, net)
           I == {used \in D : FlowInv(net, used)}
           a == [used \in I |-> Cardinality(Waiting(net, used))]
           zero == [used \in I |-> 0]
<1>1. \A used \in D : after(used) \in D
  BY DEF Augment
<1>2. next \in [D -> D]
  BY <1>1
<1>3. \A f : Loops(f, D, next, stop) <=> Flowing(f, net)
  <2>1. TAKE f
  <2>2. [used \in D |-> IF used \in stop THEN used ELSE f[next[used]]]
        = [used \in D |-> IF net.sink \notin search(used).reached THEN used ELSE f[after(used)]]
    <3>1. \A used \in D : /\ used \in stop <=> net.sink \notin search(used).reached
                          /\ used \notin stop => next[used] = after(used)
      OBVIOUS
    <3> HIDE DEF stop, next, search, after
    <3>2. QED
      BY <3>1
  <2> HIDE DEF stop, next
  <2>3. Loops(f, D, next, stop) <=>
            f = [used \in D |-> IF net.sink \notin search(used).reached THEN used ELSE f[after(used)]]
    BY <2>2 DEF Loops
  <2>4. QED
    BY <2>3 DEF Flowing
<1>4. Flowing(g, net)
  <2> HIDE DEF D, stop, next
  <2>1. \E f : Loops(f, D, next, stop)
    BY <1>2, LoopExists
  <2>2. QED
    BY <1>3, <2>1
<1>5. Flow(net) = g[{}]
  BY DEF Flow, Flowing
<1>6. ASSUME NEW used \in I
      PROVE  Cardinality(Waiting(net, used)) \in Nat
  <2>1. IsFiniteSet(1..net.players)
    BY FS_Interval, 1 \in Int DEF FlowNet
  <2>2. Waiting(net, used) \in SUBSET (1..net.players)
    BY DEF Waiting
  <2>3. IsFiniteSet(Waiting(net, used))
    BY <2>1, <2>2, FS_Subset
  <2>4. QED
    BY <2>3, FS_CardinalityType
<1>7. a \in [I -> Nat] /\ zero \in [I -> Nat] /\ I \in SUBSET D
  BY <1>6
<1>8. ASSUME NEW used \in I \ stop
      PROVE  next[used] \in I /\ a[next[used]] < a[used]
  <2> DEFINE s == search(used)
             E == ResidualEdges(net, used)
             new == after(used)
  <2>1. /\ used \in SUBSET net.edges /\ net.sink \in s.reached /\ FlowInv(net, used)
        /\ next[used] = new
    OBVIOUS
  <2>2. PICK pi : Potential(net, E, pi)
    BY DEF FlowInv
  <2>3. IsNet(net)
    BY FlowNetIsNet
  <2>4. s = ShortestPaths(net, E) /\ new = Augment(net, used, PathTo(s.previous, net.sink))
    OBVIOUS
  <2> HIDE DEF s, new, E, next, search, after
  <2>5. /\ IsTree(net.sink, s.reached, s.previous)
        /\ \A v \in s.reached \ {0} : <<s.previous[v], v>> \in E
    BY <2>2, <2>3, <2>4, SearchFinds
  <2>6. net.sink \in s.reached \ {0}
    BY <2>1 DEF FlowNet
  <2>7. new \in SUBSET net.edges
    BY <2>1, <2>4, <2>5, AugmentIs
  <2>8. \E rho : Potential(net, ResidualEdges(net, new), rho)
    BY <2>1, <2>2, <2>4, AugmentKeepsPotential DEF E
  <2>9. \A i \in 1..net.players : Carries(net, new, i)
    <3>1. TAKE i \in 1..net.players
    <3>2. Carries(net, used, i)
      BY <2>1 DEF FlowInv
    <3>3. QED
      BY <2>1, <2>4, <2>5, <2>6, <3>2, AugmentKeepsCarries DEF E
  <2>10. Cardinality(Waiting(net, new)) < Cardinality(Waiting(net, used))
    BY <2>1, <2>4, <2>5, <2>6, AugmentTakesPlayer DEF E
  <2>11. \A b \in (net.players + 1)..(net.sink - 1) : Serves(net, new, b)
    <3>1. TAKE b \in (net.players + 1)..(net.sink - 1)
    <3>2. Serves(net, used, b)
      BY <2>1 DEF FlowInv
    <3>3. QED
      BY <2>1, <2>4, <2>5, <2>6, <3>2, AugmentKeepsServes DEF E
  <2>12. new \in I
    BY <2>7, <2>8, <2>9, <2>11 DEF FlowInv
  <2>13. QED
    BY <2>1, <2>10, <2>12
<1>9. {} \in I
  BY FlowStarts DEF FlowInv
<1>10. Loops(g, D, next, stop)
  BY <1>3, <1>4
<1> HIDE DEF D, stop, next, g, I, a, zero
<1>11. g[{}] \in I \cap stop
  BY <1>7, <1>8, <1>9, <1>10, LoopStops
<1>12. QED
  BY <1>5, <1>11 DEF I, stop

\* A player without a slot is worth no more than the one in a slot it could fill:
\* the way from the source over the one to the other and back would be a cycle.
LEMMA ExchangeCosts ==
    ASSUME NEW net, FlowNet(net), NEW used, FlowInv(net, used),
           NEW i \in 1..net.players, NEW a, <<i, a>> \in used,
           NEW y \in 1..net.players, <<0, y>> \notin used, <<y, a>> \in net.edges
    PROVE  net.pts[y] <= net.pts[i]
<1> DEFINE E == ResidualEdges(net, used)
<1>1. PICK pi : Potential(net, E, pi)
  BY DEF FlowInv
<1>2. used \in SUBSET net.edges /\ Carries(net, used, i) /\ Carries(net, used, y)
  BY DEF FlowInv
<1>3. \A u, v : <<u, v>> \in E <=> (<<u, v>> \in net.edges \ used \/ <<v, u>> \in used)
  BY <1>2, ResidualIs
<1>4. /\ net.players \in Nat /\ net.sink \in Nat /\ net.players < net.sink
      /\ <<0, y>> \in net.edges
      /\ a \in (net.players + 1)..(net.sink - 1)
  <2>1. /\ net.players \in Nat /\ net.sink \in Nat /\ net.players < net.sink
        /\ {0} \X (1..net.players) \subseteq net.edges
    BY DEF FlowNet
  <2>2. \/ y = 0 /\ a \in 1..net.players
        \/ y \in 1..net.players /\ a \in (net.players + 1)..(net.sink - 1)
        \/ y \in (net.players + 1)..(net.sink - 1) /\ a = net.sink
    BY DEF FlowNet
  <2>3. QED
    BY <2>1, <2>2
<1>5. /\ <<0, y>> \in E /\ <<y, a>> \in E /\ <<a, i>> \in E /\ <<i, 0>> \in E
  <2>1. <<y, a>> \notin used
    BY <1>2 DEF Carries
  <2>2. <<0, i>> \in used
    BY <1>2 DEF Carries
  <2>3. QED
    BY <1>3, <1>4, <2>1, <2>2
<1>6. /\ a \in (net.players + 1)..net.sink
      /\ 0 \in 0..net.sink /\ y \in 0..net.sink /\ a \in 0..net.sink /\ i \in 0..net.sink
  BY <1>4
<1>7. /\ EdgeCost(net, 0, y) = 0 /\ EdgeCost(net, y, a) = -net.pts[y]
      /\ EdgeCost(net, a, i) = net.pts[i] /\ EdgeCost(net, i, 0) = 0
  BY <1>6, FlowCosts
<1>8. /\ pi[y] <= pi[0] + EdgeCost(net, 0, y) /\ pi[a] <= pi[y] + EdgeCost(net, y, a)
      /\ pi[i] <= pi[a] + EdgeCost(net, a, i) /\ pi[0] <= pi[i] + EdgeCost(net, i, 0)
  BY <1>1, <1>5, <1>6 DEF Potential
<1>9. /\ pi[0] = 0 /\ pi[y] \in Int /\ pi[a] \in Int /\ pi[i] \in Int
      /\ net.pts[y] \in Int /\ net.pts[i] \in Int
  BY <1>1, <1>6 DEF Potential, FlowNet
<1>10. /\ pi[y] <= 0 + 0 /\ pi[a] <= pi[y] + -net.pts[y]
       /\ pi[i] <= pi[a] + net.pts[i] /\ 0 <= pi[i] + 0
  BY <1>7, <1>8, <1>9
<1>11. QED
  BY <1>9, <1>10

IsLine(seq, n) == n \in Nat /\ DOMAIN seq = 1..n /\ Len(seq) = n
IsPriced(ordered, n) == IsLine(ordered, n) /\ \A i \in 1..n : ordered[i].pts \in Int
IsNetworkOf(net, ordered, n, slots, m) ==
    /\ FlowNet(net)
    /\ net.sink = n + m + 1 /\ \A j \in 1..m : <<n + j, net.sink>> \in net.edges
    /\ net.players = n /\ \A i \in 1..n : net.pts[i] = ordered[i].pts
    /\ \A i \in 1..n, j \in 1..m :
          Fits(ordered[i].positions, slots[j]) => <<i, n + j>> \in net.edges
    /\ \A i \in 1..n : \A a : <<i, a>> \in net.edges =>
          \E j \in 1..m : a = n + j /\ Fits(ordered[i].positions, slots[j])

LEMMA NetworkIsFlowNet ==
    ASSUME NEW ordered, NEW n, IsPriced(ordered, n), NEW slots, NEW m, IsLine(slots, m)
    PROVE  IsNetworkOf(Network(ordered, slots), ordered, n, slots, m)
<1> DEFINE net == Network(ordered, slots)
           sink == n + m + 1
           pairs == {y \in (1..n) \X (1..m) : Fits(ordered[y[1]].positions, slots[y[2]])}
           middle == {<<x[1], n + x[2]>> : x \in pairs}
           first == {0} \X (1..n)
           last == ((n + 1)..(sink - 1)) \X {sink}
<1>0. /\ n \in Nat /\ DOMAIN ordered = 1..n /\ Len(ordered) = n
      /\ \A i \in 1..n : ordered[i].pts \in Int
      /\ m \in Nat /\ DOMAIN slots = 1..m /\ Len(slots) = m
  BY DEF IsPriced, IsLine
<1>1. net = [players |-> n, sink |-> sink, pts |-> [i \in 1..n |-> ordered[i].pts],
             edges |-> first \cup middle \cup last]
  BY <1>0 DEF Network
<1>2. /\ net.players = n /\ net.sink = sink /\ \A i \in 1..n : net.pts[i] = ordered[i].pts
      /\ net.edges = first \cup middle \cup last
  BY <1>1
<1>3. \A x \in pairs : x[1] \in 1..n /\ x[2] \in 1..m /\ x = <<x[1], x[2]>>
                       /\ Fits(ordered[x[1]].positions, slots[x[2]])
  OBVIOUS
<1>4. sink \in Nat /\ n < sink /\ \A j \in 1..m : n + j \in (n + 1)..(sink - 1)
  <2>1. sink \in Nat /\ n < sink /\ sink - 1 = n + m
    BY <1>0
  <2>2. \A j \in 1..m : n + j \in (n + 1)..(n + m)
    BY <1>0
  <2>3. QED
    BY <2>1, <2>2
<1>5. ASSUME NEW i \in 1..n, NEW j \in 1..m, Fits(ordered[i].positions, slots[j])
      PROVE  <<i, n + j>> \in middle
  <2>1. <<i, j>> \in pairs /\ <<i, j>>[1] = i /\ <<i, j>>[2] = j
    BY <1>5
  <2> HIDE DEF pairs
  <2>2. QED
    BY <2>1
<1>6. ASSUME NEW i \in 1..n, NEW a, <<i, a>> \in middle
      PROVE  \E j \in 1..m : a = n + j /\ Fits(ordered[i].positions, slots[j])
  <2> HIDE DEF pairs
  <2>1. PICK x \in pairs : <<i, a>> = <<x[1], n + x[2]>>
    BY <1>6
  <2>2. i = x[1] /\ a = n + x[2]
    BY <2>1
  <2>3. QED
    BY <1>3, <2>2
<1>7. middle \subseteq (1..n) \X ((n + 1)..(sink - 1))
  <2> HIDE DEF pairs, sink
  <2>1. QED
    BY <1>3, <1>4
<1>8. ASSUME NEW i \in 1..n, NEW a, <<i, a>> \in net.edges
      PROVE  <<i, a>> \in middle
  <2>1. i # 0 /\ i \notin (n + 1)..(sink - 1)
    BY <1>0
  <2> HIDE DEF net, middle, sink
  <2>2. QED
    BY <1>2, <1>8, <2>1
<1> HIDE DEF net, middle, pairs, sink
<1>9. FlowNet(net)
  <2>1. net.edges \subseteq first \cup ((1..n) \X ((n + 1)..(sink - 1))) \cup last
    BY <1>2, <1>7
  <2>2. first \subseteq net.edges
    BY <1>2
  <2>3. QED
    BY <1>0, <1>2, <1>4, <2>1, <2>2 DEF FlowNet
<1>10. net.sink = n + m + 1 /\ \A j \in 1..m : <<n + j, net.sink>> \in net.edges
  <2>1. sink = n + m + 1
    BY DEF sink
  <2>2. \A j \in 1..m : <<n + j, sink>> \in last
    BY <1>4
  <2> HIDE DEF last, first
  <2>3. QED
    BY <1>2, <2>1, <2>2
<1>11. QED
  BY <1>2, <1>5, <1>6, <1>8, <1>9, <1>10 DEF net, IsNetworkOf

\* A player who is assigned fills a slot that nobody left over would fill better.
LEMMA AssignmentsAreStable ==
    ASSUME NEW ordered, NEW n, IsPriced(ordered, n), NEW slots, NEW m, IsLine(slots, m),
           NEW i \in OptimizedActiveAssignments(ordered, slots)
    PROVE  /\ i \in 1..n
           /\ \E j \in 1..m :
                 /\ Fits(ordered[i].positions, slots[j])
                 /\ \A y \in (1..n) \ OptimizedActiveAssignments(ordered, slots) :
                       Fits(ordered[y].positions, slots[j]) => ordered[y].pts <= ordered[i].pts
<1> DEFINE net == Network(ordered, slots)
           used == Flow(net)
           assigned == OptimizedActiveAssignments(ordered, slots)
<1>1. assigned = {k \in 1..net.players : \E e \in used : e[1] = k}
  <2>1. assigned = IF Cardinality({e \in used : e[1] = 0}) < Len(slots) THEN {}
                   ELSE {k \in 1..net.players : \E e \in used : e[1] = k}
    BY DEF OptimizedActiveAssignments
  <2> HIDE DEF net, used
  <2>2. i \in assigned
    OBVIOUS
  <2> HIDE DEF assigned
  <2>3. QED
    BY <2>1, <2>2
<1>2. /\ FlowNet(net)
      /\ net.players = n /\ \A k \in 1..n : net.pts[k] = ordered[k].pts
      /\ \A k \in 1..n, j \in 1..m :
            Fits(ordered[k].positions, slots[j]) => <<k, n + j>> \in net.edges
      /\ \A k \in 1..n : \A a : <<k, a>> \in net.edges =>
            \E j \in 1..m : a = n + j /\ Fits(ordered[k].positions, slots[j])
  BY NetworkIsFlowNet DEF IsNetworkOf
<1>3. FlowInv(net, used)
  BY <1>2, FlowEnds
<1> HIDE DEF net, used, assigned
<1>4. used \in SUBSET net.edges /\ \A k \in 1..n : Carries(net, used, k)
  BY <1>2, <1>3 DEF FlowInv
<1>5. \A e \in used : e = <<e[1], e[2]>>
  <2> DEFINE N == 0..net.sink
  <2>1. net.edges \subseteq N \X N
    BY <1>2, FlowNetIsNet
  <2> HIDE DEF N
  <2>2. QED
    BY <1>4, <2>1
<1>6. i \in 1..n /\ \E e \in used : e[1] = i
  BY <1>1, <1>2 DEF assigned
<1>7. PICK a : <<i, a>> \in used
  BY <1>5, <1>6
<1>8. PICK j \in 1..m : a = n + j /\ Fits(ordered[i].positions, slots[j])
  BY <1>2, <1>4, <1>6, <1>7
<1>9. ASSUME NEW y \in (1..n) \ assigned, Fits(ordered[y].positions, slots[j])
      PROVE  ordered[y].pts <= ordered[i].pts
  <2>1. \A b : <<y, b>> \notin used
    <3>1. \A b : <<y, b>>[1] = y
      OBVIOUS
    <3>2. QED
      BY <1>1, <1>2, <3>1
  <2>2. <<0, y>> \notin used
    BY <1>4, <2>1 DEF Carries
  <2>3. <<y, a>> \in net.edges
    BY <1>2, <1>8, <1>9
  <2>4. net.pts[y] <= net.pts[i]
    BY <1>2, <1>3, <1>6, <1>7, <2>2, <2>3, ExchangeCosts
  <2>5. QED
    BY <1>2, <1>6, <2>4
<1>10. QED
  BY <1>6, <1>8, <1>9 DEF assigned

-------------------------------------------------------------------------------
(* VorSeparatesStarters. *)

\* No position is worth more to a player than the best one.
LEMMA BestPositionIsGreatest ==
    ASSUME NEW vor, DOMAIN vor \subseteq BasePositions, \A q \in DOMAIN vor : vor[q] \in Int,
           NEW q \in DOMAIN vor
    PROVE  BestPosition(vor) \in DOMAIN vor /\ vor[q] <= vor[BestPosition(vor)]
<1> DEFINE S == DOMAIN vor
           key == [p \in S |-> <<-vor[p], Place(BasePositionOrder, p)>>]
           best == SortedBy(S, key)[1]
<1>1. IsFiniteSet(S)
  BY PositionsAreFinite, FS_Subset
<1>2. ASSUME NEW p \in S
      PROVE  /\ key[p] \in Seq(Int) /\ Len(key[p]) = 2 /\ BasePositionOrder[key[p][2]] = p
             /\ key[p][1] = -vor[p] /\ vor[p] \in Int
  BY PlacesOfPositions
<1>3. q \in S
  OBVIOUS
<1> HIDE DEF key
<1>4. Sortable(S, key)
  BY <1>1, <1>2 DEF Sortable
<1> HIDE DEF S
<1> DEFINE place == PlaceIn(S, key, q)
<1>5. /\ Cardinality(S) \in Nat
      /\ place \in 1..Cardinality(S) /\ SortedBy(S, key)[place] = q
      /\ \A i \in 1..Cardinality(S) : SortedBy(S, key)[i] \in S
      /\ \A i, j \in 1..Cardinality(S) :
            i < j <=> Precedes(key[SortedBy(S, key)[i]], key[SortedBy(S, key)[j]])
  BY <1>3, <1>4, SortedByIsSorted
<1> HIDE DEF place
<1>6. 1 \in 1..Cardinality(S) /\ (place = 1 \/ 1 < place)
  BY <1>5
<1>7. best \in S
  BY <1>5, <1>6
<1>8. CASE place = 1
  <2>1. best = q /\ vor[q] \in Int
    BY <1>2, <1>3, <1>5, <1>8
  <2>2. vor[q] <= vor[best]
    BY <2>1
  <2>3. QED
    BY <1>7, <2>2 DEF BestPosition, S, key
<1>9. CASE 1 < place
  <2>1. Precedes(key[best], key[q])
    BY <1>5, <1>6, <1>9
  <2> HIDE DEF best
  <2>2. key[best][1] <= key[q][1]
    <3>1. /\ key[best] \in Seq(Int) /\ key[q] \in Seq(Int)
          /\ Len(key[best]) >= 1 /\ Len(key[q]) >= 1
      BY <1>2, <1>3, <1>7
    <3>2. QED
      BY <2>1, <3>1, FirstDecides
  <2>3. vor[q] <= vor[best]
    BY <1>2, <1>3, <1>7, <2>2
  <2>4. QED
    BY <1>7, <2>3 DEF BestPosition, S, key, best
<1>10. QED
  BY <1>6, <1>8, <1>9

\* The demanded slots are a line of keys of active slots.
LEMMA DemandIsLine ==
    ASSUME NEW l \in Leagues,
           NEW wanted, wanted = DemandedSlots(ActiveSlotDemand(l.slots, l.teams))
    PROVE  /\ IsLine(wanted, Len(wanted)) /\ wanted \in Seq(ActiveSlotKeys)
           /\ \A j \in 1..Len(wanted) : wanted[j] \in ActiveSlotKeys
<1> DEFINE demand == ActiveSlotDemand(l.slots, l.teams)
           row(k) == {<<k, i>> : i \in 1..demand[k]}
           units == UNION {row(k) : k \in DOMAIN demand}
           key == [u \in units |-> <<Place(SlotOrder, u[1]), u[2]>>]
           order == SortedBy(units, key)
<1>1. DOMAIN demand \subseteq ActiveSlotKeys /\ \A k \in DOMAIN demand : demand[k] \in Int
  <2>1. l.teams \in Nat /\ \A k \in DOMAIN demand : SlotCount(l.slots, k) \in Nat
    BY RoundsAreWhole, SlotCountsAreWhole
  <2>2. \A a, b \in Nat : a * b \in Int
    OBVIOUS
  <2>3. DOMAIN demand \subseteq ActiveSlotKeys
        /\ \A k \in DOMAIN demand : demand[k] = SlotCount(l.slots, k) * l.teams
    BY DEF ActiveSlotDemand
  <2> HIDE DEF demand
  <2>4. QED
    BY <2>1, <2>2, <2>3
<1> HIDE DEF demand
<1>2. \A k \in DOMAIN demand : IsFiniteSet(row(k))
  <2> SUFFICES ASSUME NEW k \in DOMAIN demand PROVE IsFiniteSet(row(k))
    OBVIOUS
  <2> DEFINE I == 1..demand[k]
             f == [i \in I |-> <<k, i>>]
  <2>1. IsFiniteSet(I)
    BY <1>1, FS_Interval
  <2>2. row(k) = {f[i] : i \in I}
    OBVIOUS
  <2> HIDE DEF f, I, row
  <2>3. IsFiniteSet({f[i] : i \in I})
    BY <2>1, FiniteImage
  <2>4. QED
    BY <2>2, <2>3
<1>3. IsFiniteSet(units)
  <2> DEFINE K == DOMAIN demand
             f == [k \in K |-> row(k)]
             rows == {f[k] : k \in K}
  <2>1. \A k \in K : IsFiniteSet(f[k]) /\ f[k] = row(k)
    BY <1>2
  <2>2. units = UNION rows
    <3> HIDE DEF f, row
    <3>1. rows = {row(k) : k \in K}
      BY <2>1
    <3>2. QED
      BY <3>1
  <2> HIDE DEF f, units
  <2>3. IsFiniteSet(K)
    BY <1>1, SlotKeysAreFinite, FS_Subset
  <2> HIDE DEF K
  <2>4. IsFiniteSet(rows) /\ \A T \in rows : IsFiniteSet(T)
    BY <2>1, <2>3, FiniteImage
  <2> HIDE DEF rows
  <2>5. QED
    BY <2>2, <2>4, FS_UNION
<1>4. \A u \in units : /\ u[1] \in ActiveSlotKeys /\ u[2] \in Int /\ u = <<u[1], u[2]>>
  BY <1>1
<1> HIDE DEF units
<1>5. \A u \in units : /\ Place(SlotOrder, u[1]) \in Int
                       /\ SlotOrder[Place(SlotOrder, u[1])] = u[1]
  BY <1>4, PlacesOfSlots
<1>6. \A a, b \in Int : /\ <<a, b>> \in Seq(Int) /\ Len(<<a, b>>) = 2
                        /\ <<a, b>>[1] = a /\ <<a, b>>[2] = b
  OBVIOUS
<1>7. \A u \in units : /\ key[u] \in Seq(Int) /\ Len(key[u]) = 2
                       /\ key[u][1] = Place(SlotOrder, u[1]) /\ key[u][2] = u[2]
  BY <1>4, <1>5, <1>6
<1> HIDE DEF key
<1>8. \A u, v \in units : key[u] = key[v] => u = v
  <2> SUFFICES ASSUME NEW u \in units, NEW v \in units, key[u] = key[v] PROVE u = v
    OBVIOUS
  <2>1. u[1] = v[1] /\ u[2] = v[2]
    BY <1>5, <1>7
  <2>2. QED
    BY <1>4, <2>1
<1>9. Sortable(units, key)
  BY <1>3, <1>7, <1>8 DEF Sortable
<1> DEFINE n == Cardinality(units)
<1>10. n \in Nat /\ DOMAIN order = 1..n /\ \A j \in 1..n : order[j] \in units
  BY <1>9, SortedByIsSorted
<1>11. wanted = [j \in DOMAIN order |-> order[j][1]]
  BY DEF DemandedSlots, demand, units, key
<1> HIDE DEF order, n
<1>12. DOMAIN wanted = 1..n /\ \A j \in 1..n : wanted[j] \in ActiveSlotKeys
  BY <1>4, <1>10, <1>11
<1>13. wanted \in Seq(ActiveSlotKeys)
  <2>1. wanted = [j \in 1..n |-> wanted[j]]
    BY <1>10, <1>11
  <2>2. wanted \in [1..n -> ActiveSlotKeys]
    BY <1>12, <2>1
  <2>3. QED
    BY <1>10, <2>2, SeqDef
<1>14. Len(wanted) \in Nat /\ DOMAIN wanted = 1..Len(wanted)
  BY <1>13
<1>15. Len(wanted) = n
  BY <1>10, <1>13, <1>12
<1>16. QED
  BY <1>12, <1>13, <1>14, <1>15 DEF IsLine

\* A starter is worth its replacement at some position, anybody else is worth no
\* more than the replacement at any.
LEMMA LevelsSeparate ==
    ASSUME NEW l \in Leagues, NEW P \in Pools,
           NEW levels,
           levels = CalculateReplacementLevels(Candidates(Seeds(l, P)), l.slots, l.teams),
           ~levels.failed,
           NEW s \in Seeds(l, P), s.positions # {}
    PROVE  IF s.id \in levels.assigned
           THEN \E q \in s.positions \cap BasePositions : levels.level[q].pts <= s.pts
           ELSE \A q \in s.positions \cap BasePositions : s.pts <= levels.level[q].pts
<1> DEFINE cands == Candidates(Seeds(l, P))
           key == [c \in cands |-> CandidateKey(c)]
           ordered == SortCandidates(cands)
           n == Cardinality(cands)
           wanted == DemandedSlots(ActiveSlotDemand(l.slots, l.teams))
           m == Len(wanted)
           assigned == OptimizedActiveAssignments(ordered, wanted)
           left == [q \in BasePositions |-> ReplacementAt(ordered, assigned, q)]
           c == [id |-> s.id, name |-> s.name, pts |-> s.pts, fppg |-> s.fppg,
                 positions |-> s.positions]
<1>1. /\ \A q \in BasePositions : left[q] # {}
      /\ levels.level = [q \in BasePositions |-> ordered[Min(left[q])]]
      /\ levels.assigned = {ordered[i].id : i \in assigned}
  <2>1. ~(wanted = <<>> \/ assigned = {} \/ \E q \in BasePositions : left[q] = {})
    BY DEF CalculateReplacementLevels
  <2>2. levels = [failed |-> FALSE, demand |-> ActiveSlotDemand(l.slots, l.teams),
                  target |-> DraftedPlayerTarget(l.slots, l.teams),
                  assigned |-> {ordered[i].id : i \in assigned},
                  level |-> [q \in BasePositions |-> ordered[Min(left[q])]]]
    BY <2>1 DEF CalculateReplacementLevels
  <2>3. QED
    BY <2>1, <2>2
<1>2. Sortable(cands, key) /\ \A d \in cands : d.pts \in Int
  BY CandidatesAreSortable
<1>3. c \in cands /\ c.id = s.id /\ c.pts = s.pts /\ c.positions = s.positions
  BY DEF Candidates
<1>4. \A d \in cands : d.id = s.id => d = c
  <2>1. \A d \in cands : \E t \in Seeds(l, P) :
           d = [id |-> t.id, name |-> t.name, pts |-> t.pts, fppg |-> t.fppg,
                positions |-> t.positions]
    BY DEF Candidates
  <2>2. \A t \in Seeds(l, P) : t.id = s.id => t = s
    BY SeedsAreFinite
  <2> HIDE DEF cands
  <2>3. QED
    BY <2>1, <2>2
<1>5. /\ n \in Nat /\ DOMAIN ordered = 1..n /\ ordered \in Seq(cands) /\ Len(ordered) = n
      /\ \A i \in 1..n : ordered[i] \in cands
      /\ PlaceIn(cands, key, c) \in 1..n /\ ordered[PlaceIn(cands, key, c)] = c
      /\ \A i, j \in 1..n : i < j <=> Precedes(key[ordered[i]], key[ordered[j]])
  <2>1. ordered = SortedBy(cands, key)
    BY DEF SortCandidates
  <2> HIDE DEF cands, key, ordered, c
  <2>2. /\ Cardinality(cands) \in Nat
        /\ SortedBy(cands, key) \in Seq(cands)
        /\ Len(SortedBy(cands, key)) = Cardinality(cands)
        /\ DOMAIN SortedBy(cands, key) = 1..Cardinality(cands)
        /\ \A i \in 1..Cardinality(cands) :
              /\ SortedBy(cands, key)[i] \in cands
              /\ PlaceIn(cands, key, SortedBy(cands, key)[i]) = i
        /\ \A x \in cands : /\ PlaceIn(cands, key, x) \in 1..Cardinality(cands)
                            /\ SortedBy(cands, key)[PlaceIn(cands, key, x)] = x
        /\ \A i, j \in 1..Cardinality(cands) :
              i < j <=> Precedes(key[SortedBy(cands, key)[i]], key[SortedBy(cands, key)[j]])
    BY <1>2, SortedByIsSorted
  <2>3. QED
    BY <2>1, <2>2, <1>3
<1>6. \A d \in cands : key[d] \in Seq(Int) /\ Len(key[d]) >= 1 /\ key[d][1] = -d.pts
  <2>1. \A d \in cands : key[d] \in Seq(Int)
    BY <1>2 DEF Sortable
  <2>2. \A d \in cands : key[d] = <<-d.pts, -d.fppg, d.name, d.id>>
    BY DEF CandidateKey
  <2> HIDE DEF key, cands
  <2>3. QED
    BY <2>1, <2>2
<1>7. IsPriced(ordered, n)
  BY <1>2, <1>5 DEF IsPriced, IsLine
<1>8. IsLine(wanted, m) /\ \A j \in 1..m : wanted[j] \in ActiveSlotKeys
  BY DemandIsLine
<1> HIDE DEF cands, key, ordered, n, wanted, m, c
<1>9. \A i \in assigned : /\ i \in 1..n
                          /\ \E j \in 1..m :
                                /\ Fits(ordered[i].positions, wanted[j])
                                /\ \A y \in (1..n) \ assigned :
                                      Fits(ordered[y].positions, wanted[j])
                                          => ordered[y].pts <= ordered[i].pts
  BY <1>7, <1>8, AssignmentsAreStable
<1> HIDE DEF assigned
<1>10. ASSUME NEW q \in BasePositions
       PROVE  /\ Min(left[q]) \in (1..n) \ assigned
              /\ q \in ordered[Min(left[q])].positions
              /\ levels.level[q] = ordered[Min(left[q])]
              /\ \A i \in (1..n) \ assigned : q \in ordered[i].positions => Min(left[q]) <= i
  <2>1. left[q] = {i \in (1..n) \ assigned : q \in ordered[i].positions}
    BY <1>5 DEF ReplacementAt
  <2>2. left[q] \in SUBSET Nat /\ left[q] # {}
    BY <1>1, <1>5, <2>1
  <2> DEFINE L == left[q]
  <2>3. L \in SUBSET Nat /\ L # {}
    BY <2>2
  <2> HIDE DEF L
  <2>4. Min(L) \in L /\ \A i \in L : Min(L) <= i
    BY <2>3, LeastNumber
  <2>5. levels.level[q] = ordered[Min(left[q])]
    BY <1>1
  <2> HIDE DEF left
  <2>6. QED
    BY <2>1, <2>4, <2>5 DEF L
<1> HIDE DEF left
<1>11. CASE s.id \in levels.assigned
  <2>1. PICK i \in assigned : ordered[i].id = s.id
    BY <1>1, <1>11
  <2>2. i \in 1..n /\ ordered[i] = c
    BY <1>4, <1>5, <1>9, <2>1
  <2>3. PICK j \in 1..m :
           /\ Fits(ordered[i].positions, wanted[j])
           /\ \A y \in (1..n) \ assigned :
                 Fits(ordered[y].positions, wanted[j]) => ordered[y].pts <= ordered[i].pts
    BY <1>9, <2>1
  <2>4. PICK q : q \in s.positions /\ q \in SlotPositions[wanted[j]]
    BY <1>3, <2>2, <2>3 DEF Fits
  <2>5. q \in BasePositions
    <3>1. \A k \in ActiveSlotKeys : SlotPositions[k] \subseteq BasePositions
      BY DEF SlotPositions, ActiveSlotKeys, BasePositions
    <3>2. QED
      BY <1>8, <2>4, <3>1
  <2>6. Fits(ordered[Min(left[q])].positions, wanted[j])
    BY <1>10, <2>4, <2>5 DEF Fits
  <2>7. levels.level[q].pts <= s.pts
    BY <1>3, <1>10, <2>2, <2>3, <2>5, <2>6
  <2>8. QED
    BY <1>11, <2>4, <2>5, <2>7
<1>12. CASE s.id \notin levels.assigned
  <2> DEFINE i == PlaceIn(cands, key, c)
  <2>1. i \in (1..n) \ assigned /\ ordered[i] = c
    BY <1>1, <1>3, <1>5, <1>12
  <2> HIDE DEF i
  <2>2. ASSUME NEW q \in s.positions \cap BasePositions
        PROVE  s.pts <= levels.level[q].pts
    <3> DEFINE least == Min(left[q])
    <3>1. least \in 1..n /\ least <= i /\ levels.level[q] = ordered[least]
      BY <1>3, <1>10, <2>1
    <3> HIDE DEF least
    <3>2. /\ ordered[least] \in cands /\ ordered[least].pts \in Int /\ s.pts \in Int
          /\ i \in 1..n /\ c \in cands
      BY <1>2, <1>3, <1>5, <2>1, <3>1
    <3>3. CASE least = i
      BY <1>3, <2>1, <3>1, <3>2, <3>3
    <3>4. CASE least < i
      <4>1. Precedes(key[ordered[least]], key[c])
        BY <1>5, <2>1, <3>1, <3>2, <3>4
      <4>2. key[ordered[least]][1] <= key[c][1]
        BY <1>6, <3>2, <4>1, FirstDecides
      <4>3. -ordered[least].pts <= -s.pts
        BY <1>3, <1>6, <3>2, <4>2
      <4>4. s.pts <= ordered[least].pts
        BY <3>2, <4>3
      <4>5. QED
        BY <3>1, <4>4
    <3>5. least = i \/ least < i
      BY <1>5, <3>1, <3>2
    <3>6. QED
      BY <3>3, <3>4, <3>5
  <2>3. QED
    BY <1>12, <2>2
<1>13. QED
  BY <1>11, <1>12

\* An item of the board is what its player's seed and the levels say.
LEMMA ItemIsReading ==
    ASSUME NEW l \in Leagues, NEW P \in Pools,
           NEW levels,
           levels = CalculateReplacementLevels(Candidates(Seeds(l, P)), l.slots, l.teams),
           ~levels.failed,
           NEW x \in ValuationSnapshot(l, P).items
    PROVE  \E s \in Seeds(l, P) :
               /\ x.id = s.id
               /\ DOMAIN x.vor = s.positions \cap BasePositions
               /\ \A q \in DOMAIN x.vor : x.vor[q] = s.pts - levels.level[q].pts
               /\ DOMAIN x.vor # {} => x.best = BestPosition(x.vor)
<1> DEFINE items == {ReadSeed(s, levels.level) : s \in Seeds(l, P)}
           overall == [y \in items |-> OverallRankKey(y)]
           at(q) == {y \in items : q \in DOMAIN y.vor}
           positional == [q \in BasePositions |-> [y \in at(q) |-> PositionRankKey(y, q)]]
           rank == [y \in items |-> IF HasValue(y) THEN RankIn(items, overall, y) ELSE 0]
           atPos == [y \in items |-> [q \in DOMAIN y.vor |-> RankIn(at(q), positional[q], y)]]
<1>1. ValuationSnapshot(l, P).items = AssignRanks(items)
  BY DEF ValuationSnapshot, Seeds
<1>2. AssignRanks(items) = {[y EXCEPT !.rank = rank[y], !.positionRank = atPos[y]] : y \in items}
  BY DEF AssignRanks
<1> HIDE DEF rank, atPos, items
<1>3. PICK y \in items : x = [y EXCEPT !.rank = rank[y], !.positionRank = atPos[y]]
  BY <1>1, <1>2
<1>4. PICK s \in Seeds(l, P) : y = ReadSeed(s, levels.level)
  BY DEF items
<1> DEFINE vor == [q \in s.positions \cap BasePositions |-> s.pts - levels.level[q].pts]
<1>5. /\ {"id", "vor", "best"} \subseteq DOMAIN y
      /\ y.id = s.id /\ y.vor = vor
      /\ y.best = IF DOMAIN vor = {} THEN "" ELSE BestPosition(vor)
  BY <1>4 DEF ReadSeed
<1> HIDE DEF vor
<1>6. x.id = y.id /\ x.vor = y.vor /\ x.best = y.best
  BY <1>3, <1>5
<1>7. /\ DOMAIN vor = s.positions \cap BasePositions
      /\ \A q \in DOMAIN vor : vor[q] = s.pts - levels.level[q].pts
  BY DEF vor
<1>8. QED
  BY <1>5, <1>6, <1>7

\* The sign of the value over replacement separates the league's starters from the
\* rest, whatever the projections: valuations.service._read on the levels of
\* calculate_replacement_levels.
THEOREM VorSeparatesStartersHolds == Spec => []VorSeparatesStarters
<1>1. Inv => VorSeparatesStarters
  <2> SUFFICES ASSUME Inv, ~board.failed, NEW x \in board.items, HasValue(x)
               PROVE  IF x.id \in board.levels.assigned THEN OverallVor(x) >= 0
                      ELSE \A q \in DOMAIN x.vor : x.vor[q] <= 0
    BY DEF VorSeparatesStarters
  <2> DEFINE levels == CalculateReplacementLevels(Candidates(Seeds(league, pool)),
                                                  league.slots, league.teams)
  <2>1. league \in Leagues /\ pool \in Pools /\ board = ValuationSnapshot(league, pool)
    BY DEF Inv
  <2>2. ~levels.failed /\ board.levels = levels
    <3>1. CASE levels.failed
      BY <2>1, <3>1 DEF ValuationSnapshot, Seeds
    <3>2. CASE ~levels.failed
      BY <2>1, <3>2 DEF ValuationSnapshot, Seeds
    <3>3. QED
      BY <3>1, <3>2
  <2> HIDE DEF levels
  <2>3. PICK s \in Seeds(league, pool) :
           /\ x.id = s.id
           /\ DOMAIN x.vor = s.positions \cap BasePositions
           /\ \A q \in DOMAIN x.vor : x.vor[q] = s.pts - levels.level[q].pts
           /\ DOMAIN x.vor # {} => x.best = BestPosition(x.vor)
    BY <2>1, <2>2, ItemIsReading DEF levels
  <2>4. s.positions # {} /\ x.best = BestPosition(x.vor)
    BY <2>3 DEF HasValue
  <2>5. IF s.id \in levels.assigned
        THEN \E q \in s.positions \cap BasePositions : levels.level[q].pts <= s.pts
        ELSE \A q \in s.positions \cap BasePositions : s.pts <= levels.level[q].pts
    BY <2>1, <2>2, <2>4, LevelsSeparate DEF levels
  <2>6. s.pts \in Int /\ \A q \in BasePositions : levels.level[q].pts \in Int
    <3>1. s.pts \in Int
      BY <2>1, SeedsAreFinite, SeedsAreNumbers
    <3>2. QED
      BY <2>1, <2>2, <3>1, LevelsAreNumbers DEF levels
  <2>7. \A q \in DOMAIN x.vor : /\ x.vor[q] \in Int /\ q \in BasePositions
                                /\ levels.level[q].pts <= s.pts => x.vor[q] >= 0
                                /\ s.pts <= levels.level[q].pts => x.vor[q] <= 0
    <3>1. TAKE q \in DOMAIN x.vor
    <3>2. q \in BasePositions /\ x.vor[q] = s.pts - levels.level[q].pts
      BY <2>3
    <3>3. levels.level[q].pts \in Int
      BY <2>6, <3>2
    <3>4. QED
      BY <2>6, <3>2, <3>3
  <2>8. CASE s.id \in levels.assigned
    <3>1. PICK q \in DOMAIN x.vor : x.vor[q] >= 0 /\ x.vor[q] \in Int
      BY <2>3, <2>5, <2>7, <2>8
    <3>2. DOMAIN x.vor \subseteq BasePositions
      BY <2>7
    <3>3. x.best \in DOMAIN x.vor /\ x.vor[q] <= x.vor[x.best]
      BY <2>4, <2>7, <3>2, BestPositionIsGreatest
    <3>4. x.vor[x.best] \in Int
      BY <2>7, <3>3
    <3>5. OverallVor(x) >= 0
      BY <3>1, <3>3, <3>4 DEF OverallVor
    <3>6. QED
      BY <2>2, <2>3, <2>8, <3>5
  <2>9. CASE s.id \notin levels.assigned
    BY <2>2, <2>3, <2>5, <2>7, <2>9
  <2>10. QED
    BY <2>8, <2>9
<1>2. QED
  BY <1>1, InvHolds, PTL

-------------------------------------------------------------------------------
(* LevelsAreOptimal. *)

\* A total is the total of two parts.
LEMMA TotalSplits ==
    ASSUME NEW S, IsFiniteSet(S), NEW w, \A x \in S : w[x] \in Int, NEW B
    PROVE  /\ Total(w, S) = Total(w, S \cap B) + Total(w, S \ B)
           /\ Total(w, S \cap B) \in Int /\ Total(w, S \ B) \in Int
<1> DEFINE X == S \cap B
           Y == S \ B
           minus == [x \in S |-> -w[x]]
<1>1. IsFiniteSet(X) /\ IsFiniteSet(Y) /\ X \subseteq S /\ Y \subseteq S
      /\ X \cap Y = {} /\ X \cup Y = S
  BY FS_Subset
<1> HIDE DEF X, Y
<1>2. ASSUME NEW v, \A x \in S : v[x] \in Int
      PROVE  /\ Cardinality(Tokens(v, S)) = Cardinality(Tokens(v, X)) + Cardinality(Tokens(v, Y))
             /\ Cardinality(Tokens(v, X)) \in Nat /\ Cardinality(Tokens(v, Y)) \in Nat
  <2>1. Tokens(v, S) = Tokens(v, X) \cup Tokens(v, Y)
    BY <1>1 DEF Tokens
  <2>2. Tokens(v, X) \cap Tokens(v, Y) = {}
    BY <1>1 DEF Tokens
  <2>3. /\ IsFiniteSet(Tokens(v, X)) /\ Cardinality(Tokens(v, X)) \in Nat
        /\ IsFiniteSet(Tokens(v, Y)) /\ Cardinality(Tokens(v, Y)) \in Nat
    BY <1>1, <1>2, TokensCount
  <2>4. Cardinality(Tokens(v, X) \cup Tokens(v, Y)) =
            Cardinality(Tokens(v, X)) + Cardinality(Tokens(v, Y)) - Cardinality({})
    BY <2>2, <2>3, FS_Union
  <2>5. Cardinality({}) = 0
    BY FS_EmptySet
  <2>6. QED
    BY <2>1, <2>3, <2>4, <2>5
<1>3. \A x \in S : minus[x] \in Int
  OBVIOUS
<1>4. /\ Total(w, S) = Cardinality(Tokens(w, S)) - Cardinality(Tokens(minus, S))
      /\ Total(w, X) = Cardinality(Tokens(w, X)) - Cardinality(Tokens(minus, X))
      /\ Total(w, Y) = Cardinality(Tokens(w, Y)) - Cardinality(Tokens(minus, Y))
  <2>1. \A R \in SUBSET S : Tokens([x \in R |-> -w[x]], R) = Tokens(minus, R)
    BY DEF Tokens
  <2> HIDE DEF minus
  <2>2. QED
    BY <1>1, <2>1 DEF Total
<1> HIDE DEF minus
<1>5. /\ Cardinality(Tokens(w, S)) = Cardinality(Tokens(w, X)) + Cardinality(Tokens(w, Y))
      /\ Cardinality(Tokens(w, X)) \in Nat /\ Cardinality(Tokens(w, Y)) \in Nat
  BY <1>2
<1>6. /\ Cardinality(Tokens(minus, S)) = Cardinality(Tokens(minus, X)) + Cardinality(Tokens(minus, Y))
      /\ Cardinality(Tokens(minus, X)) \in Nat /\ Cardinality(Tokens(minus, Y)) \in Nat
  BY <1>2, <1>3
<1>7. QED
  BY <1>4, <1>5, <1>6 DEF X, Y

\* What A has alone is worth nothing, what B has alone is not worth less than that.
LEMMA TotalsExchange ==
    ASSUME NEW A, IsFiniteSet(A), NEW B, IsFiniteSet(B),
           NEW w, \A x \in A \cup B : w[x] \in Int,
           \A x \in A \ B : w[x] <= 0, \A x \in B \ A : w[x] >= 0
    PROVE  /\ Total(w, A) <= Total(w, B)
           /\ Total(w, A) \in Int /\ Total(w, B) \in Int
<1>1. /\ Total(w, A) = Total(w, A \cap B) + Total(w, A \ B)
      /\ Total(w, A \cap B) \in Int /\ Total(w, A \ B) \in Int
  BY TotalSplits
<1>2. /\ Total(w, B) = Total(w, B \cap A) + Total(w, B \ A)
      /\ Total(w, B \cap A) \in Int /\ Total(w, B \ A) \in Int
  BY TotalSplits
<1>3. A \cap B = B \cap A
  OBVIOUS
<1>4. Total(w, B \ A) \in Nat
  <2>1. IsFiniteSet(B \ A) /\ \A x \in B \ A : w[x] \in Nat
    BY FS_Subset
  <2>2. QED
    BY <2>1, TotalIsNatural
<1>5. Total(w, A \ B) <= 0
  <2> DEFINE Y == A \ B
             v == [x \in Y |-> -w[x]]
  <2>1. \A x \in Y : 1..w[x] = {}
    OBVIOUS
  <2>2. Tokens(w, Y) = {}
    BY <2>1 DEF Tokens
  <2>3. IsFiniteSet(Y) /\ \A x \in Y : v[x] \in Int
    BY FS_Subset
  <2>4. Total(w, Y) = Cardinality(Tokens(w, Y)) - Cardinality(Tokens(v, Y))
    BY DEF Total
  <2> HIDE DEF v, Y
  <2>5. Cardinality(Tokens(v, Y)) \in Nat
    BY <2>3, TokensCount
  <2>6. Total(w, Y) <= 0
    BY <2>2, <2>4, <2>5, FS_EmptySet
  <2>7. QED
    BY <2>6 DEF Y
<1>6. QED
  BY <1>1, <1>2, <1>3, <1>4, <1>5

\* Two sums are no more than two others whose terms are no less, place by place.
LEMMA TotalsCompare ==
    ASSUME NEW S, IsFiniteSet(S), NEW a, NEW b, NEW c, NEW d,
           \A x \in S : /\ a[x] \in Int /\ b[x] \in Int /\ c[x] \in Int /\ d[x] \in Int
                        /\ a[x] + b[x] <= c[x] + d[x]
    PROVE  Total(a, S) + Total(b, S) <= Total(c, S) + Total(d, S)
<1> DEFINE Ok(s) == Total(a, s) + Total(b, s) <= Total(c, s) + Total(d, s)
           bad == {s \in SUBSET S : ~Ok(s)}
<1> SUFFICES ASSUME bad # {} PROVE FALSE
  OBVIOUS
<1>1. IsWellFoundedOn(StrictSubsetOrdering(S), FiniteSubsetsOf(S))
  BY FS_StrictSubsetOrderingWellFounded
<1>2. bad \subseteq FiniteSubsetsOf(S)
  BY FS_FiniteSubsetsOfFinite
<1>3. PICK s \in bad : \A t \in bad : ~(<<t, s>> \in StrictSubsetOrdering(S))
  BY <1>1, <1>2, WFMin
<1>4. s \in SUBSET S /\ IsFiniteSet(s) /\ ~Ok(s)
  BY FS_Subset
<1>5. \A t \in SUBSET S : IsFiniteSet(t)
  BY FS_Subset
<1>6. s # {}
  <2>1. SUFFICES ASSUME s = {} PROVE FALSE
    OBVIOUS
  <2>2. Total(a, s) = 0 /\ Total(b, s) = 0 /\ Total(c, s) = 0 /\ Total(d, s) = 0
    BY <1>4, <2>1, TotalAddsUp
  <2>3. QED
    BY <1>4, <2>2
<1>7. PICK x \in s : TRUE
  BY <1>6
<1> DEFINE t == s \ {x}
<1>8. t \in SUBSET S /\ IsFiniteSet(t) /\ <<t, s>> \in StrictSubsetOrdering(S)
  BY <1>4, <1>5 DEF StrictSubsetOrdering
<1>9. Ok(t)
  <2>1. t \notin bad
    BY <1>3, <1>8
  <2> HIDE DEF t, Ok
  <2>2. QED
    BY <1>8, <2>1
<1>10. /\ Total(a, s) = a[x] + Total(a, t) /\ Total(a, t) \in Int /\ a[x] \in Int
  BY <1>4, <1>8, TotalAddsUp
<1>11. /\ Total(b, s) = b[x] + Total(b, t) /\ Total(b, t) \in Int /\ b[x] \in Int
  BY <1>4, <1>8, TotalAddsUp
<1>12. /\ Total(c, s) = c[x] + Total(c, t) /\ Total(c, t) \in Int /\ c[x] \in Int
  BY <1>4, <1>8, TotalAddsUp
<1>13. /\ Total(d, s) = d[x] + Total(d, t) /\ Total(d, t) \in Int /\ d[x] \in Int
  BY <1>4, <1>8, TotalAddsUp
<1>14. a[x] + b[x] <= c[x] + d[x]
  BY <1>4
<1> HIDE DEF t, bad
<1>15. Ok(s)
  BY <1>9, <1>10, <1>11, <1>12, <1>13, <1>14
<1>16. QED
  BY <1>4, <1>15

\* A way to fill the slots with places on the list, no place twice.
Places(g, ordered, n, slots, m) ==
    /\ g \in [1..m -> 1..n]
    /\ \A j \in 1..m : Fits(ordered[g[j]].positions, slots[j])
    /\ \A j, k \in 1..m : g[j] = g[k] => j = k

\* A search that does not reach the sink reaches slots that are taken and, of players
\* in use, those it comes back to: the other players and slots use each other up.
LEMMA FlowIsWhole ==
    ASSUME NEW ordered, NEW n, IsPriced(ordered, n), NEW slots, NEW m, IsLine(slots, m),
           NEW net, IsNetworkOf(net, ordered, n, slots, m),
           NEW used, FlowInv(net, used),
           net.sink \notin ShortestPaths(net, ResidualEdges(net, used)).reached,
           NEW g, Places(g, ordered, n, slots, m)
    PROVE  \A j \in 1..m : <<n + j, net.sink>> \in used
<1> DEFINE E == ResidualEdges(net, used)
           s == ShortestPaths(net, E)
           R == s.reached
           J == {j \in 1..m : n + j \notin R}
           W == {j \in J : <<n + j, net.sink>> \in used}
<1>1. /\ n \in Nat /\ m \in Nat /\ FlowNet(net) /\ net.players = n
      /\ net.sink = n + m + 1 /\ \A j \in 1..m : <<n + j, net.sink>> \in net.edges
      /\ \A i \in 1..n, j \in 1..m :
            Fits(ordered[i].positions, slots[j]) => <<i, n + j>> \in net.edges
      /\ \A i \in 1..n : \A a : <<i, a>> \in net.edges => \E j \in 1..m : a = n + j
  <2>1. n \in Nat /\ m \in Nat
    BY DEF IsPriced, IsLine
  <2>2. \A i \in 1..n : \A a : <<i, a>> \in net.edges =>
            \E j \in 1..m : a = n + j /\ Fits(ordered[i].positions, slots[j])
    BY DEF IsNetworkOf
  <2>3. \A i \in 1..n : \A a : <<i, a>> \in net.edges => \E j \in 1..m : a = n + j
    BY <2>2
  <2>4. QED
    BY <2>1, <2>3 DEF IsNetworkOf
<1>2. PICK pi : Potential(net, E, pi)
  BY DEF FlowInv
<1>3. /\ used \in SUBSET net.edges
      /\ \A i \in 1..n : Carries(net, used, i)
      /\ \A j \in 1..m : Serves(net, used, n + j)
  <2>1. \A j \in 1..m : n + j \in (net.players + 1)..(net.sink - 1)
    BY <1>1
  <2>2. QED
    BY <1>1, <2>1 DEF FlowInv
<1>4. \A u, v : <<u, v>> \in E <=> (<<u, v>> \in net.edges \ used \/ <<v, u>> \in used)
  BY <1>1, <1>3, ResidualIs
<1>5. /\ IsTree(net.sink, R, s.previous)
      /\ \A v \in R \ {0} : <<s.previous[v], v>> \in E
      /\ \A u \in R, v \in 0..net.sink : <<u, v>> \in E => v \in R
  <2>1. IsNet(net) /\ s = ShortestPaths(net, E)
    BY <1>1, FlowNetIsNet
  <2> HIDE DEF E, s
  <2>2. /\ IsTree(net.sink, s.reached, s.previous)
        /\ s.distance \in [0..net.sink -> Int] /\ s.distance[0] = 0
        /\ \A v \in s.reached \ {0} :
              /\ <<s.previous[v], v>> \in E
              /\ s.distance[v] >= s.distance[s.previous[v]] + EdgeCost(net, s.previous[v], v)
        /\ \A u \in s.reached, v \in 0..net.sink :
              <<u, v>> \in E => /\ v \in s.reached
                                /\ s.distance[v] <= s.distance[u] + EdgeCost(net, u, v)
    BY <1>2, <2>1, SearchFinds
  <2>3. QED
    BY <2>2
<1>6. 0 \in R /\ net.sink \notin R /\ \A v \in R \ {0} : s.previous[v] \in R
  BY <1>5 DEF IsTree
<1> HIDE DEF E, s, R
<1>7. /\ \A i \in 1..n : i \in 0..net.sink /\ i # 0 /\ <<0, i>> \in net.edges
      /\ \A j \in 1..m : n + j \in 0..net.sink
      /\ \A x, i : i \in 1..n /\ <<x, i>> \in net.edges => x = 0
  <2>1. {0} \X (1..n) \subseteq net.edges
    BY <1>1 DEF FlowNet
  <2>2. \A x, i : i \in 1..n /\ <<x, i>> \in net.edges => x = 0
    BY <1>1, FlowEdges
  <2>3. QED
    BY <1>1, <2>1, <2>2
<1>8. \A i \in 1..n : /\ <<0, i>> \in used <=> \E a : <<i, a>> \in used
                      /\ \A a, b : <<i, a>> \in used /\ <<i, b>> \in used => a = b
  BY <1>3 DEF Carries
<1>9. \A j \in 1..m : /\ <<n + j, net.sink>> \in used <=> \E i : <<i, n + j>> \in used
                      /\ \A i, k : <<i, n + j>> \in used /\ <<k, n + j>> \in used => i = k
  BY <1>3 DEF Serves
<1>10. /\ g \in [1..m -> 1..n]
       /\ \A j \in 1..m : <<g[j], n + j>> \in net.edges
       /\ \A j, k \in 1..m : g[j] = g[k] => j = k
  BY <1>1 DEF Places
<1>11. \A j \in (1..m) \ J : <<n + j, net.sink>> \in used
  <2>1. TAKE j \in (1..m) \ J
  <2>2. n + j \in R /\ <<n + j, net.sink>> \in net.edges /\ net.sink \in 0..net.sink
    BY <1>1
  <2>3. <<n + j, net.sink>> \notin E
    BY <1>5, <1>6, <2>2
  <2>4. QED
    BY <1>4, <2>2, <2>3
<1>12. \A j \in J : g[j] \notin R
  <2>1. SUFFICES ASSUME NEW j \in J, g[j] \in R PROVE FALSE
    OBVIOUS
  <2> DEFINE a == n + j
             p == s.previous[g[j]]
  <2>2. /\ a \notin R /\ g[j] \in 1..n /\ <<g[j], a>> \in net.edges
        /\ a \in 0..net.sink /\ g[j] # 0
    BY <1>7, <1>10
  <2> HIDE DEF a
  <2>3. <<g[j], a>> \in used
    BY <1>4, <1>5, <2>1, <2>2
  <2>4. p \in R /\ <<p, g[j]>> \in E
    BY <1>5, <1>6, <2>1, <2>2
  <2> HIDE DEF p
  <2>5. CASE <<p, g[j]>> \in net.edges \ used
    BY <1>7, <1>8, <2>2, <2>3, <2>5
  <2>6. CASE <<g[j], p>> \in used
    <3>1. p = a
      BY <1>8, <2>2, <2>3, <2>6
    <3>2. QED
      BY <2>2, <2>4, <3>1
  <2>7. QED
    BY <1>4, <2>4, <2>5, <2>6
<1>13. \A j \in J : \E h \in W : <<g[j], n + h>> \in used
  <2>1. TAKE j \in J
  <2>2. g[j] \in 1..n /\ g[j] \notin R /\ <<0, g[j]>> \in net.edges /\ g[j] \in 0..net.sink
    BY <1>7, <1>10, <1>12
  <2>3. <<0, g[j]>> \in used
    BY <1>4, <1>5, <1>6, <2>2
  <2>4. PICK a : <<g[j], a>> \in used
    BY <1>8, <2>2, <2>3
  <2>5. PICK h \in 1..m : a = n + h
    BY <1>1, <1>3, <2>2, <2>4
  <2>6. <<n + h, g[j]>> \in E
    BY <1>4, <2>4, <2>5
  <2>7. h \in J
    BY <1>5, <2>2, <2>6
  <2>8. <<n + h, net.sink>> \in used
    BY <1>9, <2>4, <2>5
  <2>9. QED
    BY <2>4, <2>5, <2>7, <2>8
<1> DEFINE f == [j \in J |-> CHOOSE h \in W : <<g[j], n + h>> \in used]
<1>14. f \in Injection(J, W)
  <2>1. \A j \in J : f[j] \in W /\ <<g[j], n + f[j]>> \in used
    BY <1>13
  <2>2. f \in [J -> W]
    BY <2>1
  <2> HIDE DEF f
  <2>3. ASSUME NEW j \in J, NEW k \in J, f[j] = f[k] PROVE j = k
    <3>1. f[j] \in 1..m /\ j \in 1..m /\ k \in 1..m
      BY <2>1
    <3>2. g[j] = g[k]
      BY <1>9, <2>1, <2>3, <3>1
    <3>3. QED
      BY <1>10, <3>1, <3>2
  <2>4. QED
    BY <2>2, <2>3 DEF Injection, IsInjective
<1> HIDE DEF f
<1>15. IsFiniteSet(J)
  <2>1. IsFiniteSet(1..m)
    BY <1>1, FS_Interval, 1 \in Int, m \in Int
  <2>2. QED
    BY <2>1, FS_Subset
<1>16. W \in SUBSET J
  OBVIOUS
<1> HIDE DEF J, W
<1>17. Cardinality(J) <= Cardinality(W) /\ IsFiniteSet(W)
  BY <1>14, <1>15, <1>16, FS_Injection, FS_Subset
<1>18. W = J
  <2>1. Cardinality(W) <= Cardinality(J) /\ (Cardinality(W) = Cardinality(J) => W = J)
    BY <1>15, <1>16, FS_Subset
  <2>2. Cardinality(W) \in Nat /\ Cardinality(J) \in Nat
    BY <1>15, <1>17, FS_CardinalityType
  <2>3. QED
    BY <1>17, <2>1, <2>2
<1>19. \A j \in J : <<n + j, net.sink>> \in used
  BY <1>18 DEF W
<1>20. QED
  BY <1>11, <1>19

\* The players in use are worth most: along each slot the potential turns what
\* another player is worth more there into what the players themselves are ahead.
LEMMA FlowIsBest ==
    ASSUME NEW ordered, NEW n, IsPriced(ordered, n), NEW slots, NEW m, IsLine(slots, m),
           NEW net, IsNetworkOf(net, ordered, n, slots, m),
           NEW used, FlowInv(net, used),
           NEW s, Places(s, ordered, n, slots, m), \A j \in 1..m : <<s[j], n + j>> \in used,
           NEW g, Places(g, ordered, n, slots, m)
    PROVE  Total([j \in 1..m |-> ordered[g[j]].pts], 1..m)
               <= Total([j \in 1..m |-> ordered[s[j]].pts], 1..m)
<1> DEFINE E == ResidualEdges(net, used)
<1>1. /\ n \in Nat /\ m \in Nat /\ FlowNet(net) /\ net.players = n /\ net.sink = n + m + 1
      /\ \A i \in 1..n, j \in 1..m :
            Fits(ordered[i].positions, slots[j]) => <<i, n + j>> \in net.edges
      /\ \A i \in 1..n : \A a : <<i, a>> \in net.edges => \E j \in 1..m : a = n + j
      /\ \A i \in 1..n : net.pts[i] = ordered[i].pts /\ ordered[i].pts \in Int
  <2>1. n \in Nat /\ m \in Nat /\ \A i \in 1..n : ordered[i].pts \in Int
    BY DEF IsPriced, IsLine
  <2>2. \A i \in 1..n : \A a : <<i, a>> \in net.edges =>
            \E j \in 1..m : a = n + j /\ Fits(ordered[i].positions, slots[j])
    BY DEF IsNetworkOf
  <2>3. \A i \in 1..n : \A a : <<i, a>> \in net.edges => \E j \in 1..m : a = n + j
    BY <2>2
  <2>4. QED
    BY <2>1, <2>3 DEF IsNetworkOf
<1>2. PICK pi : Potential(net, E, pi)
  BY DEF FlowInv
<1>3. /\ used \in SUBSET net.edges
      /\ \A i \in 1..n : Carries(net, used, i)
      /\ \A j \in 1..m : Serves(net, used, n + j)
  <2>1. \A j \in 1..m : n + j \in (net.players + 1)..(net.sink - 1)
    BY <1>1
  <2>2. QED
    BY <1>1, <2>1 DEF FlowInv
<1>4. \A u, v : <<u, v>> \in E <=> (<<u, v>> \in net.edges \ used \/ <<v, u>> \in used)
  BY <1>1, <1>3, ResidualIs
<1>5. /\ pi \in [0..net.sink -> Int] /\ pi[0] = 0
      /\ \A u, v \in 0..net.sink : <<u, v>> \in E => pi[v] <= pi[u] + EdgeCost(net, u, v)
  BY <1>2 DEF Potential
<1> HIDE DEF E
<1>6. /\ \A i \in 1..n : i \in 0..net.sink /\ <<0, i>> \in net.edges /\ pi[i] \in Int
      /\ \A j \in 1..m : n + j \in 0..net.sink /\ n + j \in (net.players + 1)..net.sink
      /\ 0 \in 0..net.sink
  <2>1. {0} \X (1..n) \subseteq net.edges
    BY <1>1 DEF FlowNet
  <2>2. QED
    BY <1>1, <1>5, <2>1
<1>7. /\ g \in [1..m -> 1..n] /\ s \in [1..m -> 1..n]
      /\ \A j \in 1..m : <<g[j], n + j>> \in net.edges
      /\ \A j, k \in 1..m : g[j] = g[k] => j = k
      /\ \A j, k \in 1..m : s[j] = s[k] => j = k
  BY <1>1 DEF Places
<1>8. ASSUME NEW i \in 1..n
      PROVE  /\ <<0, i>> \notin used => pi[i] <= 0
             /\ <<0, i>> \in used => pi[i] >= 0
  <2>1. EdgeCost(net, 0, i) = 0 /\ EdgeCost(net, i, 0) = 0
    <3>1. net.sink \in (net.players + 1)..net.sink
      BY <1>1
    <3>2. QED
      BY <1>1, <3>1, FlowCosts
  <2>2. /\ <<0, i>> \notin used => <<0, i>> \in E
        /\ <<0, i>> \in used => <<i, 0>> \in E
    BY <1>4, <1>6
  <2>3. /\ <<0, i>> \in E => pi[i] <= pi[0] + EdgeCost(net, 0, i)
        /\ <<i, 0>> \in E => pi[0] <= pi[i] + EdgeCost(net, i, 0)
    BY <1>5, <1>6
  <2>4. pi[i] \in Int
    BY <1>6
  <2>5. QED
    BY <1>5, <2>1, <2>2, <2>3, <2>4
<1>9. ASSUME NEW j \in 1..m
      PROVE  ordered[g[j]].pts + pi[s[j]] <= ordered[s[j]].pts + pi[g[j]]
  <2> DEFINE a == n + j
             x == g[j]
             y == s[j]
  <2>1. /\ x \in 1..n /\ y \in 1..n /\ a \in (net.players + 1)..net.sink
        /\ <<x, a>> \in net.edges /\ <<y, a>> \in used /\ a \in 0..net.sink
        /\ \A i, k : <<i, a>> \in used /\ <<k, a>> \in used => i = k
    BY <1>3, <1>6, <1>7 DEF Serves
  <2> HIDE DEF a, x, y
  <2>2. /\ net.pts[x] = ordered[x].pts /\ net.pts[y] = ordered[y].pts
        /\ ordered[x].pts \in Int /\ ordered[y].pts \in Int
        /\ pi[x] \in Int /\ pi[y] \in Int /\ pi[a] \in Int
        /\ x \in 0..net.sink /\ y \in 0..net.sink
    BY <1>1, <1>5, <1>6, <2>1
  <2>3. CASE x = y
    <3>1. ordered[x].pts + pi[y] <= ordered[y].pts + pi[x]
      BY <2>2, <2>3
    <3>2. QED
      BY <3>1 DEF x, y
  <2>4. CASE x # y
    <3>1. <<x, a>> \in E /\ <<a, y>> \in E
      BY <1>4, <2>1, <2>4
    <3>2. /\ pi[a] <= pi[x] + EdgeCost(net, x, a)
          /\ pi[y] <= pi[a] + EdgeCost(net, a, y)
      BY <1>5, <2>1, <2>2, <3>1
    <3>3. EdgeCost(net, x, a) = -net.pts[x] /\ EdgeCost(net, a, y) = net.pts[y]
      BY <1>1, <2>1, FlowCosts
    <3>4. ordered[x].pts + pi[y] <= ordered[y].pts + pi[x]
      BY <2>2, <3>2, <3>3
    <3>5. QED
      BY <3>4 DEF x, y
  <2>5. QED
    BY <2>3, <2>4
<1> DEFINE I == 1..m
           A == {g[j] : j \in I}
           B == {s[j] : j \in I}
           pg == [j \in I |-> ordered[g[j]].pts]
           ps == [j \in I |-> ordered[s[j]].pts]
           eg == [j \in I |-> pi[g[j]]]
           es == [j \in I |-> pi[s[j]]]
<1>10. IsFiniteSet(I) /\ IsFiniteSet(A) /\ IsFiniteSet(B)
  <2>1. IsFiniteSet(I)
    BY <1>1, FS_Interval, 1 \in Int, m \in Int
  <2> HIDE DEF I
  <2>2. QED
    BY <2>1, FiniteImage
<1>11. \A j \in I : /\ pg[j] \in Int /\ ps[j] \in Int /\ eg[j] \in Int /\ es[j] \in Int
                    /\ pg[j] + es[j] <= ps[j] + eg[j]
                    /\ eg[j] = pi[g[j]] /\ es[j] = pi[s[j]]
  <2>1. \A j \in I : g[j] \in 1..n /\ s[j] \in 1..n
    BY <1>7
  <2>2. QED
    BY <1>1, <1>6, <1>9, <2>1
<1> HIDE DEF pg, ps, eg, es
<1>12. Total(pg, I) + Total(es, I) <= Total(ps, I) + Total(eg, I)
  <2> HIDE DEF I
  <2>1. QED
    BY <1>10, <1>11, TotalsCompare
<1>13. Total(pi, A) = Total(eg, I) /\ Total(pi, B) = Total(es, I)
  <2>1. Renames(g, I, A) /\ Renames(s, I, B)
    BY <1>7 DEF Renames
  <2> HIDE DEF I, A, B
  <2>2. Total(pi, A) = Total(eg, I)
    BY <1>10, <1>11, <2>1, TotalRenamed
  <2>3. Total(pi, B) = Total(es, I)
    BY <1>10, <1>11, <2>1, TotalRenamed
  <2>4. QED
    BY <2>2, <2>3
<1>14. /\ \A x \in A \cup B : x \in 1..n /\ pi[x] \in Int
       /\ \A x \in A \ B : pi[x] <= 0
       /\ \A x \in B \ A : pi[x] >= 0
  <2>1. \A x \in A \cup B : x \in 1..n /\ pi[x] \in Int
    <3>1. \A j \in 1..m : g[j] \in 1..n /\ s[j] \in 1..n
      BY <1>7
    <3>2. \A x \in A \cup B : x \in 1..n
      BY <3>1
    <3> HIDE DEF A, B
    <3>3. QED
      BY <1>6, <3>2
  <2>2. ASSUME NEW x \in B PROVE pi[x] >= 0
    <3>1. PICK j \in 1..m : x = s[j]
      OBVIOUS
    <3>2. Carries(net, used, x) /\ <<x, n + j>> \in used
      BY <1>3, <2>1, <3>1
    <3>3. <<0, x>> \in used
      BY <3>2 DEF Carries
    <3>4. QED
      BY <1>8, <2>1, <3>3
  <2>3. ASSUME NEW x \in A \ B PROVE pi[x] <= 0
    <3>1. x \in 1..n /\ Carries(net, used, x)
      BY <1>3, <2>1
    <3>2. SUFFICES ASSUME <<0, x>> \in used PROVE FALSE
      BY <1>8, <3>1
    <3>3. PICK a : <<x, a>> \in used
      BY <3>1, <3>2 DEF Carries
    <3>4. PICK j \in 1..m : a = n + j
      BY <1>1, <1>3, <3>1, <3>3
    <3>5. x = s[j]
      BY <1>3, <3>3, <3>4 DEF Serves
    <3>6. QED
      BY <3>5
  <2> HIDE DEF A, B
  <2>4. QED
    BY <2>1, <2>2, <2>3
<1> HIDE DEF A, B
<1>15. Total(pi, A) <= Total(pi, B) /\ Total(pi, A) \in Int /\ Total(pi, B) \in Int
  BY <1>10, <1>14, TotalsExchange
<1>16. Total(pg, I) \in Int /\ Total(ps, I) \in Int
  <2> HIDE DEF I
  <2>1. QED
    BY <1>10, <1>11, TotalAddsUp
<1>17. Total(pg, I) <= Total(ps, I)
  BY <1>12, <1>13, <1>15, <1>16
<1>18. QED
  BY <1>17 DEF pg, ps, I

\* The assigned players: nobody where the slots cannot be filled, and otherwise
\* players who fill them all and are worth most.
LEMMA AssignmentsAreBest ==
    ASSUME NEW ordered, NEW n, IsPriced(ordered, n), NEW slots, NEW m, IsLine(slots, m), m # 0,
           NEW assigned, assigned = OptimizedActiveAssignments(ordered, slots)
    PROVE  \/ assigned = {} /\ \A g : ~Places(g, ordered, n, slots, m)
           \/ \E s : /\ Places(s, ordered, n, slots, m)
                     /\ assigned = {s[j] : j \in 1..m} /\ assigned # {}
                     /\ \A g : Places(g, ordered, n, slots, m) =>
                           Total([j \in 1..m |-> ordered[g[j]].pts], 1..m)
                               <= Total([j \in 1..m |-> ordered[s[j]].pts], 1..m)
<1> DEFINE net == Network(ordered, slots)
           used == Flow(net)
           K == {e \in used : e[1] = 0}
           T == {j \in 1..m : <<n + j, net.sink>> \in used}
<1>1. n \in Nat /\ m \in Nat /\ Len(slots) = m
  BY DEF IsPriced, IsLine
<1>2. assigned = IF Cardinality(K) < m THEN {}
                 ELSE {i \in 1..net.players : \E e \in used : e[1] = i}
  BY <1>1 DEF OptimizedActiveAssignments
<1>3. IsNetworkOf(net, ordered, n, slots, m)
  BY NetworkIsFlowNet
<1> HIDE DEF net
<1>4. /\ FlowNet(net) /\ net.players = n /\ net.sink = n + m + 1
      /\ \A i \in 1..n : \A a : <<i, a>> \in net.edges =>
            \E j \in 1..m : a = n + j /\ Fits(ordered[i].positions, slots[j])
  BY <1>3 DEF IsNetworkOf
<1>5. FlowInv(net, used) /\ net.sink \notin ShortestPaths(net, ResidualEdges(net, used)).reached
  BY <1>4, FlowEnds
<1> HIDE DEF used
<1>6. /\ used \in SUBSET net.edges
      /\ \A i \in 1..n : Carries(net, used, i)
      /\ \A j \in 1..m : Serves(net, used, n + j)
  <2>1. \A j \in 1..m : n + j \in (net.players + 1)..(net.sink - 1)
    BY <1>1, <1>4
  <2>2. QED
    BY <1>4, <1>5, <2>1 DEF FlowInv
<1>7. \A e \in used : e = <<e[1], e[2]>>
  <2> DEFINE N == 0..net.sink
  <2>1. net.edges \subseteq N \X N
    BY <1>4, FlowNetIsNet
  <2> HIDE DEF N
  <2>2. QED
    BY <1>6, <2>1
<1>8. \A y : <<0, y>> \in used => y \in 1..n
  BY <1>4, <1>6, FlowEdges
<1>9. \A i \in 1..n : /\ <<0, i>> \in used <=> \E a : <<i, a>> \in used
                      /\ \A a, b : <<i, a>> \in used /\ <<i, b>> \in used => a = b
  BY <1>6 DEF Carries
<1>10. \A j \in 1..m : /\ <<n + j, net.sink>> \in used <=> \E i : <<i, n + j>> \in used
                       /\ \A i, k : <<i, n + j>> \in used /\ <<k, n + j>> \in used => i = k
  BY <1>6 DEF Serves
<1>11. \A j \in 1..m : \A i : <<i, n + j>> \in used => i \in 1..n
  <2>1. SUFFICES ASSUME NEW j \in 1..m, NEW i, <<i, n + j>> \in used PROVE i \in 1..n
    OBVIOUS
  <2>2. n + j \in (net.players + 1)..(net.sink - 1)
    BY <1>1, <1>4
  <2> DEFINE a == n + j
  <2> HIDE DEF a
  <2>3. \A x : <<x, a>> \in net.edges => x \in 1..net.players
    BY <1>4, <2>2, EdgesOfSlots DEF a
  <2>4. QED
    BY <1>4, <1>6, <2>1, <2>3 DEF a
<1>12. \A i \in 1..n : \A a : <<i, a>> \in used =>
           \E j \in 1..m : a = n + j /\ Fits(ordered[i].positions, slots[j])
  BY <1>4, <1>6
<1> DEFINE who(j) == CHOOSE i : <<i, n + j>> \in used
           s == [j \in T |-> who(j)]
<1>13. \A j \in T : j \in 1..m /\ <<s[j], n + j>> \in used /\ s[j] \in 1..n
  <2>1. TAKE j \in T
  <2>2. j \in 1..m /\ \E i : <<i, n + j>> \in used
    BY <1>10
  <2>3. <<s[j], n + j>> \in used
    BY <2>2
  <2> HIDE DEF s
  <2>4. QED
    BY <1>11, <2>2, <2>3
<1> HIDE DEF s
<1>14. \A j \in T : Fits(ordered[s[j]].positions, slots[j])
  <2>1. TAKE j \in T
  <2>2. j \in 1..m /\ <<s[j], n + j>> \in used /\ s[j] \in 1..n
    BY <1>13
  <2>3. PICK k \in 1..m : n + j = n + k /\ Fits(ordered[s[j]].positions, slots[k])
    BY <1>12, <2>2
  <2>4. j = k
    BY <1>1, <2>2, <2>3
  <2>5. QED
    BY <2>3, <2>4
<1>15. \A j, k \in T : s[j] = s[k] => j = k
  <2>1. SUFFICES ASSUME NEW j \in T, NEW k \in T, s[j] = s[k] PROVE j = k
    OBVIOUS
  <2>2. n + j = n + k
    <3> DEFINE a == n + j
               b == n + k
    <3>1. <<s[j], a>> \in used /\ <<s[j], b>> \in used /\ s[j] \in 1..n
      BY <1>13, <2>1
    <3> HIDE DEF a, b
    <3>2. a = b
      BY <1>9, <3>1
    <3>3. QED
      BY <3>2 DEF a, b
  <2>3. j \in 1..m /\ k \in 1..m
    BY <1>13
  <2>4. QED
    BY <1>1, <2>2, <2>3
<1>16. Cardinality(K) = Cardinality(T)
  <2> DEFINE r == [j \in T |-> <<0, s[j]>>]
  <2>1. IsFiniteSet(T)
    <3>1. IsFiniteSet(1..m)
      BY <1>1, FS_Interval, 1 \in Int, m \in Int
    <3>2. QED
      BY <3>1, FS_Subset
  <2>2. \A j \in T : r[j] = <<0, s[j]>> /\ r[j] \in K
    <3>1. TAKE j \in T
    <3>2. <<0, s[j]>> \in used /\ <<0, s[j]>>[1] = 0
      BY <1>9, <1>13
    <3>3. QED
      BY <3>2
  <2> HIDE DEF r
  <2>3. \A j, k \in T : r[j] = r[k] => j = k
    <3>1. \A x, y : <<0, x>> = <<0, y>> => x = y
      OBVIOUS
    <3>2. QED
      BY <1>15, <2>2, <3>1
  <2>4. \A e \in K : \E j \in T : r[j] = e
    <3>1. TAKE e \in K
    <3>2. e \in used /\ e = <<0, e[2]>>
      BY <1>7
    <3> DEFINE i == e[2]
    <3>3. i \in 1..n /\ <<0, i>> \in used /\ e = <<0, i>>
      BY <1>8, <3>2
    <3> HIDE DEF i
    <3>4. PICK a : <<i, a>> \in used
      BY <1>9, <3>3
    <3>5. PICK j \in 1..m : a = n + j
      BY <1>12, <3>3, <3>4
    <3>6. j \in T
      BY <1>10, <3>4, <3>5
    <3>7. s[j] = i
      BY <1>10, <1>13, <3>4, <3>5, <3>6
    <3>8. QED
      BY <2>2, <3>3, <3>6, <3>7
  <2> HIDE DEF T, K
  <2>5. Renames(r, T, K)
    BY <2>2, <2>3, <2>4 DEF Renames
  <2>6. QED
    BY <2>1, <2>5, RenamedCounts
<1> DEFINE I == 1..m
<1>17. IsFiniteSet(I) /\ Cardinality(I) = m /\ T \in SUBSET I
  BY <1>1, FS_Interval, 1 \in Int, m \in Int
<1>18. /\ Cardinality(T) <= m /\ Cardinality(T) \in Nat
       /\ Cardinality(T) = m => T = I
  <2> HIDE DEF T, I
  <2>1. /\ IsFiniteSet(T) /\ Cardinality(T) <= Cardinality(I)
        /\ Cardinality(I) = Cardinality(T) => I = T
    BY <1>17, FS_Subset
  <2>2. QED
    BY <1>17, <2>1, FS_CardinalityType
<1>19. CASE T = I
  <2>1. ~(Cardinality(K) < m)
    <3> HIDE DEF K, T, I
    <3>1. QED
      BY <1>1, <1>16, <1>17, <1>19
  <2>2. assigned = {i \in 1..n : \E e \in used : e[1] = i}
    BY <1>2, <1>4, <2>1
  <2>3. /\ \A j \in 1..m : s[j] \in 1..n /\ <<s[j], n + j>> \in used
        /\ \A j \in 1..m : Fits(ordered[s[j]].positions, slots[j])
        /\ \A j, k \in 1..m : s[j] = s[k] => j = k
    BY <1>13, <1>14, <1>15, <1>19
  <2>4. s \in [1..m -> 1..n]
    <3>1. s = [j \in 1..m |-> s[j]]
      <4> HIDE DEF T
      <4> HIDE DEF who
      <4>1. s = [j \in T |-> s[j]]
        BY DEF s
      <4>2. QED
        BY <1>19, <4>1
    <3>2. QED
      BY <2>3, <3>1
  <2>5. Places(s, ordered, n, slots, m)
    BY <2>3, <2>4 DEF Places
  <2>6. \A i \in assigned : \E j \in 1..m : i = s[j]
    <3>1. TAKE i \in assigned
    <3>2. PICK e \in used : e[1] = i /\ i \in 1..n
      BY <2>2
    <3>3. PICK a : <<i, a>> \in used
      BY <1>7, <3>2
    <3>4. PICK j \in 1..m : a = n + j
      BY <1>12, <3>2, <3>3
    <3>5. i = s[j]
      BY <1>10, <2>3, <3>3, <3>4
    <3>6. QED
      BY <3>5
  <2>7. \A j \in 1..m : s[j] \in assigned
    <3>1. TAKE j \in 1..m
    <3>2. <<s[j], n + j>> \in used /\ <<s[j], n + j>>[1] = s[j] /\ s[j] \in 1..n
      BY <2>3
    <3>3. QED
      BY <2>2, <3>2
  <2>8. assigned = {s[j] : j \in 1..m} /\ assigned # {}
    <3>1. 1 \in 1..m
      BY <1>1
    <3>2. QED
      BY <2>6, <2>7, <3>1
  <2>9. ASSUME NEW g, Places(g, ordered, n, slots, m)
        PROVE  Total([j \in 1..m |-> ordered[g[j]].pts], 1..m)
                   <= Total([j \in 1..m |-> ordered[s[j]].pts], 1..m)
    BY <1>3, <1>5, <2>3, <2>5, <2>9, FlowIsBest
  <2>10. QED
    BY <2>5, <2>8, <2>9
<1>20. CASE T # I
  <2>1. Cardinality(K) < m
    BY <1>1, <1>16, <1>18, <1>20
  <2>2. assigned = {}
    BY <1>2, <2>1
  <2>3. ASSUME NEW g, Places(g, ordered, n, slots, m) PROVE FALSE
    <3>1. \A j \in 1..m : <<n + j, net.sink>> \in used
      BY <1>3, <1>5, <2>3, FlowIsWhole
    <3>2. QED
      BY <1>20, <3>1
  <2>4. QED
    BY <2>2, <2>3
<1>21. QED
  BY <1>19, <1>20

LEMMA GreatestNumber ==
    ASSUME NEW S \in SUBSET Int, NEW x \in S, \A y \in S : y <= x
    PROVE  Max(S) = x
<1>1. \A y \in S : x \in Int /\ y \in Int /\ x >= y
  OBVIOUS
<1> DEFINE max == Max(S)
<1>2. max \in S /\ \A y \in S : max >= y
  BY <1>1 DEF Max
<1> HIDE DEF max
<1>3. max >= x /\ x >= max /\ max \in Int /\ x \in Int
  BY <1>1, <1>2
<1>4. max = x
  BY <1>3
<1>5. QED
  BY <1>4 DEF max

FilledBy(s, ordered, m) == [j \in 1..m |-> ordered[s[j]]]

\* Ways to fill the slots with candidates are ways to fill them with places on the
\* sorted list of the candidates.
LEMMA FillingsArePlaces ==
    ASSUME NEW ordered, NEW n, IsPriced(ordered, n), NEW cands, Renames(ordered, 1..n, cands),
           NEW slots, NEW m, IsLine(slots, m)
    PROVE  /\ \A s : Places(s, ordered, n, slots, m) =>
                  /\ FilledBy(s, ordered, m) \in Fillings(cands, slots)
                  /\ FillingTotal(FilledBy(s, ordered, m))
                        = Total([j \in 1..m |-> ordered[s[j]].pts], 1..m)
                  /\ FillingTotal(FilledBy(s, ordered, m)) \in Int
           /\ \A f \in Fillings(cands, slots) :
                  \E s : Places(s, ordered, n, slots, m) /\ f = FilledBy(s, ordered, m)
<1>1. /\ n \in Nat /\ m \in Nat /\ DOMAIN slots = 1..m
      /\ \A i \in 1..n : ordered[i].pts \in Int
  BY DEF IsPriced, IsLine
<1>2. /\ \A i \in 1..n : ordered[i] \in cands
      /\ \A c \in cands : \E i \in 1..n : ordered[i] = c
      /\ \A i, k \in 1..n : ordered[i] = ordered[k] => i = k
  BY DEF Renames
<1>3. ASSUME NEW s, Places(s, ordered, n, slots, m)
      PROVE  /\ FilledBy(s, ordered, m) \in Fillings(cands, slots)
             /\ FillingTotal(FilledBy(s, ordered, m))
                   = Total([j \in 1..m |-> ordered[s[j]].pts], 1..m)
             /\ FillingTotal(FilledBy(s, ordered, m)) \in Int
  <2> DEFINE f == FilledBy(s, ordered, m)
             w == [j \in 1..m |-> ordered[s[j]].pts]
             I == 1..m
  <2>1. /\ \A j \in 1..m : s[j] \in 1..n
        /\ \A j \in 1..m : Fits(ordered[s[j]].positions, slots[j])
        /\ \A j, k \in 1..m : s[j] = s[k] => j = k
    BY <1>3 DEF Places
  <2>2. f \in [1..m -> cands] /\ \A j \in 1..m : f[j] = ordered[s[j]]
    BY <1>2, <2>1 DEF FilledBy
  <2>3. w = [j \in DOMAIN f |-> f[j].pts]
    BY DEF FilledBy
  <2>4. DOMAIN w = I /\ \A j \in I : w[j] \in Int
    BY <1>1, <2>1
  <2>5. IsFiniteSet(I)
    BY <1>1, FS_Interval, 1 \in Int, m \in Int
  <2> HIDE DEF f, w, I
  <2>6. f \in Fillings(cands, slots)
    <3>1. \A j, k \in 1..m : j # k => f[j] # f[k]
      BY <1>2, <2>1, <2>2
    <3>2. \A j \in 1..m : Fits(f[j].positions, slots[j])
      BY <2>1, <2>2
    <3>3. QED
      BY <1>1, <2>2, <3>1, <3>2 DEF Fillings
  <2>7. FillingTotal(f) = SumFunction(w)
    BY <2>3 DEF FillingTotal
  <2>8. SumFunction(w) = Total(w, I) /\ Total(w, I) \in Int
    BY <2>4, <2>5, SumIsTotal, TotalAddsUp
  <2>9. QED
    BY <2>6, <2>7, <2>8 DEF f, w, I
<1>4. ASSUME NEW f \in Fillings(cands, slots)
      PROVE  \E s : Places(s, ordered, n, slots, m) /\ f = FilledBy(s, ordered, m)
  <2>1. /\ f \in [1..m -> cands]
        /\ \A j \in 1..m : Fits(f[j].positions, slots[j])
        /\ \A j, k \in 1..m : j # k => f[j] # f[k]
    BY <1>1 DEF Fillings
  <2> DEFINE at(j) == CHOOSE i \in 1..n : ordered[i] = f[j]
             s == [j \in 1..m |-> at(j)]
  <2>2. \A j \in 1..m : at(j) \in 1..n /\ ordered[at(j)] = f[j]
    BY <1>2, <2>1
  <2> HIDE DEF at
  <2>3. s \in [1..m -> 1..n] /\ \A j \in 1..m : ordered[s[j]] = f[j]
    BY <2>2
  <2> HIDE DEF s
  <2>4. \A j, k \in 1..m : s[j] = s[k] => j = k
    BY <2>1, <2>3
  <2>5. Places(s, ordered, n, slots, m)
    BY <2>1, <2>3, <2>4 DEF Places
  <2>6. f = FilledBy(s, ordered, m)
    BY <2>1, <2>3 DEF FilledBy
  <2>7. QED
    BY <2>5, <2>6
<1>5. QED
  BY <1>3, <1>4

\* Why the valuations give up: the slots cannot be filled, or a best filling leaves
\* nobody for a position.
GivesUp(cands, wanted, totals) ==
    \/ totals = {} \/ wanted = <<>>
    \/ \E f \in Fillings(cands, wanted) :
           /\ FillingTotal(f) = Max(totals)
           /\ \E q \in BasePositions : \A c \in cands \ Range(f) : q \notin c.positions

\* The players of these ids fill the slots with the greatest total.
StartsBest(cands, ids, wanted, totals) ==
    \A starters : starters = {c \in cands : c.id \in ids} =>
        /\ Cardinality(starters) = Len(wanted)
        /\ SumFunction([c \in starters |-> c.pts]) = Max(totals)

\* calculate_replacement_levels gives up where the slots cannot be filled or the best
\* filling leaves nobody for a position, and starts the best filling otherwise.
LEMMA LevelsAreBest ==
    ASSUME NEW l \in Leagues, NEW P \in Pools,
           NEW cands, cands = Candidates(Seeds(l, P)),
           NEW wanted, wanted = DemandedSlots(ActiveSlotDemand(l.slots, l.teams)),
           NEW levels, levels = CalculateReplacementLevels(cands, l.slots, l.teams),
           NEW totals, totals = {FillingTotal(f) : f \in Fillings(cands, wanted)}
    PROVE  /\ levels.failed => GivesUp(cands, wanted, totals)
           /\ ~levels.failed => StartsBest(cands, levels.assigned, wanted, totals)
<1> DEFINE key == [c \in cands |-> CandidateKey(c)]
           ordered == SortCandidates(cands)
           n == Cardinality(cands)
           m == Len(wanted)
           assigned == OptimizedActiveAssignments(ordered, wanted)
           left == [q \in BasePositions |-> ReplacementAt(ordered, assigned, q)]
           Fill == Fillings(cands, wanted)
<1>1. Sortable(cands, key) /\ \A c \in cands : c.pts \in Int
  BY CandidatesAreSortable
<1>2. \A c, d \in cands : c.id = d.id => c = d
  <2>1. \A c \in cands : \E t \in Seeds(l, P) :
           c = [id |-> t.id, name |-> t.name, pts |-> t.pts, fppg |-> t.fppg,
                positions |-> t.positions]
    BY DEF Candidates
  <2>2. \A s, t \in Seeds(l, P) : t.id = s.id => t = s
    BY SeedsAreFinite
  <2>3. QED
    BY <2>1, <2>2
<1>3. /\ n \in Nat /\ DOMAIN ordered = 1..n /\ Len(ordered) = n
      /\ Renames(ordered, 1..n, cands)
  <2>1. ordered = SortedBy(cands, key)
    BY DEF SortCandidates
  <2> HIDE DEF key, ordered
  <2>2. /\ Cardinality(cands) \in Nat
        /\ SortedBy(cands, key) \in Seq(cands)
        /\ Len(SortedBy(cands, key)) = Cardinality(cands)
        /\ DOMAIN SortedBy(cands, key) = 1..Cardinality(cands)
        /\ \A i \in 1..Cardinality(cands) :
              /\ SortedBy(cands, key)[i] \in cands
              /\ PlaceIn(cands, key, SortedBy(cands, key)[i]) = i
        /\ \A x \in cands : /\ PlaceIn(cands, key, x) \in 1..Cardinality(cands)
                            /\ SortedBy(cands, key)[PlaceIn(cands, key, x)] = x
        /\ \A i, j \in 1..Cardinality(cands) :
              i < j <=> Precedes(key[SortedBy(cands, key)[i]], key[SortedBy(cands, key)[j]])
    BY <1>1, SortedByIsSorted
  <2>3. QED
    BY <2>1, <2>2 DEF Renames
<1>4. IsPriced(ordered, n)
  BY <1>1, <1>3 DEF IsPriced, IsLine, Renames
<1>5. IsLine(wanted, m) /\ wanted \in Seq(ActiveSlotKeys)
  BY DemandIsLine
<1>6. /\ levels.failed <=> (wanted = <<>> \/ assigned = {} \/ \E q \in BasePositions : left[q] = {})
      /\ ~levels.failed => levels.assigned = {ordered[i].id : i \in assigned}
  <2>1. levels = IF wanted = <<>> \/ assigned = {} \/ \E q \in BasePositions : left[q] = {}
                 THEN [failed |-> TRUE]
                 ELSE [failed |-> FALSE, demand |-> ActiveSlotDemand(l.slots, l.teams),
                       target |-> DraftedPlayerTarget(l.slots, l.teams),
                       assigned |-> {ordered[i].id : i \in assigned},
                       level |-> [q \in BasePositions |-> ordered[Min(left[q])]]]
    BY DEF CalculateReplacementLevels
  <2> HIDE DEF assigned, ordered, left
  <2>2. QED
    BY <2>1
<1> HIDE DEF key, ordered, n, m, assigned
<1>7. \A q \in BasePositions : left[q] = {i \in (1..n) \ assigned : q \in ordered[i].positions}
  BY <1>3 DEF ReplacementAt
<1> HIDE DEF left
<1>8. CASE m = 0
  <2>1. wanted = <<>>
    BY <1>5, <1>8 DEF m
  <2>2. QED
    BY <1>6, <2>1 DEF GivesUp
<1>9. CASE m # 0
  <2>1. /\ \A s : Places(s, ordered, n, wanted, m) =>
              /\ FilledBy(s, ordered, m) \in Fill
              /\ FillingTotal(FilledBy(s, ordered, m))
                    = Total([j \in 1..m |-> ordered[s[j]].pts], 1..m)
              /\ FillingTotal(FilledBy(s, ordered, m)) \in Int
        /\ \A f \in Fill :
              \E s : Places(s, ordered, n, wanted, m) /\ f = FilledBy(s, ordered, m)
    BY <1>3, <1>4, <1>5, FillingsArePlaces
  <2> HIDE DEF Fill
  <2>2. totals = {FillingTotal(f) : f \in Fill}
    BY DEF Fill
  <2>3. \/ assigned = {} /\ \A g : ~Places(g, ordered, n, wanted, m)
        \/ \E s : /\ Places(s, ordered, n, wanted, m)
                  /\ assigned = {s[j] : j \in 1..m} /\ assigned # {}
                  /\ \A g : Places(g, ordered, n, wanted, m) =>
                        Total([j \in 1..m |-> ordered[g[j]].pts], 1..m)
                            <= Total([j \in 1..m |-> ordered[s[j]].pts], 1..m)
    BY <1>4, <1>5, <1>9, AssignmentsAreBest DEF assigned
  <2>4. CASE assigned = {} /\ \A g : ~Places(g, ordered, n, wanted, m)
    <3>1. totals = {}
      BY <2>1, <2>2, <2>4
    <3>2. QED
      BY <1>6, <2>4, <3>1 DEF GivesUp
  <2>5. ASSUME NEW s, Places(s, ordered, n, wanted, m),
               assigned = {s[j] : j \in 1..m}, assigned # {},
               \A g : Places(g, ordered, n, wanted, m) =>
                  Total([j \in 1..m |-> ordered[g[j]].pts], 1..m)
                      <= Total([j \in 1..m |-> ordered[s[j]].pts], 1..m)
        PROVE  /\ levels.failed => GivesUp(cands, wanted, totals)
               /\ ~levels.failed => StartsBest(cands, levels.assigned, wanted, totals)
    <3> DEFINE f == FilledBy(s, ordered, m)
               sum(g) == Total([j \in 1..m |-> ordered[g[j]].pts], 1..m)
    <3>1. f \in Fill /\ FillingTotal(f) = sum(s) /\ FillingTotal(f) \in Int
      BY <2>1, <2>5
    <3>2. \A g \in Fill : FillingTotal(g) \in Int /\ FillingTotal(g) <= FillingTotal(f)
      <4>1. TAKE g \in Fill
      <4>2. PICK r : Places(r, ordered, n, wanted, m) /\ g = FilledBy(r, ordered, m)
        BY <2>1
      <4>3. FillingTotal(g) = sum(r) /\ FillingTotal(g) \in Int
        BY <2>1, <4>2
      <4>4. sum(r) <= sum(s)
        BY <2>5, <4>2
      <4> HIDE DEF f, sum
      <4>5. QED
        BY <3>1, <4>3, <4>4
    <3>3. \A j \in 1..m : s[j] \in 1..n /\ s[j] \in assigned /\ f[j] = ordered[s[j]]
      BY <2>5 DEF Places, FilledBy
    <3>4. \A j, k \in 1..m : s[j] = s[k] => j = k
      BY <2>5 DEF Places
    <3>5. DOMAIN f = 1..m /\ f = [j \in 1..m |-> f[j]]
      BY DEF FilledBy
    <3> HIDE DEF f, sum
    <3>6. FillingTotal(f) = Max(totals)
      <4>1. totals \in SUBSET Int /\ FillingTotal(f) \in totals
            /\ \A y \in totals : y <= FillingTotal(f)
        BY <2>2, <3>1, <3>2
      <4>2. QED
        BY <4>1, GreatestNumber
    <3>7. \A i \in assigned : \E j \in 1..m : i = s[j]
      BY <2>5
    <3>8. /\ \A i \in 1..n : ordered[i] \in cands
          /\ \A c \in cands : \E i \in 1..n : ordered[i] = c
          /\ \A i, k \in 1..n : ordered[i] = ordered[k] => i = k
      BY <1>3 DEF Renames
    <3>9. ASSUME levels.failed
          PROVE  wanted = <<>> \/ \E q \in BasePositions :
                     \A c \in cands \ Range(f) : q \notin c.positions
      <4>1. SUFFICES ASSUME wanted # <<>>
                     PROVE  \E q \in BasePositions :
                                \A c \in cands \ Range(f) : q \notin c.positions
        OBVIOUS
      <4>2. PICK q \in BasePositions : left[q] = {}
        BY <1>6, <2>5, <3>9, <4>1
      <4>3. ASSUME NEW c \in cands \ Range(f), q \in c.positions PROVE FALSE
        <5>1. PICK i \in 1..n : ordered[i] = c
          BY <3>8
        <5>2. i \in assigned
          BY <1>7, <4>2, <4>3, <5>1
        <5>3. PICK j \in 1..m : i = s[j]
          BY <3>7, <5>2
        <5>4. f[j] = c
          BY <3>3, <5>1, <5>3
        <5>5. QED
          BY <3>5, <4>3, <5>4 DEF Range
      <4>4. QED
        BY <4>3
    <3>10. ASSUME ~levels.failed,
                  NEW starters, starters = {c \in cands : c.id \in levels.assigned}
           PROVE  /\ Cardinality(starters) = m
                  /\ SumFunction([c \in starters |-> c.pts]) = Max(totals)
      <4> DEFINE I == 1..m
                 w == [c \in starters |-> c.pts]
                 v == [j \in I |-> f[j].pts]
      <4>1. \A c : c \in starters <=> \E j \in I : f[j] = c
        <5>1. ASSUME NEW c \in starters PROVE \E j \in I : f[j] = c
          <6>1. PICK i \in assigned : c.id = ordered[i].id
            BY <1>6, <3>10
          <6>2. PICK j \in 1..m : i = s[j]
            BY <3>7
          <6>3. f[j] = ordered[i] /\ ordered[i] \in cands /\ c \in cands
            BY <3>3, <3>8, <3>10, <6>2
          <6>4. QED
            BY <1>2, <6>1, <6>3
        <5>2. ASSUME NEW j \in I PROVE f[j] \in starters
          <6>1. /\ f[j] = ordered[s[j]] /\ s[j] \in assigned /\ ordered[s[j]] \in cands
            BY <3>3, <3>8
          <6>2. ordered[s[j]].id \in levels.assigned
            BY <1>6, <3>10, <6>1
          <6>3. QED
            BY <3>10, <6>1, <6>2
        <5> HIDE DEF I
        <5>3. QED
          BY <5>1, <5>2
      <4>2. \A j, k \in I : f[j] = f[k] => j = k
        BY <3>3, <3>4, <3>8
      <4>3. m \in Nat /\ IsFiniteSet(I) /\ Cardinality(I) = m
        <5>1. m \in Nat
          BY <1>5 DEF IsLine
        <5>2. QED
          BY <5>1, FS_Interval, 1 \in Int, m \in Int
      <4>4. \A j \in I : v[j] = f[j].pts /\ f[j].pts \in Int /\ w[f[j]] = v[j]
        <5>1. \A j \in I : f[j] \in starters /\ f[j] \in cands
          BY <3>10, <4>1
        <5> HIDE DEF I
        <5>2. QED
          BY <1>1, <5>1
      <4>5. DOMAIN w = starters /\ \A c \in starters : w[c] \in Int
        BY <1>1, <3>10
      <4>6. v = [j \in DOMAIN f |-> f[j].pts] /\ DOMAIN v = I
        BY <3>5
      <4> HIDE DEF I, w, v
      <4>7. Renames(f, I, starters)
        BY <4>1, <4>2 DEF Renames
      <4>8. IsFiniteSet(starters) /\ Cardinality(starters) = m
        BY <4>3, <4>7, RenamedCounts
      <4>9. \A j \in I : v[j] \in Int /\ w[f[j]] = v[j]
        BY <4>4
      <4>10. Total(w, starters) = Total(v, I)
        BY <4>3, <4>7, <4>9, TotalRenamed
      <4>11. SumFunction(w) = Total(w, starters)
        BY <4>5, <4>8, SumIsTotal
      <4>12. SumFunction(v) = Total(v, I)
        BY <4>3, <4>6, <4>9, SumIsTotal
      <4>13. FillingTotal(f) = SumFunction(v)
        BY <4>6 DEF FillingTotal
      <4>14. QED
        BY <3>6, <4>8, <4>10, <4>11, <4>12, <4>13 DEF w
    <3>11. levels.failed => GivesUp(cands, wanted, totals)
      BY <3>1, <3>6, <3>9 DEF GivesUp, Fill
    <3>12. ~levels.failed => StartsBest(cands, levels.assigned, wanted, totals)
      BY <3>10 DEF StartsBest, m
    <3>13. QED
      BY <3>11, <3>12
  <2>6. QED
    BY <2>3, <2>4, <2>5
<1>10. QED
  BY <1>8, <1>9

\* The players the league starts are the best filling of its active slots, and there
\* are no valuations exactly where the slots cannot be filled or the best filling
\* leaves nobody for a position: calculate_replacement_levels, for any number of slots.
THEOREM LevelsAreOptimalHolds == Spec => []LevelsAreOptimal
<1>1. Inv => LevelsAreOptimal
  <2> SUFFICES ASSUME Inv PROVE LevelsAreOptimal
    OBVIOUS
  <2> DEFINE cands == Candidates(Seeds(league, pool))
             wanted == DemandedSlots(ActiveSlotDemand(league.slots, league.teams))
             levels == CalculateReplacementLevels(cands, league.slots, league.teams)
             totals == {FillingTotal(f) : f \in Fillings(cands, wanted)}
             starters == {c \in cands : ~board.failed /\ c.id \in board.levels.assigned}
  <2>1. league \in Leagues /\ pool \in Pools /\ board = ValuationSnapshot(league, pool)
    BY DEF Inv
  <2>2. (board.failed <=> levels.failed) /\ (~levels.failed => board.levels = levels)
    <3>1. CASE levels.failed
      BY <2>1, <3>1 DEF ValuationSnapshot, Seeds
    <3>2. CASE ~levels.failed
      BY <2>1, <3>2 DEF ValuationSnapshot, Seeds
    <3>3. QED
      BY <3>1, <3>2
  <2>3. /\ levels.failed => GivesUp(cands, wanted, totals)
        /\ ~levels.failed => StartsBest(cands, levels.assigned, wanted, totals)
    <3>1. /\ cands = Candidates(Seeds(league, pool))
          /\ wanted = DemandedSlots(ActiveSlotDemand(league.slots, league.teams))
          /\ levels = CalculateReplacementLevels(cands, league.slots, league.teams)
          /\ totals = {FillingTotal(f) : f \in Fillings(cands, wanted)}
      OBVIOUS
    <3> HIDE DEF cands, wanted, levels, totals
    <3>2. QED
      BY <2>1, <3>1, LevelsAreBest
  <2>4. ~levels.failed => starters = {c \in cands : c.id \in levels.assigned}
    <3> HIDE DEF levels, cands
    <3>1. QED
      BY <2>2
  <2> HIDE DEF levels
  <2>5. IF board.failed
        THEN \/ totals = {} \/ wanted = <<>>
             \/ \E f \in Fillings(cands, wanted) :
                    /\ FillingTotal(f) = Max(totals)
                    /\ \E q \in BasePositions :
                          \A c \in cands \ Range(f) : q \notin c.positions
        ELSE /\ Cardinality(starters) = Len(wanted)
             /\ SumFunction([c \in starters |-> c.pts]) = Max(totals)
    <3> HIDE DEF cands, wanted, totals, starters
    <3>1. CASE levels.failed
      BY <2>2, <2>3, <3>1 DEF GivesUp
    <3>2. CASE ~levels.failed
      BY <2>2, <2>3, <2>4, <3>2 DEF StartsBest
    <3>3. QED
      BY <3>1, <3>2
  <2>6. {Seed(league, pool, p) : p \in DOMAIN pool} = Seeds(league, pool)
    BY DEF Seeds
  <2>7. QED
    BY <2>5, <2>6 DEF LevelsAreOptimal
<1>2. QED
  BY <1>1, InvHolds, PTL

===============================================================================
