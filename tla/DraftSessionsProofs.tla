-------------------------- MODULE DraftSessionsProofs --------------------------
(***************************************************************************)
(* Proofs about DraftSessions: its safety invariants hold for every number *)
(* of requests, players, drafts and projection sets, and for all league    *)
(* settings.                                                               *)
(*                                                                         *)
(* The argument has two layers.  GoodDraft says of a single draft row that *)
(* its picks, status and teams fit together; the lemmas of the first part  *)
(* show that each operation turns a good draft into a good draft.  IInv    *)
(* adds the bookkeeping of transactions (locks, stamps, the unique index); *)
(* the lemmas of the second part show that it is inductive.                *)
(***************************************************************************)
EXTENDS DraftSessions, SnakeOrderProofs

-------------------------------------------------------------------------------
(* What the row of one draft satisfies whenever a transaction commits it. *)

PicksInOrder(x) ==
    /\ Count(x) \in Nat
    /\ DOMAIN x.picks = 1..Count(x)
    /\ \A k \in DOMAIN x.picks : x.picks[k].position = DraftPosition(k, x.teams)
    /\ \A j, k \in DOMAIN x.picks : x.picks[j].player = x.picks[k].player => j = k

StatusFits(x) ==
    /\ x.status = "setup" => Count(x) = 0
    /\ x.status = "in_progress" => Count(x) < Total(x)
    /\ x.status = "completed" => Count(x) = Total(x)

TeamsFit(x) == x.size = x.teams /\ x.user \in 1..x.teams

GoodDraft(x) ==
    /\ IsDraft(x)
    /\ TeamsFit(x)
    /\ PicksInOrder(x)
    /\ StatusFits(x)
    /\ Taken(x) \subseteq Projected[x.set]

-------------------------------------------------------------------------------
(* Arithmetic. *)

\* The rows numbered 1..n are n rows.
LEMMA CountOfInterval ==
    ASSUME NEW n \in Nat
    PROVE  IsFiniteSet(1..n) /\ Cardinality(1..n) = n
BY FS_Interval, SMT

\* A draft has at least one pick to make.
LEMMA TotalIsPositive ==
    ASSUME NEW x, x.teams \in TeamCounts, x.rounds \in Nat \ {0}
    PROVE  Total(x) \in Nat \ {0}
BY SMT DEF Total, TeamCounts

\* A draft has teams.
LEMMA TeamCountsArePositive ==
    ASSUME NEW n \in TeamCounts
    PROVE  n \in Nat \ {0}
BY SMT DEF TeamCounts

\* The empty board of a new or reset draft.
LEMMA NoPicks ==
    /\ DOMAIN <<>> = {}
    /\ <<>> = [k \in DOMAIN <<>> |-> <<>>[k]]
    /\ 1..0 = {}
    /\ IsFiniteSet({})
    /\ Cardinality({}) = 0
BY FS_EmptySet, SMT

-------------------------------------------------------------------------------
(* Each operation turns a good draft into a good draft. *)

\* Storing picks and a status in a row (create_pick, undo, reset) leaves a row.
LEMMA PicksUpdate ==
    ASSUME NEW P, NEW Q, NEW s \in Status, NEW x \in RowsWith(P)
    PROVE  [x EXCEPT !.picks = Q, !.status = s] \in RowsWith(Q)
<1> DEFINE z == [x EXCEPT !.picks = Q]
<1>1. z \in RowsWith(Q)
  BY SMT DEF RowsWith
<1> HIDE DEF z
<1>2. [z EXCEPT !.status = s] \in RowsWith(Q)
  BY <1>1, SMT DEF RowsWith
<1>3. QED
  BY <1>2 DEF z

\* So does storing a status (start_draft) ...
LEMMA StatusUpdate ==
    ASSUME NEW P, NEW s \in Status, NEW x \in RowsWith(P)
    PROVE  [x EXCEPT !.status = s] \in RowsWith(P)
BY SMT DEF RowsWith

\* ... and replacing the teams, the user's seat and their picks (update_setup).
LEMMA TeamsUpdate ==
    ASSUME NEW P, NEW Q, NEW x \in RowsWith(P), NEW n \in TeamCounts, NEW u \in 1..n
    PROVE  [x EXCEPT !.size = n, !.user = u, !.picks = Q] \in RowsWith(Q)
<1> DEFINE z == [x EXCEPT !.size = n]
           w == [z EXCEPT !.user = u]
<1>1. z \in RowsWith(P)
  BY SMT DEF RowsWith
<1> HIDE DEF z
<1>2. u \in Nat \ {0}
  BY SMT DEF TeamCounts
<1>3. w \in RowsWith(P)
  BY <1>1, <1>2, SMT DEF RowsWith
<1> HIDE DEF w
<1>4. [w EXCEPT !.picks = Q] \in RowsWith(Q)
  BY <1>3, SMT DEF RowsWith
<1>5. QED
  BY <1>4 DEF w, z

\* POST /draft inserts a good draft.
LEMMA NewDraftIsGood ==
    ASSUME NEW terms, NEW n \in TeamCounts, NEW u \in 1..n,
           terms.teams = n, terms.rounds \in Nat \ {0}, terms.set \in 1..MaxSets
    PROVE  GoodDraft(NewDraft(terms, n, u))
<1> DEFINE x == NewDraft(terms, n, u)
<1>1. /\ x.status = "setup" /\ x.teams = n /\ x.rounds = terms.rounds
      /\ x.set = terms.set /\ x.size = n /\ x.user = u /\ x.picks = <<>>
  BY DEF NewDraft
<1>2. x \in RowsWith(x.picks)
  BY SMT DEF NewDraft, RowsWith, Status, TeamCounts
<1>3. IsDraft(x)
  BY <1>1, <1>2, NoPicks DEF IsDraft
<1>4. Count(x) = 0 /\ DOMAIN x.picks = {}
  BY <1>1, NoPicks DEF Count
<1>5. PicksInOrder(x) /\ StatusFits(x)
  BY <1>1, <1>4, NoPicks DEF PicksInOrder, StatusFits
<1>6. Taken(x) = {}
  BY <1>4 DEF Taken
<1>7. QED
  BY <1>1, <1>3, <1>5, <1>6 DEF GoodDraft, TeamsFit

\* A draft in setup has no picks, so the cascade of replace_teams loses none.
LEMMA SetupHasNoPicks ==
    ASSUME NEW x, GoodDraft(x), x.status = "setup"
    PROVE  x.picks = <<>>
<1>1. DOMAIN x.picks = 1..0
  BY DEF GoodDraft, PicksInOrder, StatusFits
<1>2. DOMAIN x.picks = {} /\ x.picks = [k \in DOMAIN x.picks |-> x.picks[k]]
  BY <1>1, NoPicks DEF GoodDraft, IsDraft
<1>3. QED
  BY <1>2, NoPicks

\* PUT /draft/setup replaces the teams of a draft in setup.
LEMMA UpdateSetupKeepsGood ==
    ASSUME NEW x, GoodDraft(x), x.status = "setup", NEW u \in 1..x.teams
    PROVE  GoodDraft([x EXCEPT !.size = x.teams, !.user = u, !.picks = <<>>])
<1> DEFINE y == [x EXCEPT !.size = x.teams, !.user = u, !.picks = <<>>]
<1>1. /\ y.status = x.status /\ y.teams = x.teams /\ y.rounds = x.rounds
      /\ y.set = x.set /\ y.size = x.teams /\ y.user = u /\ y.picks = x.picks
  BY SetupHasNoPicks DEF GoodDraft, IsDraft, RowsWith
<1>2. y \in RowsWith(y.picks)
  <2>1. x \in RowsWith(x.picks) /\ x.teams \in TeamCounts
    BY DEF GoodDraft, IsDraft, RowsWith
  <2>2. y \in RowsWith(<<>>)
    BY <2>1, TeamsUpdate
  <2>3. QED
    BY <1>1, <2>2, SetupHasNoPicks
<1>3. IsDraft(y)
  BY <1>1, <1>2 DEF GoodDraft, IsDraft
<1>4. Count(y) = Count(x) /\ Total(y) = Total(x) /\ Taken(y) = Taken(x)
  BY <1>1 DEF Count, Total, Taken
<1>5. PicksInOrder(y) /\ StatusFits(y) /\ TeamsFit(y)
  BY <1>1, <1>4 DEF GoodDraft, PicksInOrder, StatusFits, TeamsFit
<1>6. QED
  BY <1>1, <1>3, <1>4, <1>5 DEF GoodDraft

\* POST /draft/start leaves room for the first pick.
LEMMA StartKeepsGood ==
    ASSUME NEW x, GoodDraft(x), x.status = "setup"
    PROVE  GoodDraft([x EXCEPT !.status = "in_progress"])
<1> DEFINE y == [x EXCEPT !.status = "in_progress"]
<1>1. /\ y.status = "in_progress" /\ y.teams = x.teams /\ y.rounds = x.rounds
      /\ y.set = x.set /\ y.size = x.size /\ y.user = x.user /\ y.picks = x.picks
  BY DEF GoodDraft, IsDraft, RowsWith
<1>2. y \in RowsWith(y.picks)
  BY <1>1, StatusUpdate DEF GoodDraft, IsDraft, Status
<1>3. IsDraft(y)
  BY <1>1, <1>2 DEF GoodDraft, IsDraft
<1>4. Count(y) = Count(x) /\ Total(y) = Total(x) /\ Taken(y) = Taken(x)
  BY <1>1 DEF Count, Total, Taken
<1>5. Count(x) = 0 /\ Total(x) \in Nat \ {0}
  BY TotalIsPositive DEF GoodDraft, IsDraft, RowsWith, StatusFits
<1>6. PicksInOrder(y) /\ TeamsFit(y)
  BY <1>1, <1>4 DEF GoodDraft, PicksInOrder, TeamsFit
<1>7. StatusFits(y)
  BY <1>1, <1>4, <1>5, SMT DEF StatusFits
<1>8. QED
  BY <1>1, <1>3, <1>4, <1>6, <1>7 DEF GoodDraft

\* POST /draft/reset wipes the board and keeps everything else.
LEMMA ResetKeepsGood ==
    ASSUME NEW x, GoodDraft(x)
    PROVE  GoodDraft([x EXCEPT !.picks = <<>>, !.status = "setup"])
<1> DEFINE y == [x EXCEPT !.picks = <<>>, !.status = "setup"]
<1>1. /\ y.status = "setup" /\ y.teams = x.teams /\ y.rounds = x.rounds
      /\ y.set = x.set /\ y.size = x.size /\ y.user = x.user /\ y.picks = <<>>
  BY DEF GoodDraft, IsDraft, RowsWith
<1>2. y \in RowsWith(y.picks)
  BY <1>1, PicksUpdate DEF GoodDraft, IsDraft, Status
<1>3. IsDraft(y)
  BY <1>1, <1>2, NoPicks DEF IsDraft
<1>4. Count(y) = 0 /\ DOMAIN y.picks = {}
  BY <1>1, NoPicks DEF Count
<1>5. PicksInOrder(y) /\ StatusFits(y) /\ TeamsFit(y)
  BY <1>1, <1>4, NoPicks DEF GoodDraft, PicksInOrder, StatusFits, TeamsFit
<1>6. Taken(y) = {}
  BY <1>4 DEF Taken
<1>7. QED
  BY <1>1, <1>3, <1>5, <1>6 DEF GoodDraft

\* POST /draft/picks appends the next pick and completes the draft with the last.
LEMMA PickKeepsGood ==
    ASSUME NEW x, GoodDraft(x), x.status = "in_progress",
           NEW p \in Players, Available(x, p)
    PROVE  LET next == Count(x) + 1
               saved == [k \in DOMAIN x.picks \cup {next} |->
                           IF k = next
                           THEN [player |-> p, position |-> DraftPosition(next, x.teams)]
                           ELSE x.picks[k]]
           IN GoodDraft([x EXCEPT !.picks = saved,
                                  !.status = IF next = Total(x) THEN "completed"
                                                                ELSE "in_progress"])
<1> DEFINE n == Count(x)
           new == [player |-> p, position |-> DraftPosition(n + 1, x.teams)]
           saved == [k \in DOMAIN x.picks \cup {n + 1} |->
                       IF k = n + 1 THEN new ELSE x.picks[k]]
           s == IF n + 1 = Total(x) THEN "completed" ELSE "in_progress"
           y == [x EXCEPT !.picks = saved, !.status = s]
<1>1. /\ n \in Nat /\ DOMAIN x.picks = 1..n /\ n < Total(x)
      /\ x.teams \in TeamCounts /\ x.rounds \in Nat \ {0} /\ x \in RowsWith(x.picks)
  BY DEF GoodDraft, IsDraft, RowsWith, PicksInOrder, StatusFits
<1>2. Total(x) \in Nat
  BY <1>1, TotalIsPositive
<1>3. /\ y.status = s /\ y.teams = x.teams /\ y.rounds = x.rounds
      /\ y.set = x.set /\ y.size = x.size /\ y.user = x.user /\ y.picks = saved
  BY <1>1 DEF RowsWith
<1>4. y \in RowsWith(y.picks)
  BY <1>1, <1>3, PicksUpdate DEF Status
<1> HIDE DEF y
<1>5. DOMAIN y.picks = 1..(n + 1) /\ Count(y) = n + 1 /\ IsFiniteSet(DOMAIN y.picks)
  <2>1. DOMAIN saved = 1..(n + 1)
    BY <1>1, SMT
  <2>2. n + 1 \in Nat
    BY <1>1, SMT
  <2>3. Cardinality(1..(n + 1)) = n + 1 /\ IsFiniteSet(1..(n + 1))
    BY <2>2, CountOfInterval
  <2>4. QED
    BY <1>3, <2>1, <2>3 DEF Count
<1>6. /\ saved[n + 1] = new
      /\ \A k \in 1..n : saved[k] = x.picks[k]
  BY <1>1, SMT
<1>7. p \notin Taken(x) /\ p \in Projected[x.set]
  BY DEF Available
<1>8. new \in Pick
  <2>1. n + 1 \in Nat \ {0} /\ x.teams \in Nat \ {0}
    BY <1>1, TeamCountsArePositive, SMT
  <2>2. DraftPosition(n + 1, x.teams) \in Nat \ {0}
    BY <2>1, DraftPositionIsATeam, SMT
  <2>3. QED
    BY <2>2 DEF Pick
<1> HIDE DEF saved
<1>9. IsDraft(y)
  <2>1. DOMAIN y.picks \subseteq Nat \ {0}
    BY <1>1, <1>5, SMT
  <2>2. y.picks = [k \in DOMAIN y.picks |-> y.picks[k]]
    BY <1>3 DEF saved
  <2>3. \A k \in DOMAIN y.picks : y.picks[k] \in Pick
    <3> SUFFICES ASSUME NEW k \in 1..(n + 1)
                 PROVE  saved[k] \in Pick
      BY <1>3, <1>5
    <3>1. CASE k = n + 1
      BY <3>1, <1>6, <1>8
    <3>2. CASE k # n + 1
      <4>1. k \in 1..n
        BY <3>2, <1>1, SMT
      <4>2. QED
        BY <4>1, <1>1, <1>6 DEF GoodDraft, IsDraft
    <3>3. QED
      BY <3>1, <3>2
  <2>4. QED
    BY <1>4, <1>5, <2>1, <2>2, <2>3 DEF IsDraft
<1>10. PicksInOrder(y)
  <2>1. \A k \in 1..(n + 1) : saved[k].position = DraftPosition(k, x.teams)
    <3> SUFFICES ASSUME NEW k \in 1..(n + 1)
                 PROVE  saved[k].position = DraftPosition(k, x.teams)
      OBVIOUS
    <3>1. CASE k = n + 1
      BY <3>1, <1>6
    <3>2. CASE k # n + 1
      <4>1. k \in 1..n
        BY <3>2, <1>1, SMT
      <4>2. QED
        BY <4>1, <1>1, <1>6 DEF GoodDraft, PicksInOrder
    <3>3. QED
      BY <3>1, <3>2
  <2>2. ASSUME NEW j \in 1..(n + 1), NEW k \in 1..(n + 1),
               saved[j].player = saved[k].player
        PROVE  j = k
    <3>1. \A i \in 1..n : saved[i].player \in Taken(x) /\ saved[i].player # p
      BY <1>1, <1>6, <1>7 DEF Taken
    <3>2. saved[n + 1].player = p
      BY <1>6
    <3>3. \A i \in 1..(n + 1) : i \in 1..n \/ i = n + 1
      BY <1>1, SMT
    <3>4. CASE j \in 1..n /\ k \in 1..n
      BY <3>4, <2>2, <1>1, <1>6 DEF GoodDraft, PicksInOrder
    <3>5. QED
      BY <2>2, <3>1, <3>2, <3>3, <3>4
  <2>3. QED
    BY <1>1, <1>3, <1>5, <2>1, <2>2, SMT DEF PicksInOrder
<1>11. StatusFits(y)
  <2>1. Total(y) = Total(x)
    BY <1>3 DEF Total
  <2>2. QED
    BY <1>1, <1>2, <1>3, <1>5, <2>1, SMT DEF StatusFits
<1>12. Taken(y) \subseteq Projected[y.set]
  <2>1. \A k \in 1..(n + 1) : saved[k].player \in Taken(x) \cup {p}
    BY <1>1, <1>6, SMT DEF Taken
  <2>2. QED
    BY <1>3, <1>5, <1>7, <2>1 DEF GoodDraft, Taken
<1>13. QED
  BY <1>3, <1>9, <1>10, <1>11, <1>12 DEF GoodDraft, TeamsFit, y, saved

\* DELETE /draft/picks/latest takes the last pick back and reopens the draft.
LEMMA UndoKeepsGood ==
    ASSUME NEW x, GoodDraft(x), NEW last, IsLatest(last, DOMAIN x.picks)
    PROVE  GoodDraft([x EXCEPT
                        !.picks = [k \in DOMAIN x.picks \ {last} |-> x.picks[k]],
                        !.status = IF x.status = "completed" THEN "in_progress"
                                                             ELSE x.status])
<1> DEFINE n == Count(x)
           kept == [k \in DOMAIN x.picks \ {last} |-> x.picks[k]]
           s == IF x.status = "completed" THEN "in_progress" ELSE x.status
           y == [x EXCEPT !.picks = kept, !.status = s]
<1>1. /\ n \in Nat /\ DOMAIN x.picks = 1..n /\ x.status \in Status
      /\ x.teams \in TeamCounts /\ x.rounds \in Nat \ {0} /\ x \in RowsWith(x.picks)
  BY DEF GoodDraft, IsDraft, RowsWith, PicksInOrder
<1>2. Total(x) \in Nat
  BY <1>1, TotalIsPositive
<1>3. last = n /\ n - 1 \in Nat /\ x.status # "setup" /\ n <= Total(x)
  <2>1. last \in 1..n /\ \A e \in 1..n : e <= last
    BY <1>1 DEF IsLatest
  <2>2. last = n /\ n - 1 \in Nat
    BY <1>1, <2>1, SMT
  <2>3. QED
    BY <1>1, <1>2, <2>2, SMT DEF GoodDraft, StatusFits, Status
<1>4. /\ y.status = s /\ y.teams = x.teams /\ y.rounds = x.rounds
      /\ y.set = x.set /\ y.size = x.size /\ y.user = x.user /\ y.picks = kept
  BY <1>1 DEF RowsWith
<1>5. s = "in_progress"
  BY <1>1, <1>3 DEF Status
<1>6. y \in RowsWith(y.picks)
  BY <1>1, <1>4, <1>5, PicksUpdate DEF Status
<1>7. DOMAIN kept = 1..(n - 1) /\ DOMAIN kept \subseteq DOMAIN x.picks
  BY <1>1, <1>3, SMT
<1>8. \A k \in DOMAIN kept : kept[k] = x.picks[k]
  OBVIOUS
<1>9. kept = [k \in DOMAIN kept |-> kept[k]]
  OBVIOUS
<1>10. Count(y) = n - 1 /\ IsFiniteSet(DOMAIN y.picks)
  <2>1. Cardinality(1..(n - 1)) = n - 1 /\ IsFiniteSet(1..(n - 1))
    BY <1>3, CountOfInterval
  <2>2. QED
    BY <1>4, <1>7, <2>1 DEF Count
<1> HIDE DEF y, kept, s
<1>11. IsDraft(y)
  BY <1>4, <1>6, <1>7, <1>8, <1>9, <1>10 DEF GoodDraft, IsDraft
<1>12. PicksInOrder(y)
  BY <1>3, <1>4, <1>7, <1>8, <1>10 DEF GoodDraft, PicksInOrder
<1>13. StatusFits(y)
  <2>1. Total(y) = Total(x)
    BY <1>4 DEF Total
  <2>2. QED
    BY <1>1, <1>2, <1>3, <1>4, <1>5, <1>10, <2>1, SMT DEF StatusFits
<1>14. Taken(y) \subseteq Taken(x)
  BY <1>4, <1>7, <1>8 DEF Taken
<1>15. QED
  BY <1>4, <1>11, <1>12, <1>13, <1>14 DEF GoodDraft, TeamsFit, y, kept, s

-------------------------------------------------------------------------------
(* The inductive invariant. *)

DataOK ==
    /\ league \in [teams : TeamCounts \cup {0}, rounds : Nat]
    /\ sets \in 0..MaxSets
    /\ activeSet \in 0..sets
    /\ draftable \subseteq Players
    /\ clock \in 0..MaxDrafts

DraftsOK ==
    /\ drafts = [d \in DOMAIN drafts |-> drafts[d]]
    /\ DOMAIN drafts \subseteq DraftIds
    /\ \A d \in DOMAIN drafts : d <= clock /\ GoodDraft(drafts[d])
    /\ OneActiveDraft

RequestTypesOK ==
    /\ pc \in [Requests -> {"idle", "create_league", "create_roster", "create_set",
                            "create_insert", "locked", "league_get", "league_write"}]
    /\ stamp \in [Requests -> 0..MaxDrafts]
    /\ seen \in [Requests -> [teams : TeamCounts \cup {0}, rounds : Nat,
                              set : 0..MaxSets]]
    /\ want \in [Requests -> SUBSET DraftIds]
    /\ held \in [Requests -> SUBSET DraftIds]

\* The row locks: a locked draft exists and is locked by one request.  A draft
\* not yet inserted has a stamp that no other row or request uses.
LocksAreSound ==
    /\ \A r \in Requests : held[r] \subseteq DOMAIN drafts
    /\ \A r, q \in Requests : held[r] \cap held[q] # {} => r = q
    /\ \A r \in Requests : stamp[r] \notin DOMAIN drafts
    /\ \A r, q \in Requests : stamp[r] = stamp[q] /\ stamp[r] # 0 => r = q

\* A POST /draft under way has a stamp, never from the future, and knows the
\* projection set when it inserts.
StampsOK ==
    \A r \in Requests :
        /\ stamp[r] <= clock
        /\ pc[r] \in {"create_league", "create_roster", "create_set", "create_insert"}
              => stamp[r] # 0
        /\ pc[r] = "create_insert" => seen[r].set # 0

RequestsOK == RequestTypesOK /\ LocksAreSound /\ StampsOK

IInv == DataOK /\ DraftsOK /\ RequestsOK

\* The invariant says everything the type invariant does.
LEMMA IInvImpliesTypeOK == IInv => TypeOK
BY DEF IInv, DataOK, DraftsOK, RequestsOK, RequestTypesOK, GoodDraft, TypeOK

\* An empty database satisfies the invariant.
LEMMA InitIInv == Init => IInv
<1> SUFFICES ASSUME Init PROVE IInv
  OBVIOUS
<1>1. NoLeague \in [teams : TeamCounts \cup {0}, rounds : Nat]
  BY SMT DEF NoLeague
<1>2. league \in [teams : TeamCounts \cup {0}, rounds : Nat]
  BY <1>1, LeagueAssumption, SMT DEF Init, TeamCounts
<1>3. DataOK
  BY <1>2, BoundAssumption, SMT DEF Init, DataOK
<1>4. drafts = <<>> /\ DOMAIN drafts = {}
  BY NoPicks DEF Init
<1>5. DraftsOK
  BY <1>4, NoPicks DEF DraftsOK, OneActiveDraft, ActiveDrafts
<1>6. Unread \in [teams : TeamCounts \cup {0}, rounds : Nat, set : 0..MaxSets]
  BY BoundAssumption, SMT DEF Unread
<1>7. RequestTypesOK
  BY <1>6, BoundAssumption, SMT DEF Init, RequestTypesOK
<1>8. LocksAreSound
  BY <1>4, SMT DEF Init, LocksAreSound
<1>9. StampsOK
  BY SMT DEF Init, StampsOK
<1>10. QED
  BY <1>3, <1>5, <1>7, <1>8, <1>9 DEF IInv, RequestsOK

\* Steps that leave the drafts alone.
LEMMA SameDrafts ==
    ASSUME IInv, UNCHANGED drafts, clock' \in Nat, clock <= clock'
    PROVE  DraftsOK'
<1>1. \A d \in DOMAIN drafts : d <= clock'
  BY SMT DEF IInv, DataOK, DraftsOK, DraftIds
<1>2. QED
  BY <1>1 DEF IInv, DraftsOK, OneActiveDraft, ActiveDrafts

\* The end of a transaction: it may have deleted rows it held and inserted the
\* row of its stamp.
LEMMA EndKeepsRequests ==
    ASSUME IInv, NEW r \in Requests, End(r), UNCHANGED clock,
           DOMAIN drafts' \subseteq DOMAIN drafts \cup ({stamp[r]} \ {0}),
           DOMAIN drafts \ held[r] \subseteq DOMAIN drafts'
    PROVE  RequestsOK'
<1>1. Unread \in [teams : TeamCounts \cup {0}, rounds : Nat, set : 0..MaxSets]
  BY BoundAssumption, SMT DEF Unread
<1>2. RequestTypesOK'
  BY <1>1, BoundAssumption, SMT DEF IInv, RequestsOK, RequestTypesOK, End
<1>3. StampsOK'
  BY BoundAssumption, SMT DEF IInv, RequestsOK, RequestTypesOK, StampsOK, End, DataOK
<1>4. LocksAreSound'
  <2>1. /\ held'[r] = {} /\ stamp'[r] = 0
        /\ \A q \in Requests \ {r} : held'[q] = held[q] /\ stamp'[q] = stamp[q]
    BY DEF IInv, RequestsOK, RequestTypesOK, End
  <2>2. \A q \in Requests : held'[q] \subseteq DOMAIN drafts'
    BY <2>1 DEF IInv, RequestsOK, LocksAreSound
  <2>3. \A p, q \in Requests : held'[p] \cap held'[q] # {} => p = q
    BY <2>1 DEF IInv, RequestsOK, LocksAreSound
  <2>4. \A q \in Requests : stamp'[q] \notin DOMAIN drafts'
    <3>1. 0 \notin DOMAIN drafts
      BY SMT DEF IInv, DraftsOK, DraftIds
    <3>2. QED
      BY <2>1, <3>1 DEF IInv, RequestsOK, LocksAreSound
  <2>5. \A p, q \in Requests : stamp'[p] = stamp'[q] /\ stamp'[p] # 0 => p = q
    BY <2>1 DEF IInv, RequestsOK, LocksAreSound
  <2>6. QED
    BY <2>2, <2>3, <2>4, <2>5 DEF LocksAreSound
<1>5. QED
  BY <1>2, <1>3, <1>4 DEF RequestsOK

\* A transaction that only ends.
LEMMA EndKeepsIInv ==
    ASSUME IInv, NEW r \in Requests, End(r), UNCHANGED <<drafts, clock>>, DataOK'
    PROVE  IInv'
<1>1. DraftsOK'
  BY SameDrafts, SMT DEF IInv, DataOK
<1>2. RequestsOK'
  BY EndKeepsRequests
<1>3. QED
  BY <1>1, <1>2 DEF IInv

\* A locked operation commits: the new row is good, and if it becomes active the
\* unique index has seen no other active draft.
LEMMA CommitKeepsIInv ==
    ASSUME IInv, NEW r \in Requests, NEW d \in DOMAIN drafts, NEW x,
           Commit(r, d, x), GoodDraft(x),
           Active(x) => IndexAllows(d) \/ Active(drafts[d])
    PROVE  IInv'
<1>1. /\ DOMAIN drafts' = DOMAIN drafts
      /\ drafts'[d] = x
      /\ \A e \in DOMAIN drafts \ {d} : drafts'[e] = drafts[e]
      /\ drafts' = [e \in DOMAIN drafts' |-> drafts'[e]]
  BY DEF Commit, IInv, DraftsOK
<1>2. UNCHANGED <<league, sets, activeSet, draftable, clock>> /\ End(r)
  BY DEF Commit
<1>3. DataOK'
  BY <1>2 DEF IInv, DataOK
<1>4. OneActiveDraft'
  <2>1. ActiveDrafts' \subseteq ActiveDrafts \cup {d}
    BY <1>1 DEF ActiveDrafts
  <2>2. CASE Active(x)
    BY <2>1, <2>2 DEF IInv, DraftsOK, OneActiveDraft, IndexAllows, ActiveDrafts
  <2>3. CASE ~Active(x)
    <3>1. d \notin ActiveDrafts'
      BY <1>1, <2>3 DEF ActiveDrafts
    <3>2. QED
      BY <2>1, <3>1 DEF IInv, DraftsOK, OneActiveDraft
  <2>4. QED
    BY <2>2, <2>3
<1>5. DraftsOK'
  BY <1>1, <1>2, <1>4 DEF IInv, DraftsOK
<1>6. RequestsOK'
  BY <1>1, <1>2, EndKeepsRequests
<1>7. QED
  BY <1>3, <1>5, <1>6 DEF IInv

\* The transaction of POST /draft.
LEMMA CreateKeepsIInv ==
    ASSUME IInv, NEW r \in Requests,
           BeginCreate(r) \/ ReadLeague(r) \/ ReadRoster(r) \/ ReadActiveSet(r)
    PROVE  IInv'
<1>1. CASE BeginCreate(r)
  <2>1. clock' = clock + 1 /\ clock' \in 0..MaxDrafts /\ clock \in Nat
    BY <1>1, BoundAssumption, SMT DEF BeginCreate, IInv, DataOK
  <2>2. DataOK' /\ DraftsOK'
    BY <1>1, <2>1, SameDrafts, SMT DEF BeginCreate, IInv, DataOK
  <2>3. RequestTypesOK'
    BY <1>1, <2>1, SMT DEF BeginCreate, GoTo, IInv, RequestsOK, RequestTypesOK
  <2>4. StampsOK'
    BY <1>1, <2>1, BoundAssumption, SMT
       DEF BeginCreate, GoTo, IInv, RequestsOK, RequestTypesOK, StampsOK
  <2>5. LocksAreSound'
    <3>1. \A q \in Requests : stamp[q] < clock' /\ stamp[q] # clock'
      BY <2>1, BoundAssumption, SMT DEF IInv, RequestsOK, RequestTypesOK, StampsOK
    <3>2. clock' \notin DOMAIN drafts
      BY <2>1, SMT DEF IInv, DraftsOK
    <3>3. QED
      BY <1>1, <2>1, <3>1, <3>2
         DEF BeginCreate, IInv, RequestsOK, RequestTypesOK, LocksAreSound
  <2>6. QED
    BY <2>2, <2>3, <2>4, <2>5 DEF IInv, RequestsOK
<1>2. ASSUME ReadLeague(r) \/ ReadRoster(r) \/ ReadActiveSet(r)
      PROVE  IInv'
  <2>1. UNCHANGED <<dataVars, stamp, want, held>>
    BY <1>2 DEF ReadLeague, ReadRoster, ReadActiveSet
  <2>2. DataOK' /\ DraftsOK'
    BY <2>1, SameDrafts, SMT DEF dataVars, IInv, DataOK
  <2>3. RequestTypesOK' /\ StampsOK'
    <3>1. CASE ReadLeague(r)
      BY <2>1, <3>1, SMT DEF ReadLeague, GoTo, dataVars, IInv, DataOK, RequestsOK,
                             RequestTypesOK, StampsOK
    <3>2. CASE ReadRoster(r)
      BY <2>1, <3>2, SMT DEF ReadRoster, GoTo, dataVars, IInv, DataOK, RequestsOK,
                             RequestTypesOK, StampsOK
    <3>3. CASE ReadActiveSet(r)
      <4>1. activeSet \in 0..MaxSets /\ activeSet # 0
        BY <3>3, BoundAssumption, SMT DEF ReadActiveSet, IInv, DataOK
      <4>2. RequestTypesOK'
        BY <2>1, <3>3, <4>1, SMT DEF ReadActiveSet, GoTo, IInv, RequestsOK, RequestTypesOK
      <4>3. StampsOK'
        BY <2>1, <3>3, <4>1, SMT
           DEF ReadActiveSet, GoTo, dataVars, IInv, RequestsOK, RequestTypesOK, StampsOK
      <4>4. QED
        BY <4>2, <4>3
    <3>4. QED
      BY <1>2, <3>1, <3>2, <3>3
  <2>4. LocksAreSound'
    BY <2>1 DEF dataVars, IInv, RequestsOK, LocksAreSound
  <2>5. QED
    BY <2>2, <2>3, <2>4 DEF IInv, RequestsOK
<1>3. QED
  BY <1>1, <1>2

\* The insert of POST /draft: the unique index has seen no active draft.
LEMMA InsertKeepsIInv ==
    ASSUME IInv, NEW r \in Requests, InsertDraft(r)
    PROVE  IInv'
<1>1. PICK n \in TeamCounts : \E u \in 1..n :
          /\ n = seen[r].teams
          /\ drafts' = [d \in DOMAIN drafts \cup {stamp[r]} |->
                          IF d = stamp[r] THEN NewDraft(seen[r], n, u) ELSE drafts[d]]
  BY DEF InsertDraft
<1>2. PICK u \in 1..n :
          /\ n = seen[r].teams
          /\ drafts' = [d \in DOMAIN drafts \cup {stamp[r]} |->
                          IF d = stamp[r] THEN NewDraft(seen[r], n, u) ELSE drafts[d]]
  BY <1>1
<1>3. /\ pc[r] = "create_insert" /\ seen[r].rounds > 0 /\ ActiveDrafts = {} /\ End(r)
      /\ UNCHANGED <<league, sets, activeSet, draftable, clock>>
  BY DEF InsertDraft
<1>4. stamp[r] \in DraftIds /\ stamp[r] # 0 /\ stamp[r] <= clock
  BY <1>3, BoundAssumption, SMT DEF IInv, RequestsOK, RequestTypesOK, StampsOK, DraftIds
<1>5. GoodDraft(NewDraft(seen[r], n, u))
  <2>1. seen[r] \in [teams : TeamCounts \cup {0}, rounds : Nat, set : 0..MaxSets]
        /\ seen[r].set # 0
    BY <1>3 DEF IInv, RequestsOK, RequestTypesOK, StampsOK
  <2>2. seen[r].rounds \in Nat \ {0} /\ seen[r].set \in 1..MaxSets
    BY <1>3, <2>1, BoundAssumption, SMT
  <2>3. QED
    BY <1>2, <2>2, NewDraftIsGood
<1>6. /\ DOMAIN drafts' = DOMAIN drafts \cup {stamp[r]}
      /\ drafts' = [e \in DOMAIN drafts' |-> drafts'[e]]
      /\ \A e \in DOMAIN drafts' : GoodDraft(drafts'[e]) /\ e <= clock
  BY <1>2, <1>4, <1>5 DEF IInv, DraftsOK
<1>7. OneActiveDraft'
  <2>1. stamp[r] \notin DOMAIN drafts
    BY DEF IInv, RequestsOK, LocksAreSound
  <2>2. ActiveDrafts' \subseteq {stamp[r]}
    BY <1>2, <1>3, <2>1 DEF ActiveDrafts
  <2>3. QED
    BY <2>2 DEF OneActiveDraft
<1>8. DraftsOK'
  BY <1>3, <1>4, <1>6, <1>7 DEF IInv, DraftsOK
<1>9. DataOK'
  BY <1>3 DEF IInv, DataOK
<1>10. RequestsOK'
  BY <1>3, <1>4, <1>6, EndKeepsRequests
<1>11. QED
  BY <1>8, <1>9, <1>10 DEF IInv

\* SELECT ... FOR UPDATE takes locks that nobody holds, on rows that exist.
LEMMA LockingKeepsIInv ==
    ASSUME IInv, NEW r \in Requests, BeginLocked(r) \/ LockRow(r)
    PROVE  IInv'
<1>1. UNCHANGED <<dataVars, stamp, seen>>
  BY DEF BeginLocked, LockRow
<1>2. DataOK' /\ DraftsOK'
  BY <1>1, SameDrafts, SMT DEF dataVars, IInv, DataOK
<1>3. CASE BeginLocked(r)
  <2>1. RequestTypesOK' /\ StampsOK'
    BY <1>1, <1>3, SMT DEF BeginLocked, GoTo, dataVars, IInv, DraftsOK, RequestsOK,
                           RequestTypesOK, StampsOK
  <2>2. LocksAreSound'
    BY <1>1, <1>3 DEF BeginLocked, dataVars, IInv, RequestsOK, LocksAreSound
  <2>3. QED
    BY <1>2, <2>1, <2>2 DEF IInv, RequestsOK
<1>4. CASE LockRow(r)
  <2>1. PICK d \in want[r] :
          /\ \A q \in Requests : d \notin held[q]
          /\ want' = [want EXCEPT ![r] = want[r] \ {d}]
          /\ held' = [held EXCEPT ![r] = held[r] \cup ({d} \cap DOMAIN drafts)]
    BY <1>4 DEF LockRow
  <2>2. UNCHANGED pc
    BY <1>4 DEF LockRow
  <2>3. RequestTypesOK' /\ StampsOK'
    BY <1>1, <2>1, <2>2, SMT DEF dataVars, IInv, RequestsOK, RequestTypesOK, StampsOK
  <2>4. /\ held'[r] = held[r] \cup ({d} \cap DOMAIN drafts)
        /\ \A q \in Requests \ {r} : held'[q] = held[q]
    BY <2>1 DEF IInv, RequestsOK, RequestTypesOK
  <2>5. LocksAreSound'
    BY <1>1, <2>1, <2>4 DEF dataVars, IInv, RequestsOK, LocksAreSound
  <2>6. QED
    BY <1>2, <2>3, <2>5 DEF IInv, RequestsOK
<1>5. QED
  BY <1>3, <1>4

\* The operations that work on a locked draft.
LEMMA LockedWorkKeepsIInv ==
    ASSUME IInv, NEW r \in Requests, NEW d \in DOMAIN drafts,
           \/ UpdateSetup(r, d) \/ StartDraft(r, d) \/ DeleteDraft(r, d)
           \/ ResetDraft(r, d) \/ UndoLatestPick(r, d)
           \/ \E p \in Players : CreatePick(r, d, p)
    PROVE  IInv'
<1> DEFINE x == drafts[d]
<1>1. GoodDraft(x)
  BY DEF IInv, DraftsOK
<1>2. CASE UpdateSetup(r, d)
  <2>1. PICK u \in 1..x.teams :
          Commit(r, d, [x EXCEPT !.size = x.teams, !.user = u, !.picks = <<>>])
    BY <1>2 DEF UpdateSetup
  <2>2. GoodDraft([x EXCEPT !.size = x.teams, !.user = u, !.picks = <<>>])
    BY <1>1, <1>2, <2>1, UpdateSetupKeepsGood DEF UpdateSetup
  <2>3. Active(x)
    BY <1>2 DEF UpdateSetup, Active
  <2>4. QED
    BY <2>1, <2>2, <2>3, CommitKeepsIInv
<1>3. CASE StartDraft(r, d)
  <2>1. x.status = "setup" /\ Commit(r, d, [x EXCEPT !.status = "in_progress"])
    BY <1>3 DEF StartDraft
  <2>2. GoodDraft([x EXCEPT !.status = "in_progress"])
    BY <1>1, <2>1, StartKeepsGood
  <2>3. Active(x)
    BY <2>1 DEF Active
  <2>4. QED
    BY <2>1, <2>2, <2>3, CommitKeepsIInv
<1>4. CASE DeleteDraft(r, d)
  <2>1. /\ d \in held[r]
        /\ drafts' = [e \in DOMAIN drafts \ {d} |-> drafts[e]]
        /\ End(r)
        /\ UNCHANGED <<league, sets, activeSet, draftable, clock>>
    BY <1>4 DEF DeleteDraft, Works, IsLatest
  <2>2. /\ DOMAIN drafts' = DOMAIN drafts \ {d}
        /\ drafts' = [e \in DOMAIN drafts' |-> drafts'[e]]
        /\ \A e \in DOMAIN drafts' : drafts'[e] = drafts[e]
    BY <2>1
  <2>3. ActiveDrafts' \subseteq ActiveDrafts
    BY <2>2 DEF ActiveDrafts
  <2>4. DraftsOK'
    BY <2>1, <2>2, <2>3 DEF IInv, DraftsOK, OneActiveDraft
  <2>5. DataOK'
    BY <2>1 DEF IInv, DataOK
  <2>6. RequestsOK'
    BY <2>1, <2>2, EndKeepsRequests
  <2>7. QED
    BY <2>4, <2>5, <2>6 DEF IInv
<1>5. CASE ResetDraft(r, d)
  <2>1. IndexAllows(d) /\ Commit(r, d, [x EXCEPT !.picks = <<>>, !.status = "setup"])
    BY <1>5 DEF ResetDraft
  <2>2. GoodDraft([x EXCEPT !.picks = <<>>, !.status = "setup"])
    BY <1>1, ResetKeepsGood
  <2>3. QED
    BY <2>1, <2>2, CommitKeepsIInv
<1>6. CASE UndoLatestPick(r, d)
  <2> DEFINE y(last) ==
        [x EXCEPT !.picks = [k \in DOMAIN x.picks \ {last} |-> x.picks[k]],
                  !.status = IF x.status = "completed" THEN "in_progress" ELSE x.status]
  <2>1. PICK last \in DOMAIN x.picks :
          IsLatest(last, DOMAIN x.picks) /\ Commit(r, d, y(last))
    BY <1>6 DEF UndoLatestPick
  <2>2. GoodDraft(y(last))
    BY <1>1, <2>1, UndoKeepsGood
  <2>3. IndexAllows(d) \/ Active(x)
    BY <1>1, <1>6 DEF UndoLatestPick, Active, GoodDraft, IsDraft, RowsWith, Status
  <2>4. QED
    BY <2>1, <2>2, <2>3, CommitKeepsIInv
<1>7. CASE \E p \in Players : CreatePick(r, d, p)
  <2>1. PICK p \in Players : CreatePick(r, d, p)
    BY <1>7
  <2> DEFINE next == Count(x) + 1
             saved == [k \in DOMAIN x.picks \cup {next} |->
                         IF k = next
                         THEN [player |-> p, position |-> DraftPosition(next, x.teams)]
                         ELSE x.picks[k]]
             y == [x EXCEPT !.picks = saved,
                            !.status = IF next = Total(x) THEN "completed"
                                                          ELSE "in_progress"]
  <2>2. x.status = "in_progress" /\ Available(x, p) /\ Commit(r, d, y)
    BY <2>1 DEF CreatePick
  <2>3. GoodDraft(y)
    BY <1>1, <2>2, PickKeepsGood
  <2>4. Active(x)
    BY <2>2 DEF Active
  <2> HIDE DEF y
  <2>5. QED
    BY <2>2, <2>3, <2>4, CommitKeepsIInv
<1>8. QED
  BY <1>2, <1>3, <1>4, <1>5, <1>6, <1>7

\* PUT /league does not touch drafts.
LEMMA LeagueKeepsIInv ==
    ASSUME IInv, NEW r \in Requests,
           BeginReplace(r) \/ LoadLeague(r) \/ WriteLeague(r)
    PROVE  IInv'
<1>1. CASE BeginReplace(r)
  <2>1. DataOK' /\ DraftsOK'
    BY <1>1, SameDrafts, SMT DEF BeginReplace, dataVars, IInv, DataOK
  <2>2. RequestsOK'
    BY <1>1, SMT DEF BeginReplace, GoTo, dataVars, IInv, RequestsOK, RequestTypesOK,
                     LocksAreSound, StampsOK
  <2>3. QED
    BY <2>1, <2>2 DEF IInv
<1>2. CASE LoadLeague(r)
  <2>1. DataOK' /\ DraftsOK'
    BY <1>2, SameDrafts, SMT DEF LoadLeague, dataVars, IInv, DataOK
  <2>2. RequestTypesOK' /\ StampsOK'
    BY <1>2, SMT DEF LoadLeague, GoTo, dataVars, IInv, DataOK, RequestsOK, RequestTypesOK,
                     StampsOK
  <2>3. LocksAreSound'
    BY <1>2 DEF LoadLeague, dataVars, IInv, RequestsOK, LocksAreSound
  <2>4. QED
    BY <2>1, <2>2, <2>3 DEF IInv, RequestsOK
<1>3. CASE WriteLeague(r)
  <2>1. PICK c \in LeagueConfigs :
          league' = [teams |-> IF c.teams = seen[r].teams THEN league.teams ELSE c.teams,
                     rounds |-> c.rounds]
    BY <1>3 DEF WriteLeague
  <2>2. c.teams \in TeamCounts /\ c.rounds \in Nat
    BY LeagueAssumption DEF TeamCounts
  <2>3. league' \in [teams : TeamCounts \cup {0}, rounds : Nat]
    BY <2>1, <2>2 DEF IInv, DataOK
  <2>4. UNCHANGED <<sets, activeSet, draftable, drafts, clock>> /\ End(r)
    BY <1>3 DEF WriteLeague
  <2>5. DataOK'
    BY <2>3, <2>4 DEF IInv, DataOK
  <2>6. QED
    BY <2>4, <2>5, EndKeepsIInv
<1>4. QED
  BY <1>1, <1>2, <1>3

\* An import changes which players are draftable, never what was drafted.
LEMMA ImportKeepsIInv ==
    ASSUME IInv, ImportProjections
    PROVE  IInv'
<1>1. UNCHANGED <<league, drafts, clock, requestVars>>
  BY DEF ImportProjections
<1>2. sets + 1 \in 1..MaxSets /\ sets' = sets + 1 /\ activeSet' \in 0..sets'
  BY BoundAssumption, SMT DEF ImportProjections, IInv, DataOK
<1>3. draftable' \subseteq Players
  <2>1. Projected[sets + 1] \subseteq Players
    BY <1>2, BoundAssumption
  <2>2. QED
    BY <2>1 DEF ImportProjections, IInv, DataOK
<1>4. sets' \in 0..MaxSets
  BY <1>2, BoundAssumption, SMT
<1>5. DataOK'
  BY <1>1, <1>2, <1>3, <1>4 DEF IInv, DataOK
<1>6. DraftsOK'
  BY <1>1, SameDrafts, SMT DEF IInv, DataOK
<1>7. RequestsOK'
  BY <1>1 DEF requestVars, IInv, RequestsOK, RequestTypesOK, LocksAreSound, StampsOK
<1>8. QED
  BY <1>5, <1>6, <1>7 DEF IInv

\* The invariant is inductive.
LEMMA NextKeepsIInv == IInv /\ [Next]_vars => IInv'
<1> SUFFICES ASSUME IInv, [Next]_vars PROVE IInv'
  OBVIOUS
<1>1. ASSUME NEW r \in Requests, Begin(r) PROVE IInv'
  BY <1>1, CreateKeepsIInv, LockingKeepsIInv, LeagueKeepsIInv DEF Begin
<1>2. ASSUME NEW r \in Requests, Work(r) PROVE IInv'
  <2>1. CASE ReadLeague(r) \/ ReadRoster(r) \/ ReadActiveSet(r)
    BY <2>1, CreateKeepsIInv
  <2>2. CASE InsertDraft(r)
    BY <2>2, InsertKeepsIInv
  <2>3. CASE LockRow(r)
    BY <2>3, LockingKeepsIInv
  <2>4. CASE \E d \in DOMAIN drafts :
                \/ UpdateSetup(r, d) \/ StartDraft(r, d) \/ DeleteDraft(r, d)
                \/ ResetDraft(r, d) \/ UndoLatestPick(r, d)
                \/ \E p \in Players : CreatePick(r, d, p)
    BY <2>4, LockedWorkKeepsIInv
  <2>5. CASE LoadLeague(r) \/ WriteLeague(r)
    BY <2>5, LeagueKeepsIInv
  <2>6. CASE Refuse(r)
    BY <2>6, EndKeepsIInv DEF Refuse, dataVars, IInv, DataOK
  <2>7. QED
    BY <1>2, <2>1, <2>2, <2>3, <2>4, <2>5, <2>6 DEF Work
<1>3. ASSUME NEW r \in Requests, RollBack(r) PROVE IInv'
  BY <1>3, EndKeepsIInv DEF RollBack, dataVars, IInv, DataOK
<1>4. CASE ImportProjections
  BY <1>4, ImportKeepsIInv
<1>5. CASE UNCHANGED vars
  <2>1. DataOK' /\ DraftsOK'
    BY <1>5, SameDrafts, SMT DEF vars, IInv, DataOK
  <2>2. RequestsOK'
    BY <1>5 DEF vars, IInv, RequestsOK, RequestTypesOK, LocksAreSound, StampsOK
  <2>3. QED
    BY <2>1, <2>2 DEF IInv
<1>6. QED
  BY <1>1, <1>2, <1>3, <1>4, <1>5 DEF Next

-------------------------------------------------------------------------------
(* The invariants of DraftSessions. *)

\* In every reachable state drafts, locks and stamps fit together.
THEOREM Invariance == Spec => []IInv
<1>1. Init => IInv
  BY InitIInv
<1>2. IInv /\ [Next]_vars => IInv'
  BY NextKeepsIInv
<1>3. QED
  BY <1>1, <1>2, PTL DEF Spec

\* Every variable keeps its type, for any number of requests and drafts.
THEOREM TypeCorrect == Spec => []TypeOK
BY Invariance, IInvImpliesTypeOK, PTL

\* However creates, resets and undos race, at most one draft is active.
THEOREM AtMostOneActiveDraft == Spec => []OneActiveDraft
<1>1. IInv => OneActiveDraft
  BY DEF IInv, DraftsOK
<1>2. QED
  BY <1>1, Invariance, PTL

\* The picks of every draft are 1..n, each by the team on the clock, and no
\* player is drafted twice.
THEOREM BoardFollowsSnake == Spec => []PicksFollowSnake
<1>1. IInv => PicksFollowSnake
  BY DEF IInv, DraftsOK, GoodDraft, PicksInOrder, PicksFollowSnake
<1>2. QED
  BY <1>1, Invariance, PTL

\* The status of a draft agrees with the number of its picks.
THEOREM StatusIsRight == Spec => []StatusMatchesPicks
<1>1. IInv => StatusMatchesPicks
  BY DEF IInv, DraftsOK, GoodDraft, StatusFits, StatusMatchesPicks
<1>2. QED
  BY <1>1, Invariance, PTL

\* A completed draft gives every team one player per round.
THEOREM RostersAreEqual == Spec => []CompletedRostersAreEqual
<1>1. IInv => CompletedRostersAreEqual
  <2> SUFFICES ASSUME IInv, NEW d \in DOMAIN drafts, drafts[d].status = "completed",
                      NEW t \in 1..drafts[d].teams
               PROVE  Cardinality({k \in DOMAIN drafts[d].picks :
                                     drafts[d].picks[k].position = t}) = drafts[d].rounds
    BY DEF CompletedRostersAreEqual
  <2> DEFINE x == drafts[d]
  <2>1. GoodDraft(x) /\ x.teams \in Nat \ {0} /\ x.rounds \in Nat
    BY TeamCountsArePositive DEF IInv, DraftsOK, GoodDraft, IsDraft, RowsWith
  <2>2. DOMAIN x.picks = 1..(x.teams * x.rounds)
    BY <2>1 DEF GoodDraft, PicksInOrder, StatusFits, Total
  <2>3. {k \in DOMAIN x.picks : x.picks[k].position = t}
          = {k \in 1..(x.teams * x.rounds) : DraftPosition(k, x.teams) = t}
    BY <2>1, <2>2 DEF GoodDraft, PicksInOrder
  <2>4. Cardinality({k \in 1..(x.teams * x.rounds) : DraftPosition(k, x.teams) = t})
          = x.rounds
    BY <2>1, OnePickPerRound
  <2>5. QED
    BY <2>3, <2>4
<1>2. QED
  BY <1>1, Invariance, PTL

\* Drafted players come from the projection set the draft has pinned.
THEOREM PinnedPool == Spec => []PicksFromPinnedSet
<1>1. IInv => PicksFromPinnedSet
  BY DEF IInv, DraftsOK, GoodDraft, PicksFromPinnedSet
<1>2. QED
  BY <1>1, Invariance, PTL

-------------------------------------------------------------------------------
(* What a step may do to a draft that exists. *)

\* Row y of a draft is bound to the terms of row x.
TermsKept(x, y) ==
    /\ <<x.teams, x.rounds, x.set>> = <<y.teams, y.rounds, y.set>>
    /\ x.status # "setup" => <<x.size, x.user>> = <<y.size, y.user>>

\* Request r is the only one that has locked draft d, and it ends.
Touches(r, d) ==
    /\ d \in held[r]
    /\ pc'[r] = "idle"
    /\ \A q \in Requests \ {r} : d \notin held[q]

\* A locked operation touches no draft but the one it has locked.
LEMMA LockedWorkTouchesOneDraft ==
    ASSUME IInv, NEW r \in Requests, NEW d \in DOMAIN drafts,
           \/ UpdateSetup(r, d) \/ StartDraft(r, d) \/ DeleteDraft(r, d)
           \/ ResetDraft(r, d) \/ UndoLatestPick(r, d)
           \/ \E p \in Players : CreatePick(r, d, p)
    PROVE  /\ Touches(r, d)
           /\ \A e \in DOMAIN drafts \ {d} : e \in DOMAIN drafts' /\ drafts'[e] = drafts[e]
<1>1. Works(r, d) /\ End(r)
  BY DEF UpdateSetup, StartDraft, DeleteDraft, ResetDraft, UndoLatestPick, CreatePick, Commit
<1>2. \/ \E x : drafts' = [drafts EXCEPT ![d] = x]
      \/ drafts' = [e \in DOMAIN drafts \ {d} |-> drafts[e]]
  BY DEF UpdateSetup, StartDraft, DeleteDraft, ResetDraft, UndoLatestPick, CreatePick, Commit
<1>3. Touches(r, d)
  BY <1>1 DEF Works, IsLatest, End, Touches, IInv, RequestsOK, RequestTypesOK, LocksAreSound
<1>4. \A e \in DOMAIN drafts \ {d} : e \in DOMAIN drafts' /\ drafts'[e] = drafts[e]
  BY <1>2 DEF IInv, DraftsOK
<1>5. QED
  BY <1>3, <1>4

\* Every other step inserts a draft or leaves the drafts alone.
LEMMA OtherSteps ==
    ASSUME [Next]_vars,
           ~ \E r \in Requests, d \in DOMAIN drafts :
               \/ UpdateSetup(r, d) \/ StartDraft(r, d) \/ DeleteDraft(r, d)
               \/ ResetDraft(r, d) \/ UndoLatestPick(r, d)
               \/ \E p \in Players : CreatePick(r, d, p)
    PROVE  \/ UNCHANGED drafts
           \/ \E r \in Requests : InsertDraft(r)
BY DEF Next, Begin, Work, BeginCreate, BeginLocked, BeginReplace, ReadLeague, ReadRoster,
       ReadActiveSet, LockRow, LoadLeague, WriteLeague, Refuse, RollBack,
       ImportProjections, vars, dataVars

\* Such a step keeps all existing drafts as they are.
LEMMA OtherStepsKeepDrafts ==
    ASSUME IInv, [Next]_vars,
           ~ \E r \in Requests, d \in DOMAIN drafts :
               \/ UpdateSetup(r, d) \/ StartDraft(r, d) \/ DeleteDraft(r, d)
               \/ ResetDraft(r, d) \/ UndoLatestPick(r, d)
               \/ \E p \in Players : CreatePick(r, d, p)
    PROVE  \A e \in DOMAIN drafts : e \in DOMAIN drafts' /\ drafts'[e] = drafts[e]
<1>1. CASE UNCHANGED drafts
  BY <1>1
<1>2. ASSUME NEW r \in Requests, InsertDraft(r)
      PROVE  \A e \in DOMAIN drafts : e \in DOMAIN drafts' /\ drafts'[e] = drafts[e]
  <2>1. stamp[r] \notin DOMAIN drafts
    BY DEF IInv, RequestsOK, LocksAreSound
  <2>2. QED
    BY <1>2, <2>1 DEF InsertDraft
<1>3. QED
  BY <1>1, <1>2, OtherSteps

\* No operation works on a stale row: whoever changes or deletes a draft holds
\* its lock, alone, until the change is committed.
THEOREM OnlyTheHolderChangesADraft == Spec => ChangesAreLocked
<1> DEFINE Step == \A d \in DOMAIN drafts :
                      (d \notin DOMAIN drafts' \/ drafts'[d] # drafts[d]) =>
                          \E r \in Requests : Touches(r, d)
<1>1. IInv /\ [Next]_vars => Step
  BY LockedWorkTouchesOneDraft, OtherStepsKeepDrafts
<1>2. Spec => [][Step]_vars
  BY <1>1, Invariance, PTL DEF Spec
<1>3. QED
  BY <1>2 DEF ChangesAreLocked, Touches

\* A locked operation keeps the terms of its draft.
LEMMA LockedWorkKeepsTerms ==
    ASSUME IInv, NEW r \in Requests, NEW d \in DOMAIN drafts, d \in DOMAIN drafts',
           \/ UpdateSetup(r, d) \/ StartDraft(r, d) \/ DeleteDraft(r, d)
           \/ ResetDraft(r, d) \/ UndoLatestPick(r, d)
           \/ \E p \in Players : CreatePick(r, d, p)
    PROVE  TermsKept(drafts[d], drafts'[d])
<1> DEFINE x == drafts[d]
<1>1. x \in RowsWith(x.picks)
  BY DEF IInv, DraftsOK, GoodDraft, IsDraft
<1>2. \A y : Commit(r, d, y) => drafts'[d] = y
  BY DEF Commit, IInv, DraftsOK
<1>3. CASE UpdateSetup(r, d)
  <2>1. PICK u \in 1..x.teams :
          Commit(r, d, [x EXCEPT !.size = x.teams, !.user = u, !.picks = <<>>])
    BY <1>3 DEF UpdateSetup
  <2>2. /\ drafts'[d] = [x EXCEPT !.size = x.teams, !.user = u, !.picks = <<>>]
        /\ x.status = "setup"
    BY <1>2, <1>3, <2>1 DEF UpdateSetup
  <2>3. QED
    BY <1>1, <2>2 DEF TermsKept, RowsWith
<1>4. CASE StartDraft(r, d)
  <2>1. drafts'[d] = [x EXCEPT !.status = "in_progress"]
    BY <1>2, <1>4 DEF StartDraft
  <2>2. QED
    BY <1>1, <2>1 DEF TermsKept, RowsWith
<1>5. CASE DeleteDraft(r, d)
  BY <1>5 DEF DeleteDraft
<1>6. ASSUME NEW P, NEW s, drafts'[d] = [x EXCEPT !.picks = P, !.status = s]
      PROVE  TermsKept(x, drafts'[d])
  BY <1>1, <1>6 DEF TermsKept, RowsWith
<1>7. CASE ResetDraft(r, d)
  BY <1>2, <1>6, <1>7 DEF ResetDraft
<1>8. CASE UndoLatestPick(r, d)
  BY <1>2, <1>6, <1>8 DEF UndoLatestPick
<1>9. CASE \E p \in Players : CreatePick(r, d, p)
  BY <1>2, <1>6, <1>9 DEF CreatePick
<1>10. QED
  BY <1>3, <1>4, <1>5, <1>7, <1>8, <1>9

\* No step changes the terms of a draft that exists.
LEMMA StepKeepsTerms ==
    ASSUME IInv, [Next]_vars, NEW d \in DOMAIN drafts, d \in DOMAIN drafts'
    PROVE  TermsKept(drafts[d], drafts'[d])
<1>1. CASE drafts'[d] = drafts[d]
  BY <1>1 DEF TermsKept
<1>2. CASE drafts'[d] # drafts[d]
  <2>1. PICK r \in Requests, e \in DOMAIN drafts :
           \/ UpdateSetup(r, e) \/ StartDraft(r, e) \/ DeleteDraft(r, e)
           \/ ResetDraft(r, e) \/ UndoLatestPick(r, e)
           \/ \E p \in Players : CreatePick(r, e, p)
    BY <1>2, OtherStepsKeepDrafts
  <2>2. e = d
    BY <1>2, <2>1, LockedWorkTouchesOneDraft
  <2>3. QED
    BY <2>1, <2>2, LockedWorkKeepsTerms
<1>3. QED
  BY <1>1, <1>2

\* A draft keeps the team count, rounds and projection set it was created with,
\* and its teams and the user's seat from the start on.
THEOREM TermsStayFrozen == Spec => TermsAreFrozen
<1> DEFINE Step == \A d \in DOMAIN drafts \cap DOMAIN drafts' :
                      TermsKept(drafts[d], drafts'[d])
<1>1. IInv /\ [Next]_vars => Step
  BY StepKeepsTerms
<1>2. Spec => [][Step]_vars
  BY <1>1, Invariance, PTL DEF Spec
<1>3. QED
  BY <1>2 DEF TermsAreFrozen, TermsKept

\* The picks of row y are those of row x up to the last one, or none.
ChangeAtTheEnd(x, y) ==
    \/ y.picks = x.picks
    \/ y.picks = <<>> /\ y.status = "setup"
    \/ /\ DOMAIN y.picks \in {1..(Count(x) + 1), 1..(Count(x) - 1)}
       /\ \A k \in DOMAIN x.picks \cap DOMAIN y.picks : y.picks[k] = x.picks[k]

\* A locked operation changes the board of its draft at the end.
LEMMA LockedWorkChangesTheEnd ==
    ASSUME IInv, NEW r \in Requests, NEW d \in DOMAIN drafts, d \in DOMAIN drafts',
           \/ UpdateSetup(r, d) \/ StartDraft(r, d) \/ DeleteDraft(r, d)
           \/ ResetDraft(r, d) \/ UndoLatestPick(r, d)
           \/ \E p \in Players : CreatePick(r, d, p)
    PROVE  ChangeAtTheEnd(drafts[d], drafts'[d])
<1> DEFINE x == drafts[d]
           n == Count(x)
<1>1. /\ x \in RowsWith(x.picks) /\ n \in Nat /\ DOMAIN x.picks = 1..n
  BY DEF IInv, DraftsOK, GoodDraft, IsDraft, PicksInOrder
<1>2. \A y : Commit(r, d, y) => drafts'[d] = y
  BY DEF Commit, IInv, DraftsOK
<1>3. \A P, s : LET y == [x EXCEPT !.picks = P, !.status = s]
                IN y.picks = P /\ y.status = s
  BY <1>1 DEF RowsWith
<1>4. CASE UpdateSetup(r, d)
  <2>1. PICK u \in 1..x.teams :
          Commit(r, d, [x EXCEPT !.size = x.teams, !.user = u, !.picks = <<>>])
    BY <1>4 DEF UpdateSetup
  <2>2. drafts'[d] = [x EXCEPT !.size = x.teams, !.user = u, !.picks = <<>>]
    BY <1>2, <2>1
  <2>3. drafts'[d].picks = x.picks
    <3>1. x.picks = <<>>
      BY <1>4, SetupHasNoPicks DEF UpdateSetup, IInv, DraftsOK
    <3>2. QED
      BY <1>1, <2>2, <3>1 DEF RowsWith
  <2>4. QED
    BY <2>3 DEF ChangeAtTheEnd
<1>5. CASE StartDraft(r, d)
  <2>1. drafts'[d] = [x EXCEPT !.status = "in_progress"]
    BY <1>2, <1>5 DEF StartDraft
  <2>2. drafts'[d].picks = x.picks
    BY <1>1, <2>1 DEF RowsWith
  <2>3. QED
    BY <2>2 DEF ChangeAtTheEnd
<1>6. CASE DeleteDraft(r, d)
  BY <1>6 DEF DeleteDraft
<1>7. CASE ResetDraft(r, d)
  <2>1. drafts'[d] = [x EXCEPT !.picks = <<>>, !.status = "setup"]
    BY <1>2, <1>7 DEF ResetDraft
  <2>2. QED
    BY <1>3, <2>1 DEF ChangeAtTheEnd
<1>8. CASE UndoLatestPick(r, d)
  <2> DEFINE kept(last) == [k \in DOMAIN x.picks \ {last} |-> x.picks[k]]
  <2>1. PICK last \in DOMAIN x.picks :
          /\ IsLatest(last, DOMAIN x.picks)
          /\ drafts'[d] = [x EXCEPT !.picks = kept(last),
                                    !.status = IF x.status = "completed"
                                               THEN "in_progress" ELSE x.status]
    BY <1>2, <1>8 DEF UndoLatestPick
  <2>2. drafts'[d].picks = kept(last)
    BY <1>3, <2>1
  <2>3. last = n
    BY <1>1, <2>1, SMT DEF IsLatest
  <2>4. DOMAIN kept(last) = 1..(n - 1)
    BY <1>1, <2>3, SMT
  <2>5. \A k \in DOMAIN kept(last) : kept(last)[k] = x.picks[k]
    OBVIOUS
  <2>6. QED
    BY <2>2, <2>4, <2>5 DEF ChangeAtTheEnd
<1>9. CASE \E p \in Players : CreatePick(r, d, p)
  <2> DEFINE saved(p) == [k \in DOMAIN x.picks \cup {n + 1} |->
                IF k = n + 1
                THEN [player |-> p, position |-> DraftPosition(n + 1, x.teams)]
                ELSE x.picks[k]]
  <2>1. PICK p \in Players :
          drafts'[d] = [x EXCEPT !.picks = saved(p),
                                 !.status = IF n + 1 = Total(x) THEN "completed"
                                                                ELSE "in_progress"]
    BY <1>2, <1>9 DEF CreatePick
  <2>2. drafts'[d].picks = saved(p)
    BY <1>3, <2>1
  <2>3. DOMAIN saved(p) = 1..(n + 1) /\ \A k \in DOMAIN x.picks : saved(p)[k] = x.picks[k]
    BY <1>1, SMT
  <2>4. QED
    BY <2>2, <2>3 DEF ChangeAtTheEnd
<1>10. QED
  BY <1>4, <1>5, <1>6, <1>7, <1>8, <1>9

\* No step loses or rewrites an earlier pick of a draft that goes on.
THEOREM BoardChangesAtTheEnd == Spec => PicksChangeAtTheEnd
<1> DEFINE Step == \A d \in DOMAIN drafts \cap DOMAIN drafts' :
                      ChangeAtTheEnd(drafts[d], drafts'[d])
<1>1. IInv /\ [Next]_vars => Step
  <2> SUFFICES ASSUME IInv, [Next]_vars, NEW d \in DOMAIN drafts, d \in DOMAIN drafts'
               PROVE  ChangeAtTheEnd(drafts[d], drafts'[d])
    OBVIOUS
  <2>1. CASE drafts'[d] = drafts[d]
    BY <2>1 DEF ChangeAtTheEnd
  <2>2. CASE drafts'[d] # drafts[d]
    <3>1. PICK r \in Requests, e \in DOMAIN drafts :
             \/ UpdateSetup(r, e) \/ StartDraft(r, e) \/ DeleteDraft(r, e)
             \/ ResetDraft(r, e) \/ UndoLatestPick(r, e)
             \/ \E p \in Players : CreatePick(r, e, p)
      BY <2>2, OtherStepsKeepDrafts
    <3>2. e = d
      BY <2>2, <3>1, LockedWorkTouchesOneDraft
    <3>3. QED
      BY <3>1, <3>2, LockedWorkChangesTheEnd
  <2>3. QED
    BY <2>1, <2>2
<1>2. Spec => [][Step]_vars
  BY <1>1, Invariance, PTL DEF Spec
<1>3. QED
  BY <1>2 DEF PicksChangeAtTheEnd, ChangeAtTheEnd

-------------------------------------------------------------------------------
(* What holds as long as certain requests do not overlap.                    *)

\* A step of one request leaves what the others have read and locked.
LEMMA OneRequestMoves ==
    ASSUME IInv, NEW r \in Requests, Begin(r) \/ Work(r) \/ RollBack(r)
    PROVE  \A q \in Requests \ {r} :
             /\ pc'[q] = pc[q] /\ stamp'[q] = stamp[q] /\ seen'[q] = seen[q]
             /\ want'[q] = want[q] /\ held'[q] = held[q]
<1> USE DEF IInv, RequestsOK, RequestTypesOK, End, GoTo
<1>1. CASE Begin(r)
  BY <1>1 DEF Begin, BeginCreate, BeginLocked, BeginReplace
<1>2. CASE Work(r)
  <2>1. CASE \E d \in DOMAIN drafts :
                \/ UpdateSetup(r, d) \/ StartDraft(r, d) \/ DeleteDraft(r, d)
                \/ ResetDraft(r, d) \/ UndoLatestPick(r, d)
                \/ \E p \in Players : CreatePick(r, d, p)
    <3>1. End(r)
      BY <2>1 DEF UpdateSetup, StartDraft, DeleteDraft, ResetDraft, UndoLatestPick,
                  CreatePick, Commit
    <3>2. QED
      BY <3>1
  <2>2. CASE ReadLeague(r) \/ ReadRoster(r) \/ ReadActiveSet(r) \/ InsertDraft(r)
    BY <2>2 DEF ReadLeague, ReadRoster, ReadActiveSet, InsertDraft
  <2>3. CASE LockRow(r) \/ LoadLeague(r) \/ WriteLeague(r) \/ Refuse(r)
    BY <2>3 DEF LockRow, LoadLeague, WriteLeague, Refuse
  <2>4. QED
    BY <1>2, <2>1, <2>2, <2>3 DEF Work
<1>3. CASE RollBack(r)
  BY <1>3 DEF RollBack
<1>4. QED
  BY <1>1, <1>2, <1>3

\* The locked operations end their transaction and leave league and sets alone.
LEMMA LockedWorkEnds ==
    ASSUME NEW r \in Requests, NEW d \in DOMAIN drafts,
           \/ UpdateSetup(r, d) \/ StartDraft(r, d) \/ DeleteDraft(r, d)
           \/ ResetDraft(r, d) \/ UndoLatestPick(r, d)
           \/ \E p \in Players : CreatePick(r, d, p)
    PROVE  Works(r, d) /\ End(r) /\ UNCHANGED <<league, clock>>
BY DEF UpdateSetup, StartDraft, DeleteDraft, ResetDraft, UndoLatestPick, CreatePick, Commit

\* What a step of a request does to its place in the code.
LEMMA EndIsIdle ==
    ASSUME IInv, NEW r \in Requests, End(r)
    PROVE  pc'[r] = "idle" /\ want'[r] = {} /\ held'[r] = {}
BY DEF IInv, RequestsOK, RequestTypesOK, End

-------------------------------------------------------------------------------
(* Saves of the settings. *)

SettingsOK ==
    /\ LeagueIsAsSubmitted
    /\ \A r \in Requests : pc[r] = "league_write" => seen[r].teams = league.teams

\* Only two steps concern a save: the load of the row and its write.
LEMMA SaveSteps ==
    ASSUME IInv, [Next]_vars, ~ \E r \in Requests : LoadLeague(r) \/ WriteLeague(r)
    PROVE  /\ UNCHANGED league
           /\ \A q \in Requests : pc'[q] = "league_write" =>
                 pc[q] = "league_write" /\ seen'[q] = seen[q]
<1>1. ASSUME NEW r \in Requests, Begin(r) \/ Work(r) \/ RollBack(r)
      PROVE  UNCHANGED league /\ pc'[r] # "league_write"
  <2> USE DEF IInv, RequestsOK, RequestTypesOK, End, GoTo, dataVars
  <2>1. CASE Begin(r) \/ RollBack(r)
    BY <2>1 DEF Begin, BeginCreate, BeginLocked, BeginReplace, RollBack
  <2>2. CASE ReadLeague(r) \/ ReadRoster(r) \/ ReadActiveSet(r) \/ InsertDraft(r)
    BY <2>2 DEF ReadLeague, ReadRoster, ReadActiveSet, InsertDraft
  <2>3. CASE LockRow(r) \/ Refuse(r)
    BY <2>3 DEF LockRow, Refuse
  <2>4. CASE \E d \in DOMAIN drafts :
                \/ UpdateSetup(r, d) \/ StartDraft(r, d) \/ DeleteDraft(r, d)
                \/ ResetDraft(r, d) \/ UndoLatestPick(r, d)
                \/ \E p \in Players : CreatePick(r, d, p)
    BY <2>4, LockedWorkEnds, EndIsIdle
  <2>5. QED
    BY <1>1, <2>1, <2>2, <2>3, <2>4 DEF Work
<1>2. CASE ImportProjections \/ UNCHANGED vars
  BY <1>2 DEF ImportProjections, vars, requestVars
<1>3. QED
  BY <1>1, <1>2, OneRequestMoves DEF Next

\* The load of the row, and its write where the row is as it was loaded.
LEMMA LoadSeesLeague ==
    ASSUME IInv, NEW r \in Requests, LoadLeague(r)
    PROVE  UNCHANGED league /\ seen'[r].teams = league.teams /\ pc'[r] = "league_write"
BY DEF LoadLeague, GoTo, dataVars, IInv, RequestsOK, RequestTypesOK

LEMMA WriteStoresPayload ==
    ASSUME NEW r \in Requests, WriteLeague(r), seen[r].teams = league.teams
    PROVE  league' \in LeagueConfigs
<1>1. PICK c \in LeagueConfigs :
        league' = [teams |-> IF c.teams = seen[r].teams THEN league.teams ELSE c.teams,
                   rounds |-> c.rounds]
  BY DEF WriteLeague
<1>2. c = [teams |-> c.teams, rounds |-> c.rounds]
  BY LeagueAssumption
<1>3. QED
  BY <1>1, <1>2

\* Saves that do not overlap keep the settings whole.
LEMMA NextKeepsSettings ==
    ASSUME IInv, SettingsOK, SavesApart, [Next]_vars
    PROVE  SettingsOK'
<1>1. ASSUME NEW r \in Requests, LoadLeague(r)
      PROVE  SettingsOK'
  <2>1. LeagueIsAsSubmitted'
    BY <1>1, LoadSeesLeague DEF SettingsOK, LeagueIsAsSubmitted
  <2>2. \A q \in Requests \ {r} : pc'[q] = pc[q] /\ seen'[q] = seen[q]
    BY <1>1, OneRequestMoves DEF Work
  <2>3. QED
    BY <1>1, <2>1, <2>2, LoadSeesLeague DEF SettingsOK
<1>2. ASSUME NEW r \in Requests, WriteLeague(r)
      PROVE  SettingsOK'
  <2>1. pc[r] = "league_write" /\ End(r)
    BY <1>2 DEF WriteLeague
  <2>2. league' \in LeagueConfigs
    BY <1>2, <2>1, WriteStoresPayload DEF SettingsOK
  <2>3. \A q \in Requests \ {r} : pc'[q] = pc[q]
    BY <1>2, OneRequestMoves DEF Work
  <2>4. \A q \in Requests : pc'[q] # "league_write"
    BY <2>1, <2>3, EndIsIdle DEF SavesApart, Saving
  <2>5. QED
    BY <2>2, <2>4 DEF SettingsOK, LeagueIsAsSubmitted
<1>3. CASE ~ \E r \in Requests : LoadLeague(r) \/ WriteLeague(r)
  BY <1>3, SaveSteps DEF SettingsOK, LeagueIsAsSubmitted
<1>4. QED
  BY <1>1, <1>2, <1>3

\* An empty database has no settings, and nobody has read any.
LEMMA InitSettings == Init => SettingsOK
BY DEF Init, SettingsOK, LeagueIsAsSubmitted

\* As long as no two saves overlap, the stored settings are those of one of
\* them, whatever else runs meanwhile.
THEOREM SettingsAreWhole == Spec /\ []SavesApart => []LeagueIsAsSubmitted
<1>1. IInv /\ SettingsOK /\ SavesApart /\ [Next]_vars => SettingsOK'
  BY NextKeepsSettings
<1>2. SettingsOK => LeagueIsAsSubmitted
  BY DEF SettingsOK
<1>3. QED
  BY <1>1, <1>2, InitSettings, Invariance, PTL DEF Spec

-------------------------------------------------------------------------------
(* Saves and POST /draft. *)

\* What a POST /draft has read so far is what the league row and its slots say.
TermsOK ==
    /\ DraftSnapshotsALeague
    /\ \A r \in Requests :
          /\ pc[r] \in {"create_roster", "create_set", "create_insert"}
                => league # NoLeague /\ seen[r].teams = league.teams
          /\ pc[r] \in {"create_set", "create_insert"} => seen[r].rounds = league.rounds

\* Only its reads move a POST /draft on.
LEMMA CreateSteps ==
    ASSUME IInv, NEW r \in Requests, Begin(r) \/ Work(r) \/ RollBack(r),
           ~ReadLeague(r), ~ReadRoster(r), ~ReadActiveSet(r)
    PROVE  pc'[r] \notin {"create_roster", "create_set", "create_insert"}
<1> USE DEF IInv, RequestsOK, RequestTypesOK, End, GoTo
<1>1. CASE Begin(r) \/ RollBack(r)
  BY <1>1 DEF Begin, BeginCreate, BeginLocked, BeginReplace, RollBack
<1>2. CASE InsertDraft(r) \/ LockRow(r) \/ LoadLeague(r) \/ WriteLeague(r) \/ Refuse(r)
  BY <1>2 DEF InsertDraft, LockRow, LoadLeague, WriteLeague, Refuse
<1>3. CASE \E d \in DOMAIN drafts :
              \/ UpdateSetup(r, d) \/ StartDraft(r, d) \/ DeleteDraft(r, d)
              \/ ResetDraft(r, d) \/ UndoLatestPick(r, d)
              \/ \E p \in Players : CreatePick(r, d, p)
  BY <1>3, LockedWorkEnds, EndIsIdle
<1>4. QED
  BY <1>1, <1>2, <1>3 DEF Work

\* The three reads.
LEMMA ReadsSeeLeague ==
    ASSUME IInv, TermsOK, NEW r \in Requests,
           ReadLeague(r) \/ ReadRoster(r) \/ ReadActiveSet(r)
    PROVE  /\ UNCHANGED <<league, drafts>>
           /\ league # NoLeague /\ seen'[r].teams = league.teams
           /\ pc'[r] \in {"create_set", "create_insert"} => seen'[r].rounds = league.rounds
<1> USE DEF IInv, RequestsOK, RequestTypesOK, GoTo, dataVars
<1>1. CASE ReadLeague(r)
  BY <1>1 DEF ReadLeague
<1>2. CASE ReadRoster(r)
  BY <1>2 DEF ReadRoster, TermsOK
<1>3. CASE ReadActiveSet(r)
  BY <1>3 DEF ReadActiveSet, TermsOK
<1>4. QED
  BY <1>1, <1>2, <1>3

\* The draft that is inserted has the terms of the league of this moment.
LEMMA InsertSnapshotsLeague ==
    ASSUME IInv, SettingsOK, TermsOK, NEW r \in Requests, InsertDraft(r)
    PROVE  DraftSnapshotsALeague'
<1>1. PICK n \in TeamCounts : \E u \in 1..n :
        /\ n = seen[r].teams
        /\ drafts' = [d \in DOMAIN drafts \cup {stamp[r]} |->
                        IF d = stamp[r] THEN NewDraft(seen[r], n, u) ELSE drafts[d]]
  BY DEF InsertDraft
<1> PICK u \in 1..n :
        /\ n = seen[r].teams
        /\ drafts' = [d \in DOMAIN drafts \cup {stamp[r]} |->
                        IF d = stamp[r] THEN NewDraft(seen[r], n, u) ELSE drafts[d]]
  BY <1>1
<1>2. league \in LeagueConfigs /\ league = [teams |-> league.teams, rounds |-> league.rounds]
  <2>1. league \in LeagueConfigs
    BY DEF InsertDraft, SettingsOK, TermsOK, LeagueIsAsSubmitted
  <2>2. QED
    BY <2>1, LeagueAssumption
<1>3. NewDraft(seen[r], n, u).teams = league.teams /\ NewDraft(seen[r], n, u).rounds = league.rounds
  BY <1>1 DEF NewDraft, InsertDraft, TermsOK
<1>4. \A d \in DOMAIN drafts' :
        [teams |-> drafts'[d].teams, rounds |-> drafts'[d].rounds] \in LeagueConfigs
  BY <1>1, <1>2, <1>3 DEF TermsOK, DraftSnapshotsALeague
<1>5. QED
  BY <1>4 DEF DraftSnapshotsALeague

\* Every other step keeps the terms of the drafts there are and adds none.
LEMMA OthersKeepSnapshots ==
    ASSUME IInv, DraftSnapshotsALeague, [Next]_vars, ~ \E r \in Requests : InsertDraft(r)
    PROVE  DraftSnapshotsALeague'
<1>1. DOMAIN drafts' \subseteq DOMAIN drafts
  <2>1. CASE UNCHANGED drafts
    BY <2>1
  <2>2. CASE ~UNCHANGED drafts
    <3>1. PICK r \in Requests, d \in DOMAIN drafts :
             \/ UpdateSetup(r, d) \/ StartDraft(r, d) \/ DeleteDraft(r, d)
             \/ ResetDraft(r, d) \/ UndoLatestPick(r, d)
             \/ \E p \in Players : CreatePick(r, d, p)
      BY <2>2, OtherSteps
    <3>2. \/ \E x : drafts' = [drafts EXCEPT ![d] = x]
          \/ drafts' = [e \in DOMAIN drafts \ {d} |-> drafts[e]]
      BY <3>1 DEF UpdateSetup, StartDraft, DeleteDraft, ResetDraft, UndoLatestPick,
                  CreatePick, Commit
    <3>3. QED
      BY <3>2
  <2>3. QED
    BY <2>1, <2>2
<1>2. \A d \in DOMAIN drafts' :
        drafts'[d].teams = drafts[d].teams /\ drafts'[d].rounds = drafts[d].rounds
  BY <1>1, StepKeepsTerms DEF TermsKept
<1>3. QED
  BY <1>1, <1>2 DEF DraftSnapshotsALeague

\* A save that overlaps no POST /draft leaves what these have read in place.
LEMMA NextKeepsTerms ==
    ASSUME IInv, SettingsOK, TermsOK, SavesApartFromCreates, [Next]_vars
    PROVE  TermsOK'
<1>1. DraftSnapshotsALeague'
  BY InsertSnapshotsLeague, OthersKeepSnapshots DEF TermsOK
<1>2. ASSUME NEW q \in Requests, pc'[q] \in {"create_roster", "create_set", "create_insert"}
      PROVE  /\ league' # NoLeague /\ seen'[q].teams = league'.teams
             /\ pc'[q] \in {"create_set", "create_insert"} => seen'[q].rounds = league'.rounds
  <2>1. CASE ReadLeague(q) \/ ReadRoster(q) \/ ReadActiveSet(q)
    BY <2>1, ReadsSeeLeague
  <2>2. CASE ~(ReadLeague(q) \/ ReadRoster(q) \/ ReadActiveSet(q))
    <3>1. pc'[q] = pc[q] /\ seen'[q] = seen[q]
      BY <1>2, <2>2, CreateSteps, OneRequestMoves
      DEF Next, ImportProjections, vars, requestVars
    <3>2. \A r \in Requests : ~WriteLeague(r)
      BY <1>2, <3>1 DEF SavesApartFromCreates, Saving, Creating, WriteLeague
    <3>3. UNCHANGED league
      <4>1. \A r \in Requests : LoadLeague(r) => UNCHANGED league
        BY LoadSeesLeague
      <4>2. QED
        BY <3>2, <4>1, SaveSteps
    <3>4. QED
      BY <1>2, <3>1, <3>3 DEF TermsOK
  <2>3. QED
    BY <2>1, <2>2
<1>3. QED
  BY <1>1, <1>2 DEF TermsOK

\* At first there is no draft, and no request has read anything.
LEMMA InitTerms == Init => TermsOK
<1> SUFFICES ASSUME Init PROVE TermsOK
  OBVIOUS
<1>1. DOMAIN drafts = {}
  BY NoPicks DEF Init
<1>2. QED
  BY <1>1 DEF Init, TermsOK, DraftSnapshotsALeague

\* As long as no save overlaps another save or a POST /draft, every draft has
\* the team count and the rounds of settings that were once stored.
THEOREM SnapshotsAreOfALeague ==
    Spec /\ []SavesApart /\ []SavesApartFromCreates => []DraftSnapshotsALeague
<1>1. IInv /\ SettingsOK /\ SavesApart /\ [Next]_vars => SettingsOK'
  BY NextKeepsSettings
<1>2. IInv /\ SettingsOK /\ TermsOK /\ SavesApartFromCreates /\ [Next]_vars => TermsOK'
  BY NextKeepsTerms
<1>3. TermsOK => DraftSnapshotsALeague
  BY DEF TermsOK
<1>4. QED
  BY <1>1, <1>2, <1>3, InitSettings, InitTerms, Invariance, PTL DEF Spec

-------------------------------------------------------------------------------
(* The lock on the settings. *)

NoDraftWhileSaving == \A r \in Requests : Saving(r) => ActiveDrafts = {}

\* Drafts change only by a POST /draft that inserts or under the row lock.
LEMMA DraftsChangeBy ==
    ASSUME IInv, [Next]_vars, ~UNCHANGED drafts
    PROVE  \E r \in Requests : Creating(r) \/ Locking(r)
<1>1. CASE \E r \in Requests : InsertDraft(r)
  BY <1>1 DEF InsertDraft, Creating
<1>2. CASE ~ \E r \in Requests : InsertDraft(r)
  <2>1. PICK r \in Requests, d \in DOMAIN drafts :
           \/ UpdateSetup(r, d) \/ StartDraft(r, d) \/ DeleteDraft(r, d)
           \/ ResetDraft(r, d) \/ UndoLatestPick(r, d)
           \/ \E p \in Players : CreatePick(r, d, p)
    BY <1>2, OtherSteps
  <2>2. QED
    BY <2>1, LockedWorkEnds DEF Works, Locking
<1>3. QED
  BY <1>1, <1>2

\* A save begins where there is no active draft.
LEMMA SaveBegins ==
    ASSUME IInv, [Next]_vars, NEW r \in Requests, Saving(r)', ~Saving(r)
    PROVE  ActiveDrafts = {} /\ UNCHANGED drafts
<1> USE DEF IInv, RequestsOK, RequestTypesOK, End, GoTo, Saving
<1>1. Begin(r) \/ Work(r) \/ RollBack(r)
  BY OneRequestMoves DEF Next, ImportProjections, vars, requestVars
<1>2. CASE Begin(r) \/ RollBack(r)
  BY <1>2 DEF Begin, BeginCreate, BeginLocked, BeginReplace, RollBack, dataVars
<1>3. CASE ReadLeague(r) \/ ReadRoster(r) \/ ReadActiveSet(r) \/ InsertDraft(r)
  BY <1>3 DEF ReadLeague, ReadRoster, ReadActiveSet, InsertDraft
<1>4. CASE LockRow(r) \/ LoadLeague(r) \/ WriteLeague(r) \/ Refuse(r)
  BY <1>4 DEF LockRow, LoadLeague, WriteLeague, Refuse
<1>5. CASE \E d \in DOMAIN drafts :
              \/ UpdateSetup(r, d) \/ StartDraft(r, d) \/ DeleteDraft(r, d)
              \/ ResetDraft(r, d) \/ UndoLatestPick(r, d)
              \/ \E p \in Players : CreatePick(r, d, p)
  BY <1>5, LockedWorkEnds, EndIsIdle
<1>6. QED
  BY <1>1, <1>2, <1>3, <1>4, <1>5 DEF Work

\* A save that overlaps no request that can make a draft active has none to fear.
LEMMA NextKeepsNoDraft ==
    ASSUME IInv, NoDraftWhileSaving, SavesApartFromDrafts, [Next]_vars
    PROVE  NoDraftWhileSaving'
<1> SUFFICES ASSUME NEW r \in Requests, Saving(r)'
             PROVE  ActiveDrafts' = {}
  BY DEF NoDraftWhileSaving
<1>1. ActiveDrafts = {} /\ UNCHANGED drafts
  <2>1. CASE Saving(r)
    BY <2>1, DraftsChangeBy DEF NoDraftWhileSaving, SavesApartFromDrafts
  <2>2. CASE ~Saving(r)
    BY <2>2, SaveBegins
  <2>3. QED
    BY <2>1, <2>2
<1>2. QED
  BY <1>1 DEF ActiveDrafts

\* As long as no save overlaps a request that creates or changes drafts, the
\* settings change only while no draft is active: what the plain read of
\* active_draft_exists finds is then still true at the write.
THEOREM SettingsAreLocked == Spec /\ []SavesApartFromDrafts => LeagueLocked
<1>1. Init => NoDraftWhileSaving
  BY DEF Init, NoDraftWhileSaving, Saving
<1>2. IInv /\ NoDraftWhileSaving /\ SavesApartFromDrafts /\ [Next]_vars => NoDraftWhileSaving'
  BY NextKeepsNoDraft
<1>3. IInv /\ NoDraftWhileSaving /\ [Next]_vars => (league' # league => ActiveDrafts = {})
  <2> SUFFICES ASSUME IInv, NoDraftWhileSaving, [Next]_vars, league' # league
               PROVE  ActiveDrafts = {}
    OBVIOUS
  <2>1. PICK r \in Requests : LoadLeague(r) \/ WriteLeague(r)
    BY SaveSteps
  <2>2. QED
    BY <2>1 DEF LoadLeague, WriteLeague, NoDraftWhileSaving, Saving
<1>4. QED
  BY <1>1, <1>2, <1>3, Invariance, PTL DEF Spec, LeagueLocked

-------------------------------------------------------------------------------
(* The newest draft. *)

\* What a request under way knows of the newest draft: a POST /draft has a later
\* stamp than all drafts, a locked operation has or waits for all of them.
NewestOK ==
    /\ ActiveDraftIsNewest
    /\ \A r \in Requests : Creating(r) => \A d \in DOMAIN drafts : d < stamp[r]
    /\ \A r \in Requests : Locking(r) => DOMAIN drafts \subseteq want[r] \cup held[r]

\* A step of a request that leaves the drafts alone.
LEMMA QuietStepKeepsNewest ==
    ASSUME IInv, NewestOK, NEW r \in Requests, Begin(r) \/ Work(r) \/ RollBack(r),
           UNCHANGED drafts
    PROVE  /\ Creating(r)' => \A d \in DOMAIN drafts : d < stamp'[r]
           /\ Locking(r)' => DOMAIN drafts \subseteq want'[r] \cup held'[r]
<1> USE DEF IInv, RequestsOK, RequestTypesOK, End, GoTo, Creating, Locking
<1>1. CASE BeginCreate(r)
  <2>1. \A d \in DOMAIN drafts : d \in Nat /\ d <= clock /\ clock \in Nat
    BY SMT DEF DraftsOK, DataOK, DraftIds
  <2>2. stamp'[r] = clock + 1 /\ pc'[r] = "create_league"
    BY <1>1 DEF BeginCreate
  <2>3. \A d \in DOMAIN drafts : d < clock + 1
    BY <2>1, SMT
  <2>4. QED
    BY <2>2, <2>3
<1>2. CASE BeginLocked(r) \/ BeginReplace(r) \/ RollBack(r)
  BY <1>2 DEF BeginLocked, BeginReplace, RollBack
<1>3. CASE ReadLeague(r) \/ ReadRoster(r) \/ ReadActiveSet(r)
  BY <1>3 DEF ReadLeague, ReadRoster, ReadActiveSet, NewestOK
<1>4. CASE LockRow(r)
  BY <1>4 DEF LockRow, NewestOK
<1>5. CASE InsertDraft(r) \/ LoadLeague(r) \/ WriteLeague(r) \/ Refuse(r)
  BY <1>5 DEF InsertDraft, LoadLeague, WriteLeague, Refuse
<1>6. CASE \E d \in DOMAIN drafts :
              \/ UpdateSetup(r, d) \/ StartDraft(r, d) \/ DeleteDraft(r, d)
              \/ ResetDraft(r, d) \/ UndoLatestPick(r, d)
              \/ \E p \in Players : CreatePick(r, d, p)
  BY <1>6, LockedWorkEnds, EndIsIdle
<1>7. QED
  BY <1>1, <1>2, <1>3, <1>4, <1>5, <1>6 DEF Begin, Work

\* The draft that is inserted is the newest; nobody else is creating or locking.
LEMMA InsertKeepsNewest ==
    ASSUME IInv, NewestOK, CreatesApart, NEW r \in Requests, InsertDraft(r)
    PROVE  NewestOK'
<1>1. pc[r] = "create_insert" /\ End(r) /\ ActiveDrafts = {}
  BY DEF InsertDraft
<1>2. /\ DOMAIN drafts' = DOMAIN drafts \cup {stamp[r]}
      /\ \A d \in DOMAIN drafts : drafts'[d] = drafts[d]
  BY DEF InsertDraft, IInv, RequestsOK, LocksAreSound
<1>3. \A d \in DOMAIN drafts : d < stamp[r]
  BY <1>1 DEF NewestOK, Creating
<1>4. \A q \in Requests : ~Creating(q)' /\ ~Locking(q)'
  BY <1>1, OneRequestMoves, EndIsIdle DEF CreatesApart, Creating, Locking, Work
<1>5. ActiveDrafts' \subseteq {stamp[r]}
  BY <1>1, <1>2 DEF ActiveDrafts
<1>6. \A d \in DOMAIN drafts : d \in Int
  BY DEF IInv, DraftsOK, DraftIds
<1>7. stamp[r] \in Int
  BY DEF IInv, RequestsOK, RequestTypesOK
<1>8. \A d \in DOMAIN drafts' : d <= stamp[r]
  BY <1>2, <1>3, <1>6, <1>7, SMT
<1>9. QED
  BY <1>4, <1>5, <1>8 DEF NewestOK, ActiveDraftIsNewest

\* Whoever has locked all rows works on the newest draft there is.
LEMMA WorkIsOnNewest ==
    ASSUME NewestOK, NEW r \in Requests, NEW d \in DOMAIN drafts, Works(r, d)
    PROVE  \A e \in DOMAIN drafts : e <= d
BY DEF NewestOK, Works, IsLatest, Locking

\* A locked operation; nobody is creating.
LEMMA LockedWorkKeepsNewest ==
    ASSUME IInv, NewestOK, CreatesApart, NEW r \in Requests, NEW d \in DOMAIN drafts,
           \/ UpdateSetup(r, d) \/ StartDraft(r, d) \/ DeleteDraft(r, d)
           \/ ResetDraft(r, d) \/ UndoLatestPick(r, d)
           \/ \E p \in Players : CreatePick(r, d, p)
    PROVE  NewestOK'
<1>1. Works(r, d) /\ End(r)
  BY LockedWorkEnds
<1>2. \/ \E x : drafts' = [drafts EXCEPT ![d] = x]
      \/ drafts' = [e \in DOMAIN drafts \ {d} |-> drafts[e]]
  BY DEF UpdateSetup, StartDraft, DeleteDraft, ResetDraft, UndoLatestPick, CreatePick, Commit
<1>3. /\ DOMAIN drafts' \subseteq DOMAIN drafts
      /\ \A e \in DOMAIN drafts' \ {d} : drafts'[e] = drafts[e]
  BY <1>2
<1>4. ActiveDrafts' \subseteq ActiveDrafts \cup {d}
  BY <1>3 DEF ActiveDrafts
<1>5. \A e \in DOMAIN drafts : e <= d
  BY <1>1, WorkIsOnNewest
<1>6. ActiveDraftIsNewest'
  BY <1>3, <1>4, <1>5 DEF NewestOK, ActiveDraftIsNewest
<1>7. \A q \in Requests : ~Creating(q)'
  BY <1>1, OneRequestMoves, EndIsIdle DEF CreatesApart, Creating, Locking, Work, Works
<1>8. ASSUME NEW q \in Requests, Locking(q)'
      PROVE  DOMAIN drafts' \subseteq want'[q] \cup held'[q]
  <2>1. q # r
    BY <1>1, <1>8, EndIsIdle DEF Locking
  <2>2. pc'[q] = pc[q] /\ want'[q] = want[q] /\ held'[q] = held[q]
    BY <2>1, OneRequestMoves DEF Work
  <2>3. QED
    BY <1>3, <1>8, <2>2 DEF NewestOK, Locking
<1>9. QED
  BY <1>6, <1>7, <1>8 DEF NewestOK

\* Creates that overlap neither one another nor a locked operation keep the
\* newest draft in view.
LEMMA NextKeepsNewest ==
    ASSUME IInv, NewestOK, CreatesApart, [Next]_vars
    PROVE  NewestOK'
<1>1. CASE UNCHANGED drafts
  <2>1. ActiveDraftIsNewest'
    BY <1>1 DEF NewestOK, ActiveDraftIsNewest, ActiveDrafts
  <2>2. ASSUME NEW q \in Requests
        PROVE  /\ Creating(q)' => \A d \in DOMAIN drafts' : d < stamp'[q]
               /\ Locking(q)' => DOMAIN drafts' \subseteq want'[q] \cup held'[q]
    <3>1. CASE Begin(q) \/ Work(q) \/ RollBack(q)
      BY <1>1, <3>1, QuietStepKeepsNewest
    <3>2. CASE ~(Begin(q) \/ Work(q) \/ RollBack(q))
      <4>1. pc'[q] = pc[q] /\ stamp'[q] = stamp[q] /\ want'[q] = want[q] /\ held'[q] = held[q]
        BY <3>2, OneRequestMoves DEF Next, ImportProjections, vars, requestVars
      <4>2. QED
        BY <1>1, <4>1 DEF NewestOK, Creating, Locking
    <3>3. QED
      BY <3>1, <3>2
  <2>3. QED
    BY <2>1, <2>2 DEF NewestOK
<1>2. CASE ~UNCHANGED drafts
  BY <1>2, OtherSteps, InsertKeepsNewest, LockedWorkKeepsNewest
<1>3. QED
  BY <1>1, <1>2

\* The inductive invariant of both theorems below.
LEMMA NewestInvariance == Spec /\ []CreatesApart => []NewestOK
<1>1. Init => NewestOK
  <2> SUFFICES ASSUME Init PROVE NewestOK
    OBVIOUS
  <2>1. DOMAIN drafts = {}
    BY NoPicks DEF Init
  <2>2. QED
    BY <2>1 DEF Init, NewestOK, ActiveDraftIsNewest, ActiveDrafts, Creating, Locking
<1>2. IInv /\ NewestOK /\ CreatesApart /\ [Next]_vars => NewestOK'
  BY NextKeepsNewest
<1>3. QED
  BY <1>1, <1>2, Invariance, PTL DEF Spec

\* As long as the requests that create a draft overlap neither one another nor an
\* operation under the row lock, the active draft is the newest one ...
THEOREM NewestIsTheActiveOne == Spec /\ []CreatesApart => []ActiveDraftIsNewest
<1>1. NewestOK => ActiveDraftIsNewest
  BY DEF NewestOK
<1>2. QED
  BY <1>1, NewestInvariance, PTL

\* ... and every locked operation works on the newest draft there is.
THEOREM LockedWorkIsOnNewest == Spec /\ []CreatesApart => []WorksOnNewest
<1>1. NewestOK => WorksOnNewest
  BY WorkIsOnNewest DEF WorksOnNewest
<1>2. QED
  BY <1>1, NewestInvariance, PTL

\* At first no request is under way, so nothing overlaps.
LEMMA InitApart == Init => Apart
BY DEF Init, Apart, SavesApart, SavesApartFromDrafts, CreatesApart, Saving, Creating,
       Locking

\* As long as saves of the settings overlap neither one another nor the requests
\* that change drafts, and creates overlap neither one another nor the operations
\* under the row lock, all five promises hold: the settings stored are those of
\* one save and change only while no draft is active, a draft has the terms of
\* settings that were stored, and the active draft and the one worked on are the
\* newest, whatever the operations under the row lock and imports do meanwhile.
THEOREM PromisesHoldApart ==
    ApartSpec => /\ []LeagueIsAsSubmitted
                 /\ []DraftSnapshotsALeague
                 /\ LeagueLocked
                 /\ []ActiveDraftIsNewest
                 /\ []WorksOnNewest
<1>1. Apart => SavesApart /\ SavesApartFromCreates /\ SavesApartFromDrafts /\ CreatesApart
  BY DEF Apart, SavesApartFromDrafts, SavesApartFromCreates
<1>2. ApartSpec => Spec
  <2>1. [Next /\ Apart']_vars => [Next]_vars
    OBVIOUS
  <2>2. QED
    BY <2>1, PTL DEF ApartSpec, Spec
<1>3. ApartSpec => []Apart
  <2>1. Apart /\ [Next /\ Apart']_vars => Apart'
    <3>1. Apart /\ UNCHANGED vars => Apart'
      BY DEF Apart, SavesApart, SavesApartFromDrafts, CreatesApart, Saving, Creating,
             Locking, vars
    <3>2. QED
      BY <3>1
  <2>2. QED
    BY <2>1, InitApart, PTL DEF ApartSpec
<1>4. QED
  BY <1>1, <1>2, <1>3, SettingsAreWhole, SnapshotsAreOfALeague, SettingsAreLocked,
     NewestIsTheActiveOne, LockedWorkIsOnNewest, PTL

===============================================================================
