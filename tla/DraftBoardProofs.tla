---------------------------- MODULE DraftBoardProofs ----------------------------
(***************************************************************************)
(* Proof that DraftSessions implements DraftBoard: with the requests, the  *)
(* locks and the league hidden, the table of drafts changes as a board     *)
(* that serves one operation at a time, for all values of the constants.   *)
(*                                                                         *)
(* Each operation on a row is shown to be one operation on the board.  Two *)
(* facts carry the argument: IInv of DraftSessionsProofs (a row is open    *)
(* exactly while its status is active, its picks are 1..n, and the unique  *)
(* index sees every other open row), and TermsInv below (the team count    *)
(* and the rounds a request has read were both submitted, though perhaps   *)
(* by different PUT /league requests).  The seats of DraftBoard are        *)
(* computed by another formula than DraftPosition; SeatIsDraftPosition     *)
(* shows that the two agree.                                               *)
(***************************************************************************)
EXTENDS DraftSessionsProofs, SequenceTheorems

-------------------------------------------------------------------------------
(* Arithmetic of the snake. *)

\* The path 1, 2, ..., n, n, ..., 2, 1 of the board is what snake_pick_details
\* computes from the round and its parity.
LEMMA SeatIsDraftPosition ==
    ASSUME NEW k \in Nat \ {0}, NEW n \in Nat \ {0}
    PROVE  Board!Seat(k, n) = DraftPosition(k, n)
<1> DEFINE a == k - 1
           q == a \div n
           m == a % n
<1>1. a \in Nat /\ q \in Nat /\ m \in 0..(n - 1) /\ a = n * q + m
  BY SMT
<1>2. DraftPosition(k, n) = IF (q + 1) % 2 = 1 THEN m + 1 ELSE n - (m + 1) + 1
  BY DEF DraftPosition, RoundNumber, PickInRound
<1>3. Board!Seat(k, n) = IF a % (2 * n) < n THEN (a % (2 * n)) + 1
                                             ELSE 2 * n - (a % (2 * n))
  BY DEF Board!Seat
<1> HIDE DEF a, q, m
<1>4. PICK h \in Nat : q = 2 * h \/ q = 2 * h + 1
  <2>1. q = 2 * (q \div 2) + (q % 2) /\ q \div 2 \in Nat /\ q % 2 \in 0..1
    BY <1>1, SMT
  <2>2. QED
    BY <2>1, SMT
<1>5. CASE q = 2 * h
  <2>1. a = (2 * n) * h + m /\ m \in 0..(2 * n - 1) /\ 2 * n \in Nat \ {0}
    BY <1>1, <1>5, SMT
  <2>2. a % (2 * n) = m
    BY <1>1, <2>1, DivisionIsUnique
  <2>3. (q + 1) % 2 = 1
    BY <1>5, SMT
  <2>4. QED
    BY <1>1, <1>2, <1>3, <2>2, <2>3, SMT
<1>6. CASE q = 2 * h + 1
  <2>1. a = (2 * n) * h + (n + m) /\ n + m \in 0..(2 * n - 1) /\ 2 * n \in Nat \ {0}
    BY <1>1, <1>6, SMT
  <2> DEFINE b == n + m
             d == 2 * n
  <2>2. a = d * h + b /\ b \in 0..(d - 1) /\ d \in Nat \ {0}
    BY <2>1
  <2> HIDE DEF b, d
  <2>4. a % d = b
    BY <1>1, <2>2, DivisionIsUnique
  <2>3. (q + 1) % 2 = 0
    BY <1>6, SMT
  <2>5. QED
    BY <1>1, <1>2, <1>3, <1>6, <2>3, <2>4, SMT DEF b, d
<1>7. QED
  BY <1>4, <1>5, <1>6

-------------------------------------------------------------------------------
(* Rows and entries of the board. *)

\* What Board takes for its variable board.
TheBoard == [d \in DOMAIN drafts |-> BoardEntry(drafts[d])]

\* The entry of a draft, field by field.
Entry(t, s, u, l) == [terms |-> t, started |-> s, user |-> u, log |-> l]
TermsOf(x) == [teams |-> x.teams, rounds |-> x.rounds, pool |-> Projected[x.set]]
LogOf(x) == [k \in 1..Count(x) |->
               [player |-> x.picks[k].player, seat |-> x.picks[k].position]]

\* BoardEntry is built from these parts.
LEMMA EntryFields ==
    ASSUME NEW x
    PROVE  /\ BoardEntry(x) = Entry(TermsOf(x), x.status # "setup", x.user, LogOf(x))
           /\ BoardEntry(x).started <=> x.status # "setup"
           /\ BoardEntry(x).terms = TermsOf(x)
           /\ BoardEntry(x).user = x.user
           /\ BoardEntry(x).log = LogOf(x)
BY DEF BoardEntry, Entry, TermsOf, LogOf

\* Drafts with the same terms and picks have the same terms and log on the board.
LEMMA SameTerms ==
    ASSUME NEW x, NEW y, y.teams = x.teams, y.rounds = x.rounds, y.set = x.set
    PROVE  /\ TermsOf(y) = TermsOf(x)
           /\ y.picks = x.picks => LogOf(y) = LogOf(x)
BY DEF TermsOf, LogOf, Count

\* What the log of a draft records of a pick.
LogEntry == [player : Players, seat : Nat \ {0}]

\* The log of a good draft is the sequence of its picks.
LEMMA LogProperties ==
    ASSUME NEW x, GoodDraft(x)
    PROVE  /\ BoardEntry(x).log \in Seq(LogEntry)
           /\ Len(BoardEntry(x).log) = Count(x)
           /\ \A k \in 1..Count(x) :
                 BoardEntry(x).log[k] =
                    [player |-> x.picks[k].player, seat |-> x.picks[k].position]
<1> DEFINE n == Count(x)
           log == [k \in 1..n |-> [player |-> x.picks[k].player,
                                   seat |-> x.picks[k].position]]
<1>1. BoardEntry(x).log = log
  BY DEF BoardEntry
<1>2. n \in Nat /\ DOMAIN x.picks = 1..n /\ \A k \in 1..n : x.picks[k] \in Pick
  BY DEF GoodDraft, IsDraft, PicksInOrder
<1> HIDE DEF n
<1>3. log \in [1..n -> LogEntry]
  BY <1>2 DEF LogEntry, Pick
<1>4. log \in Seq(LogEntry) /\ Len(log) = n
  BY <1>2, <1>3
<1>5. QED
  BY <1>1, <1>4 DEF n

\* A draft is open on the board exactly while its row is active.
LEMMA OpenIsActive ==
    ASSUME NEW x, GoodDraft(x)
    PROVE  Board!Open(BoardEntry(x)) <=> Active(x)
<1>1. /\ BoardEntry(x).started <=> x.status # "setup"
      /\ BoardEntry(x).terms.teams = x.teams /\ BoardEntry(x).terms.rounds = x.rounds
  BY DEF BoardEntry
<1>2. Board!Full(BoardEntry(x)) <=> Count(x) = Total(x)
  BY <1>1, LogProperties DEF Board!Full, Total
<1>3. x.status \in Status /\ Count(x) \in Nat /\ Total(x) \in Nat \ {0}
  BY TotalIsPositive DEF GoodDraft, IsDraft, RowsWith, PicksInOrder
<1>4. x.status = "in_progress" => Count(x) # Total(x)
  BY <1>3 DEF GoodDraft, StatusFits
<1>5. x.status = "completed" => Count(x) = Total(x)
  BY DEF GoodDraft, StatusFits
<1>6. QED
  BY <1>1, <1>2, <1>3, <1>4, <1>5 DEF Board!Open, Active, Status

\* The unique index lets row d become active only if the board has no other
\* open draft.
LEMMA IndexClosesOthers ==
    ASSUME IInv, NEW d, IndexAllows(d)
    PROVE  Board!OthersClosed(d)
BY OpenIsActive DEF Board!OthersClosed, IInv, DraftsOK, IndexAllows, ActiveDrafts

\* The index allows what is active already.
LEMMA ActiveClosesOthers ==
    ASSUME IInv, NEW d \in ActiveDrafts
    PROVE  IndexAllows(d)
BY DEF IInv, DraftsOK, OneActiveDraft, IndexAllows

\* A committed row is the only change on the board.
LEMMA CommitOnBoard ==
    ASSUME IInv, NEW r \in Requests, NEW d \in DOMAIN drafts, NEW y, Commit(r, d, y)
    PROVE  TheBoard' = [TheBoard EXCEPT ![d] = BoardEntry(y)]
BY DEF Commit, TheBoard, IInv, DraftsOK

-------------------------------------------------------------------------------
(* The operations on the board. *)

\* The league, and whoever has read it, has terms somebody has submitted.
TeamChoices == {c.teams : c \in LeagueConfigs}
RoundChoices == {c.rounds : c \in LeagueConfigs}
TermsInv ==
    /\ league.teams \in TeamChoices \cup {0} /\ league.rounds \in RoundChoices \cup {0}
    /\ \A r \in Requests : /\ seen[r].teams \in TeamChoices \cup {0}
                           /\ seen[r].rounds \in RoundChoices \cup {0}
    /\ \A d \in DOMAIN drafts : drafts[d].teams \in TeamChoices

\* PUT /draft/setup changes the user's seat.
LEMMA SetupIsChangeUser ==
    ASSUME IInv, TermsInv, NEW r \in Requests, NEW d \in DOMAIN drafts, UpdateSetup(r, d)
    PROVE  Board!ChangeUser(d)
<1> DEFINE x == drafts[d]
<1>1. GoodDraft(x) /\ x \in RowsWith(x.picks)
  BY DEF IInv, DraftsOK, GoodDraft, IsDraft
<1>2. PICK u \in 1..x.teams :
        Commit(r, d, [x EXCEPT !.size = x.teams, !.user = u, !.picks = <<>>])
  BY DEF UpdateSetup
<1> DEFINE y == [x EXCEPT !.size = x.teams, !.user = u, !.picks = <<>>]
<1>3. /\ y.status = x.status /\ y.teams = x.teams /\ y.rounds = x.rounds
      /\ y.set = x.set /\ y.user = u /\ y.picks = x.picks
  <2>1. x.picks = <<>>
    BY <1>1, SetupHasNoPicks DEF UpdateSetup
  <2>2. QED
    BY <1>1, <2>1 DEF RowsWith
<1>4. TheBoard' = [TheBoard EXCEPT ![d] = BoardEntry(y)]
  BY <1>2, CommitOnBoard
<1> HIDE DEF y
<1>5. BoardEntry(y) = [BoardEntry(x) EXCEPT !.user = u]
  <2>1. TermsOf(y) = TermsOf(x) /\ LogOf(y) = LogOf(x)
    BY <1>3, SameTerms
  <2>2. BoardEntry(y) = Entry(TermsOf(x), x.status # "setup", u, LogOf(x))
    BY <1>3, <2>1, EntryFields, Zenon
  <2>3. BoardEntry(x) = Entry(TermsOf(x), x.status # "setup", x.user, LogOf(x))
    BY EntryFields
  <2>4. [Entry(TermsOf(x), x.status # "setup", x.user, LogOf(x)) EXCEPT !.user = u]
           = Entry(TermsOf(x), x.status # "setup", u, LogOf(x))
    BY DEF Entry
  <2>5. QED
    BY <2>2, <2>3, <2>4, Zenon
<1>6. TheBoard[d] = BoardEntry(x)
  BY DEF TheBoard
<1>7. TheBoard' = [TheBoard EXCEPT ![d] = [TheBoard[d] EXCEPT !.user = u]]
  BY <1>4, <1>5, <1>6
<1>8. u \in UNION {1..c.teams : c \in LeagueConfigs} /\ u <= TheBoard[d].terms.teams
  <2>1. PICK c \in LeagueConfigs : x.teams = c.teams
    BY DEF TermsInv, TeamChoices
  <2>2. TheBoard[d].terms.teams = x.teams /\ x.teams \in Nat
    <3>1. x.teams \in TeamCounts
      BY <1>1 DEF RowsWith
    <3>2. TheBoard[d].terms = TermsOf(x)
      BY <1>6, EntryFields
    <3>3. QED
      BY <3>1, <3>2, TeamCountsArePositive DEF TermsOf
  <2>3. QED
    BY <2>1, <2>2
<1>9. ~TheBoard[d].started
  <2>1. x.status = "setup"
    BY DEF UpdateSetup
  <2>2. QED
    BY <1>6, <2>1, EntryFields, Zenon
<1>10. QED
  BY <1>7, <1>8, <1>9 DEF Board!ChangeUser, TheBoard

\* POST /draft/start starts the draft.
LEMMA StartIsStart ==
    ASSUME IInv, NEW r \in Requests, NEW d \in DOMAIN drafts, StartDraft(r, d)
    PROVE  Board!Start(d)
<1> DEFINE x == drafts[d]
           y == [x EXCEPT !.status = "in_progress"]
<1>1. GoodDraft(x) /\ x \in RowsWith(x.picks)
  BY DEF IInv, DraftsOK, GoodDraft, IsDraft
<1>2. /\ y.status = "in_progress" /\ y.teams = x.teams /\ y.rounds = x.rounds
      /\ y.set = x.set /\ y.user = x.user /\ y.picks = x.picks
  BY <1>1 DEF RowsWith
<1>3. TheBoard' = [TheBoard EXCEPT ![d] = BoardEntry(y)]
  BY CommitOnBoard DEF StartDraft
<1> HIDE DEF y
<1>4. BoardEntry(y) = [BoardEntry(x) EXCEPT !.started = TRUE]
  <2>1. TermsOf(y) = TermsOf(x) /\ LogOf(y) = LogOf(x)
    BY <1>2, SameTerms
  <2>2. (y.status # "setup") = TRUE
    BY <1>2
  <2>3. BoardEntry(y) = Entry(TermsOf(x), TRUE, x.user, LogOf(x))
    BY <1>2, <2>1, <2>2, EntryFields, Zenon
  <2>4. BoardEntry(x) = Entry(TermsOf(x), x.status # "setup", x.user, LogOf(x))
    BY EntryFields
  <2>5. [Entry(TermsOf(x), x.status # "setup", x.user, LogOf(x)) EXCEPT !.started = TRUE]
           = Entry(TermsOf(x), TRUE, x.user, LogOf(x))
    <3>1. \A s, z : [Entry(TermsOf(x), s, x.user, LogOf(x)) EXCEPT !.started = z]
                      = Entry(TermsOf(x), z, x.user, LogOf(x))
      BY DEF Entry
    <3>2. QED
      BY <3>1, Zenon
  <2>6. QED
    BY <2>3, <2>4, <2>5, Zenon
<1>5. TheBoard[d] = BoardEntry(x)
  BY DEF TheBoard
<1>6. TheBoard' = [TheBoard EXCEPT ![d] = [TheBoard[d] EXCEPT !.started = TRUE]]
  BY <1>3, <1>4, <1>5
<1>7. ~TheBoard[d].started
  <2>1. x.status = "setup"
    BY DEF StartDraft
  <2>2. QED
    BY <1>5, <2>1, EntryFields, Zenon
<1>8. QED
  BY <1>6, <1>7 DEF Board!Start, TheBoard

\* POST /draft/reset starts the draft over.
LEMMA ResetIsStartOver ==
    ASSUME IInv, NEW r \in Requests, NEW d \in DOMAIN drafts, ResetDraft(r, d)
    PROVE  Board!StartOver(d)
<1> DEFINE x == drafts[d]
           y == [x EXCEPT !.picks = <<>>, !.status = "setup"]
<1>1. GoodDraft(x) /\ x \in RowsWith(x.picks)
  BY DEF IInv, DraftsOK, GoodDraft, IsDraft
<1>2. /\ y.status = "setup" /\ y.teams = x.teams /\ y.rounds = x.rounds
      /\ y.set = x.set /\ y.user = x.user /\ y.picks = <<>>
  BY <1>1 DEF RowsWith
<1>3. TheBoard' = [TheBoard EXCEPT ![d] = BoardEntry(y)]
  BY CommitOnBoard DEF ResetDraft
<1>4. GoodDraft(y)
  BY <1>1, ResetKeepsGood
<1> HIDE DEF y
<1>5. BoardEntry(y).log = <<>>
  <2>1. Count(y) = 0
    BY <1>2, NoPicks DEF Count
  <2>2. QED
    BY <1>4, <2>1, LogProperties, EmptySeq
<1>6. BoardEntry(y) = [[BoardEntry(x) EXCEPT !.log = <<>>] EXCEPT !.started = FALSE]
  <2>1. TermsOf(y) = TermsOf(x) /\ LogOf(y) = <<>>
    BY <1>2, <1>5, SameTerms, EntryFields
  <2>2. (y.status # "setup") = FALSE
    BY <1>2
  <2>3. BoardEntry(y) = Entry(TermsOf(x), FALSE, x.user, <<>>)
    BY <1>2, <2>1, <2>2, EntryFields, Zenon
  <2>4. BoardEntry(x) = Entry(TermsOf(x), x.status # "setup", x.user, LogOf(x))
    BY EntryFields
  <2>5. [BoardEntry(x) EXCEPT !.log = <<>>]
           = Entry(TermsOf(x), x.status # "setup", x.user, <<>>)
    <3>1. \A s, z : [Entry(TermsOf(x), s, x.user, LogOf(x)) EXCEPT !.log = z]
                      = Entry(TermsOf(x), s, x.user, z)
      BY DEF Entry
    <3>2. QED
      BY <2>4, <3>1, Zenon
  <2>6. [Entry(TermsOf(x), x.status # "setup", x.user, <<>>) EXCEPT !.started = FALSE]
           = Entry(TermsOf(x), FALSE, x.user, <<>>)
    <3>1. \A s, l, z : [Entry(TermsOf(x), s, x.user, l) EXCEPT !.started = z]
                         = Entry(TermsOf(x), z, x.user, l)
      BY DEF Entry
    <3>2. QED
      BY <3>1, Zenon
  <2>7. QED
    BY <2>3, <2>5, <2>6, Zenon
<1>7. TheBoard[d] = BoardEntry(x) /\ TheBoard = [e \in DOMAIN TheBoard |-> TheBoard[e]]
      /\ d \in DOMAIN TheBoard
  BY DEF TheBoard
<1>8. TheBoard' = [TheBoard EXCEPT ![d] =
                     [[TheBoard[d] EXCEPT !.log = <<>>] EXCEPT !.started = FALSE]]
  BY <1>3, <1>6, <1>7
<1>9. TheBoard' = [TheBoard EXCEPT ![d].log = <<>>, ![d].started = FALSE]
  BY <1>7, <1>8
<1>10. Board!OthersClosed(d)
  BY IndexClosesOthers DEF ResetDraft
<1>11. QED
  BY <1>9, <1>10 DEF Board!StartOver, TheBoard

\* DELETE /draft discards an open draft.
LEMMA DeleteIsDiscard ==
    ASSUME IInv, NEW r \in Requests, NEW d \in DOMAIN drafts, DeleteDraft(r, d)
    PROVE  Board!Discard(d)
<1>1. GoodDraft(drafts[d]) /\ drafts[d].status \in Status
  BY DEF IInv, DraftsOK, GoodDraft, IsDraft, RowsWith
<1>2. Active(drafts[d])
  BY <1>1 DEF DeleteDraft, Status, Active
<1>3. TheBoard[d] = BoardEntry(drafts[d]) /\ DOMAIN TheBoard = DOMAIN drafts
  BY DEF TheBoard
<1>4. Board!Open(TheBoard[d])
  BY <1>1, <1>2, <1>3, OpenIsActive
<1>5. TheBoard' = [e \in DOMAIN TheBoard \ {d} |-> TheBoard[e]]
  BY DEF DeleteDraft, TheBoard
<1>6. QED
  BY <1>4, <1>5 DEF Board!Discard, TheBoard

\* POST /draft/picks takes a player for the seat on the clock.
LEMMA PickIsTakePlayer ==
    ASSUME IInv, NEW r \in Requests, NEW d \in DOMAIN drafts, NEW p \in Players,
           CreatePick(r, d, p)
    PROVE  Board!TakePlayer(d)
<1> DEFINE x == drafts[d]
           n == Count(x)
           new == [player |-> p, position |-> DraftPosition(n + 1, x.teams)]
           saved == [k \in DOMAIN x.picks \cup {n + 1} |->
                       IF k = n + 1 THEN new ELSE x.picks[k]]
           y == [x EXCEPT !.picks = saved,
                          !.status = IF n + 1 = Total(x) THEN "completed"
                                                         ELSE "in_progress"]
           taken == [player |-> p, seat |-> Board!Seat(n + 1, x.teams)]
<1>1. GoodDraft(x) /\ x \in RowsWith(x.picks) /\ x.teams \in Nat \ {0}
  BY TeamCountsArePositive DEF IInv, DraftsOK, GoodDraft, IsDraft, RowsWith
<1>2. x.status = "in_progress" /\ Available(x, p) /\ Commit(r, d, y)
  BY DEF CreatePick
<1>3. GoodDraft(y)
  BY <1>1, <1>2, PickKeepsGood
<1>4. /\ y.status # "setup" /\ y.teams = x.teams /\ y.rounds = x.rounds
      /\ y.set = x.set /\ y.user = x.user /\ y.picks = saved
  BY <1>1 DEF RowsWith
<1>5. n \in Nat /\ DOMAIN x.picks = 1..n /\ n < Total(x)
  BY <1>1, <1>2 DEF GoodDraft, PicksInOrder, StatusFits
<1>6. TheBoard' = [TheBoard EXCEPT ![d] = BoardEntry(y)]
  BY <1>2, CommitOnBoard
<1> HIDE DEF y
<1>7. /\ saved[n + 1] = new
      /\ \A k \in 1..n : saved[k] = x.picks[k]
      /\ DOMAIN saved = 1..(n + 1)
  BY <1>5, SMT
<1>8. Count(y) = n + 1
  <2>1. n + 1 \in Nat
    BY <1>5, SMT
  <2>2. QED
    BY <1>4, <1>7, <2>1, CountOfInterval DEF Count
<1>9. new.position = Board!Seat(n + 1, x.teams) /\ new.player = p
  <2>1. n + 1 \in Nat \ {0}
    BY <1>5, SMT
  <2>2. QED
    BY <1>1, <2>1, SeatIsDraftPosition
<1> HIDE DEF n, saved, new
<1>10. /\ LogOf(x) \in Seq(LogEntry) /\ Len(LogOf(x)) = n
       /\ \A k \in 1..n : LogOf(x)[k] = [player |-> x.picks[k].player,
                                         seat |-> x.picks[k].position]
  BY <1>1, LogProperties, EntryFields DEF n
<1>11. /\ LogOf(y) \in Seq(LogEntry) /\ Len(LogOf(y)) = n + 1
       /\ \A k \in 1..(n + 1) : LogOf(y)[k] = [player |-> saved[k].player,
                                               seat |-> saved[k].position]
  BY <1>3, <1>4, <1>8, LogProperties, EntryFields
<1>12. LogOf(y)[n + 1] = taken
  BY <1>5, <1>7, <1>9, <1>11
<1>13. taken \in LogEntry
  <2>1. LogOf(y)[n + 1] \in LogEntry
    BY <1>5, <1>11, ElementOfSeq, SMT
  <2>2. QED
    BY <1>12, <2>1
<1> HIDE DEF taken
<1>14. LogOf(y) = Append(LogOf(x), taken)
  <2>1. /\ Append(LogOf(x), taken) \in Seq(LogEntry)
        /\ Len(Append(LogOf(x), taken)) = n + 1
        /\ \A k \in 1..n : Append(LogOf(x), taken)[k] = LogOf(x)[k]
        /\ Append(LogOf(x), taken)[n + 1] = taken
    BY <1>10, <1>13, AppendProperties
  <2>2. \A k \in 1..n : LogOf(y)[k] = LogOf(x)[k]
    BY <1>5, <1>7, <1>10, <1>11
  <2>3. \A k \in 1..(n + 1) : LogOf(y)[k] = Append(LogOf(x), taken)[k]
    <3>1. \A k \in 1..(n + 1) : k \in 1..n \/ k = n + 1
      BY <1>5, SMT
    <3>2. QED
      BY <1>12, <2>1, <2>2, <3>1
  <2>4. QED
    BY <1>11, <2>1, <2>3, SeqEqual
<1>15. TheBoard[d] = BoardEntry(x)
  BY DEF TheBoard
<1>16. BoardEntry(y) = [TheBoard[d] EXCEPT !.log = Append(LogOf(x), taken)]
  <2>1. TermsOf(y) = TermsOf(x)
    BY <1>4, SameTerms
  <2>2. (y.status # "setup") = TRUE /\ (x.status # "setup") = TRUE
    BY <1>2, <1>4
  <2>3. BoardEntry(y) = Entry(TermsOf(x), TRUE, x.user, Append(LogOf(x), taken))
    BY <1>4, <1>14, <2>1, <2>2, EntryFields, Zenon
  <2>4. BoardEntry(x) = Entry(TermsOf(x), TRUE, x.user, LogOf(x))
    BY <2>2, EntryFields, Zenon
  <2>5. \A s, l : [Entry(TermsOf(x), s, x.user, LogOf(x)) EXCEPT !.log = l]
                    = Entry(TermsOf(x), s, x.user, l)
    BY DEF Entry
  <2>6. [BoardEntry(x) EXCEPT !.log = Append(LogOf(x), taken)]
           = Entry(TermsOf(x), TRUE, x.user, Append(LogOf(x), taken))
    BY <2>4, <2>5, Zenon
  <2>7. QED
    BY <1>15, <2>3, <2>6, Zenon
<1>17. /\ TheBoard[d].log = LogOf(x) /\ TheBoard[d].terms = TermsOf(x)
       /\ TheBoard[d].terms.teams = x.teams /\ TheBoard[d].terms.rounds = x.rounds
       /\ TheBoard[d].terms.pool = Projected[x.set]
  BY <1>15, EntryFields DEF TermsOf
<1>18. TheBoard[d].started
  BY <1>2, <1>15, EntryFields
<1>19. ~Board!Full(TheBoard[d])
  BY <1>1, <1>5, <1>10, <1>17 DEF Board!Full, Total
<1>20. p \in TheBoard[d].terms.pool \ Board!Drafted(TheBoard[d])
  <2>1. Board!Drafted(TheBoard[d]) = Taken(x)
    BY <1>5, <1>10, <1>17 DEF Board!Drafted, Taken
  <2>2. QED
    BY <1>2, <1>17, <2>1 DEF Available
<1>21. taken = [player |-> p,
                seat |-> Board!Seat(Len(TheBoard[d].log) + 1, TheBoard[d].terms.teams)]
  BY <1>10, <1>17 DEF taken
<1>22. TheBoard' = [TheBoard EXCEPT ![d] =
                      [TheBoard[d] EXCEPT !.log = Append(TheBoard[d].log, taken)]]
  BY <1>6, <1>16, <1>17
<1>23. QED
  BY <1>18, <1>19, <1>20, <1>21, <1>22 DEF Board!TakePlayer, TheBoard

\* DELETE /draft/picks/latest takes the last player back.
LEMMA UndoIsTakeBack ==
    ASSUME IInv, NEW r \in Requests, NEW d \in DOMAIN drafts, UndoLatestPick(r, d)
    PROVE  Board!TakeBack(d)
<1> DEFINE x == drafts[d]
           n == Count(x)
           kept(last) == [k \in DOMAIN x.picks \ {last} |-> x.picks[k]]
           y(last) == [x EXCEPT !.picks = kept(last),
                                !.status = IF x.status = "completed" THEN "in_progress"
                                                                     ELSE x.status]
<1>1. GoodDraft(x) /\ x \in RowsWith(x.picks) /\ x.status \in Status
  BY DEF IInv, DraftsOK, GoodDraft, IsDraft, RowsWith
<1>2. PICK last \in DOMAIN x.picks :
        IsLatest(last, DOMAIN x.picks) /\ Commit(r, d, y(last))
  BY DEF UndoLatestPick
<1>3. GoodDraft(y(last))
  BY <1>1, <1>2, UndoKeepsGood
<1>4. n \in Nat /\ DOMAIN x.picks = 1..n
  BY <1>1 DEF GoodDraft, PicksInOrder
<1>5. last = n /\ n - 1 \in Nat
  BY <1>2, <1>4, SMT DEF IsLatest
<1>6. x.status \in {"in_progress", "completed"}
  <2>1. x.status # "setup"
    BY <1>1, <1>4, <1>5, SMT DEF GoodDraft, StatusFits
  <2>2. QED
    BY <1>1, <2>1 DEF Status
<1>7. /\ y(last).status = "in_progress" /\ y(last).teams = x.teams
      /\ y(last).rounds = x.rounds /\ y(last).set = x.set /\ y(last).user = x.user
      /\ y(last).picks = kept(last)
  BY <1>1, <1>6 DEF RowsWith
<1>8. TheBoard' = [TheBoard EXCEPT ![d] = BoardEntry(y(last))]
  BY <1>2, CommitOnBoard
<1> DEFINE z == y(last)
           P == kept(last)
<1>9. /\ z.status = "in_progress" /\ z.teams = x.teams /\ z.rounds = x.rounds
      /\ z.set = x.set /\ z.user = x.user /\ z.picks = P
      /\ GoodDraft(z) /\ TheBoard' = [TheBoard EXCEPT ![d] = BoardEntry(z)]
  BY <1>3, <1>7, <1>8
<1>10. DOMAIN P = 1..(n - 1) /\ \A k \in 1..(n - 1) : P[k] = x.picks[k]
  BY <1>4, <1>5, SMT
<1> HIDE DEF z, P, y, kept
<1>11. Count(z) = n - 1
  BY <1>5, <1>9, <1>10, CountOfInterval DEF Count
<1>0. n \in Nat
  BY <1>4
<1> HIDE DEF n
<1>12. /\ LogOf(x) \in Seq(LogEntry) /\ Len(LogOf(x)) = n
       /\ \A k \in 1..n : LogOf(x)[k] = [player |-> x.picks[k].player,
                                         seat |-> x.picks[k].position]
  BY <1>1, LogProperties, EntryFields DEF n
<1>13. /\ LogOf(z) \in Seq(LogEntry) /\ Len(LogOf(z)) = n - 1
       /\ \A k \in 1..(n - 1) : LogOf(z)[k] = [player |-> P[k].player,
                                               seat |-> P[k].position]
  BY <1>9, <1>11, LogProperties, EntryFields
<1>14. LogOf(z) = SubSeq(LogOf(x), 1, n - 1)
  <2> DEFINE front == SubSeq(LogOf(x), 1, n - 1)
  <2>1. \A k \in 1..(n - 1) : LogOf(x)[k] \in LogEntry /\ LogOf(z)[k] = LogOf(x)[k]
    <3>1. \A k \in 1..(n - 1) : k \in 1..n
      BY <1>0, <1>5, SMT
    <3>2. \A k \in 1..n : LogOf(x)[k] \in LogEntry
      BY <1>12, ElementOfSeq
    <3>3. QED
      BY <1>10, <1>12, <1>13, <3>1, <3>2
  <2>2. /\ front \in Seq(LogEntry)
        /\ Len(front) = IF 1 <= n - 1 THEN (n - 1) - 1 + 1 ELSE 0
        /\ \A k \in 1..((n - 1) - 1 + 1) : front[k] = LogOf(x)[1 + k - 1]
    <3>1. 1 \in Int /\ n - 1 \in Int
      BY <1>5, SMT
    <3>2. \A i \in 1..(n - 1) : LogOf(x)[i] \in LogEntry
      BY <2>1
    <3>3. QED
      BY <3>1, <3>2, SubSeqProperties
  <2> HIDE DEF front
  <2>3. Len(front) = n - 1 /\ \A k \in 1..(n - 1) : front[k] = LogOf(x)[k]
    <3>1. (n - 1) - 1 + 1 = n - 1 /\ \A k \in 1..(n - 1) : 1 + k - 1 = k
      BY <1>5, SMT
    <3>2. (IF 1 <= n - 1 THEN n - 1 ELSE 0) = n - 1
      BY <1>5, SMT
    <3>3. QED
      BY <2>2, <3>1, <3>2, Zenon
  <2>4. QED
    BY <1>13, <2>1, <2>2, <2>3, SeqEqual DEF front
<1>15. TheBoard[d] = BoardEntry(x)
  BY DEF TheBoard
<1>16. BoardEntry(z) = [TheBoard[d] EXCEPT !.log = SubSeq(LogOf(x), 1, n - 1)]
  <2>1. TermsOf(z) = TermsOf(x)
    BY <1>9, SameTerms
  <2>2. (z.status # "setup") = TRUE /\ (x.status # "setup") = TRUE
    BY <1>6, <1>9
  <2>3. BoardEntry(z) = Entry(TermsOf(x), TRUE, x.user, SubSeq(LogOf(x), 1, n - 1))
    BY <1>9, <1>14, <2>1, <2>2, EntryFields, Zenon
  <2>4. BoardEntry(x) = Entry(TermsOf(x), TRUE, x.user, LogOf(x))
    BY <2>2, EntryFields, Zenon
  <2>5. \A s, l : [Entry(TermsOf(x), s, x.user, LogOf(x)) EXCEPT !.log = l]
                    = Entry(TermsOf(x), s, x.user, l)
    BY DEF Entry
  <2>6. [BoardEntry(x) EXCEPT !.log = SubSeq(LogOf(x), 1, n - 1)]
           = Entry(TermsOf(x), TRUE, x.user, SubSeq(LogOf(x), 1, n - 1))
    BY <2>4, <2>5, Zenon
  <2>7. QED
    BY <1>15, <2>3, <2>6, Zenon
<1>17. TheBoard[d].log = LogOf(x)
  BY <1>15, EntryFields
<1>18. TheBoard[d].log # <<>>
  BY <1>5, <1>12, <1>17, EmptySeq, SMT
<1>19. Board!OthersClosed(d)
  <2>1. CASE x.status = "completed"
    BY <2>1, IndexClosesOthers DEF UndoLatestPick
  <2>2. CASE x.status = "in_progress"
    <3>1. d \in ActiveDrafts
      BY <2>2 DEF ActiveDrafts, Active
    <3>2. QED
      BY <3>1, ActiveClosesOthers, IndexClosesOthers
  <2>3. QED
    BY <1>6, <2>1, <2>2
<1>20. TheBoard' = [TheBoard EXCEPT ![d] =
                      [TheBoard[d] EXCEPT !.log =
                         SubSeq(TheBoard[d].log, 1, Len(TheBoard[d].log) - 1)]]
  BY <1>9, <1>12, <1>16, <1>17
<1>21. QED
  BY <1>18, <1>19, <1>20 DEF Board!TakeBack, TheBoard

\* POST /draft creates a draft with terms of a league somebody has submitted.
LEMMA InsertIsCreate ==
    ASSUME IInv, TermsInv, NEW r \in Requests, InsertDraft(r)
    PROVE  /\ Board!CreateDraft(stamp[r])
           /\ stamp[r] \in DraftIds
           /\ DOMAIN drafts' = DOMAIN drafts \cup {stamp[r]}
           /\ drafts'[stamp[r]].teams \in TeamChoices
<1> DEFINE s == stamp[r]
           terms == seen[r]
<1> DEFINE Inserts(n, u) ==
              /\ n = terms.teams
              /\ drafts' = [e \in DOMAIN drafts \cup {s} |->
                              IF e = s THEN NewDraft(terms, n, u) ELSE drafts[e]]
<1>0. PICK n \in TeamCounts : \E u \in 1..n : Inserts(n, u)
  BY DEF InsertDraft
<1>1. PICK u \in 1..n : Inserts(n, u)
  BY <1>0
<1> DEFINE y == NewDraft(terms, n, u)
<1>2. /\ pc[r] = "create_insert" /\ terms.rounds > 0 /\ ActiveDrafts = {}
  BY DEF InsertDraft
<1>3. s \in DraftIds /\ s \notin DOMAIN drafts
  <2>1. s \in 0..MaxDrafts /\ s # 0
    BY <1>2 DEF IInv, RequestsOK, RequestTypesOK, StampsOK
  <2>2. s \notin DOMAIN drafts
    BY DEF IInv, RequestsOK, LocksAreSound
  <2>3. QED
    BY <2>1, <2>2, BoundAssumption, SMT DEF DraftIds
<1>4. /\ terms.teams \in TeamChoices
      /\ terms.rounds \in RoundChoices \ {0} /\ terms.rounds \in Nat \ {0}
      /\ terms.set \in 1..MaxSets
  <2>1. /\ terms.rounds \in Nat /\ terms.set \in 0..MaxSets /\ terms.set # 0
    BY <1>2 DEF IInv, RequestsOK, RequestTypesOK, StampsOK
  <2>2. n # 0
    BY <1>1, SMT DEF TeamCounts
  <2>3. terms.rounds # 0 /\ terms.set \in 1..MaxSets
    BY <1>2, <2>1, BoundAssumption, SMT
  <2>4. QED
    BY <1>1, <2>1, <2>2, <2>3 DEF TermsInv
<1>5. GoodDraft(y)
  BY <1>1, <1>4, NewDraftIsGood
<1>6. /\ y.status = "setup" /\ y.teams = n /\ y.rounds = terms.rounds
      /\ y.set = terms.set /\ y.user = u /\ y.picks = <<>>
  BY <1>1 DEF NewDraft
<1> HIDE DEF y
<1>7. LogOf(y) = <<>>
  <2>1. Count(y) = 0
    BY <1>6, NoPicks DEF Count
  <2>2. QED
    BY <1>5, <2>1, LogProperties, EntryFields, EmptySeq
<1> DEFINE t == [teams |-> terms.teams, rounds |-> terms.rounds, pool |-> Projected[terms.set]]
<1>8. TermsOf(y) = t /\ t.teams = n
  BY <1>1, <1>6 DEF TermsOf
<1>9. t \in [teams : TeamChoices, rounds : RoundChoices \ {0},
             pool : {Projected[i] : i \in 1..MaxSets}]
  BY <1>4
<1> HIDE DEF t
<1>10. BoardEntry(y) = [terms |-> t, started |-> FALSE, user |-> u, log |-> <<>>]
  <2>1. (y.status # "setup") = FALSE
    BY <1>6
  <2>2. BoardEntry(y) = Entry(t, FALSE, u, <<>>)
    BY <1>6, <1>7, <1>8, <2>1, EntryFields, Zenon
  <2>3. QED
    BY <2>2, Zenon DEF Entry
<1>11. TheBoard' = [e \in DOMAIN TheBoard \cup {s} |->
                      IF e = s THEN BoardEntry(y) ELSE TheBoard[e]]
  <2>1. /\ DOMAIN drafts' = DOMAIN drafts \cup {s}
        /\ drafts'[s] = y
        /\ \A e \in DOMAIN drafts : e # s /\ drafts'[e] = drafts[e]
    BY <1>1, <1>3 DEF y
  <2>2. QED
    BY <2>1 DEF TheBoard
<1>12. TheBoard' = [e \in DOMAIN TheBoard \cup {s} |->
                      IF e = s
                      THEN [terms |-> t, started |-> FALSE, user |-> u, log |-> <<>>]
                      ELSE TheBoard[e]]
  BY <1>10, <1>11, Zenon
<1>13. u \in UNION {1..c.teams : c \in LeagueConfigs} /\ u <= t.teams
  <2>1. PICK c \in LeagueConfigs : n = c.teams
    BY <1>1, <1>4 DEF TeamChoices
  <2>2. u <= n
    BY SMT DEF TeamCounts
  <2>3. QED
    BY <2>1, <2>2, <1>8
<1>14. s \notin DOMAIN TheBoard /\ Board!OthersClosed(s)
  <2>1. IndexAllows(s)
    BY <1>2 DEF IndexAllows
  <2>2. QED
    BY <1>3, <2>1, IndexClosesOthers DEF TheBoard
<1>15. Board!CreateDraft(s)
  BY <1>9, <1>12, <1>13, <1>14 DEF Board!CreateDraft, TheBoard, TeamChoices, RoundChoices
<1>16. DOMAIN drafts' = DOMAIN drafts \cup {s} /\ drafts'[s].teams \in TeamChoices
  BY <1>1, <1>4, <1>6 DEF y
<1>17. QED
  BY <1>3, <1>15, <1>16

-------------------------------------------------------------------------------
(* Every step is an operation on the board or leaves it alone. *)

\* A locked operation is one operation on its draft.
LEMMA LockedWorkIsOnBoard ==
    ASSUME IInv, TermsInv, NEW r \in Requests, NEW d \in DOMAIN drafts,
           \/ UpdateSetup(r, d) \/ StartDraft(r, d) \/ DeleteDraft(r, d)
           \/ ResetDraft(r, d) \/ UndoLatestPick(r, d)
           \/ \E p \in Players : CreatePick(r, d, p)
    PROVE  Board!Next
<1>1. \/ Board!ChangeUser(d) \/ Board!Start(d) \/ Board!TakePlayer(d)
      \/ Board!TakeBack(d) \/ Board!StartOver(d) \/ Board!Discard(d)
  BY SetupIsChangeUser, StartIsStart, DeleteIsDiscard, ResetIsStartOver, UndoIsTakeBack,
     PickIsTakePlayer
<1>2. d \in DOMAIN [e \in DOMAIN drafts |-> BoardEntry(drafts[e])]
  OBVIOUS
<1>3. QED
  BY <1>1, <1>2 DEF Board!Next

\* So is the insert; no other step changes the board.
LEMMA StepIsOnBoard ==
    ASSUME IInv, TermsInv, [Next]_vars
    PROVE  Board!Next \/ UNCHANGED TheBoard
<1>1. CASE \E r \in Requests, d \in DOMAIN drafts :
               \/ UpdateSetup(r, d) \/ StartDraft(r, d) \/ DeleteDraft(r, d)
               \/ ResetDraft(r, d) \/ UndoLatestPick(r, d)
               \/ \E p \in Players : CreatePick(r, d, p)
  BY <1>1, LockedWorkIsOnBoard
<1>2. ASSUME NEW r \in Requests, InsertDraft(r) PROVE Board!Next
  BY <1>2, InsertIsCreate DEF Board!Next
<1>3. CASE UNCHANGED drafts
  BY <1>3 DEF TheBoard
<1>4. QED
  BY <1>1, <1>2, <1>3, OtherSteps

\* What a step does to the settings and to what requests have read of them.
LEMMA ReadsAndWrites ==
    ASSUME IInv, TermsInv, [Next]_vars
    PROVE  /\ league'.teams \in TeamChoices \cup {0}
           /\ league'.rounds \in RoundChoices \cup {0}
           /\ \A q \in Requests : /\ seen'[q].teams \in TeamChoices \cup {0}
                                  /\ seen'[q].rounds \in RoundChoices \cup {0}
<1> DEFINE LeagueFits == /\ league'.teams \in TeamChoices \cup {0}
                         /\ league'.rounds \in RoundChoices \cup {0}
           SeenFits == \A q \in Requests : /\ seen'[q].teams \in TeamChoices \cup {0}
                                           /\ seen'[q].rounds \in RoundChoices \cup {0}
<1>1. seen \in [Requests -> [teams : TeamCounts \cup {0}, rounds : Nat, set : 0..MaxSets]]
  BY DEF IInv, RequestsOK, RequestTypesOK
<1>2. UNCHANGED league => LeagueFits
  BY DEF TermsInv
<1>3. UNCHANGED seen => SeenFits
  BY DEF TermsInv
<1>4. ASSUME NEW r \in Requests, End(r) PROVE SeenFits
  BY <1>1, <1>4 DEF End, Unread, TermsInv
<1>5. ASSUME NEW r \in Requests, WriteLeague(r) PROVE LeagueFits
  BY <1>5 DEF WriteLeague, TermsInv, TeamChoices, RoundChoices
<1>6. ASSUME NEW r \in Requests, ReadLeague(r) \/ LoadLeague(r) PROVE SeenFits
  <2>1. seen' = [seen EXCEPT ![r].teams = league.teams]
    BY <1>6 DEF ReadLeague, LoadLeague
  <2>2. QED
    BY <1>1, <2>1 DEF TermsInv
<1>7. ASSUME NEW r \in Requests, ReadRoster(r) PROVE SeenFits
  BY <1>1, <1>7 DEF ReadRoster, TermsInv
<1>8. ASSUME NEW r \in Requests, ReadActiveSet(r) PROVE SeenFits
  BY <1>1, <1>8 DEF ReadActiveSet, TermsInv
<1>9. ASSUME NEW r \in Requests, NEW d \in DOMAIN drafts,
             \/ UpdateSetup(r, d) \/ StartDraft(r, d) \/ DeleteDraft(r, d)
             \/ ResetDraft(r, d) \/ UndoLatestPick(r, d)
             \/ \E p \in Players : CreatePick(r, d, p)
      PROVE  End(r) /\ UNCHANGED league
  BY <1>9 DEF UpdateSetup, StartDraft, DeleteDraft, ResetDraft, UndoLatestPick, CreatePick,
              Commit
<1>10. ASSUME NEW r \in Requests, Begin(r) PROVE UNCHANGED <<league, seen>>
  BY <1>10 DEF Begin, BeginCreate, BeginLocked, BeginReplace, dataVars
<1>11. ASSUME NEW r \in Requests, LockRow(r) PROVE UNCHANGED <<league, seen>>
  BY <1>11 DEF LockRow, dataVars
<1>12. ASSUME NEW r \in Requests,
              ReadLeague(r) \/ ReadRoster(r) \/ ReadActiveSet(r) \/ LoadLeague(r)
       PROVE  UNCHANGED league
  BY <1>12 DEF ReadLeague, ReadRoster, ReadActiveSet, LoadLeague, dataVars
<1>13. ASSUME NEW r \in Requests, InsertDraft(r) \/ Refuse(r) \/ RollBack(r)
       PROVE  End(r) /\ UNCHANGED league
  BY <1>13 DEF InsertDraft, Refuse, RollBack, dataVars
<1>14. ASSUME NEW r \in Requests, WriteLeague(r) PROVE End(r)
  BY <1>14 DEF WriteLeague
<1>15. ASSUME NEW r \in Requests, Work(r) PROVE LeagueFits /\ SeenFits
  <2>1. CASE ReadLeague(r) \/ ReadRoster(r) \/ ReadActiveSet(r) \/ LoadLeague(r)
    BY <2>1, <1>2, <1>6, <1>7, <1>8, <1>12
  <2>2. CASE InsertDraft(r) \/ Refuse(r)
    BY <2>2, <1>2, <1>4, <1>13
  <2>3. CASE LockRow(r)
    BY <2>3, <1>2, <1>3, <1>11
  <2>4. CASE \E d \in DOMAIN drafts :
                \/ UpdateSetup(r, d) \/ StartDraft(r, d) \/ DeleteDraft(r, d)
                \/ ResetDraft(r, d) \/ UndoLatestPick(r, d)
                \/ \E p \in Players : CreatePick(r, d, p)
    BY <2>4, <1>2, <1>4, <1>9
  <2>5. CASE WriteLeague(r)
    BY <2>5, <1>4, <1>5, <1>14
  <2>6. QED
    BY <1>15, <2>1, <2>2, <2>3, <2>4, <2>5 DEF Work
<1>16. CASE ImportProjections \/ UNCHANGED vars
  BY <1>2, <1>3, <1>16 DEF ImportProjections, requestVars, vars
<1>17. QED
  BY <1>2, <1>3, <1>4, <1>10, <1>13, <1>15, <1>16 DEF Next

\* The terms stay those somebody has submitted.
LEMMA StepKeepsTermsInv ==
    ASSUME IInv, TermsInv, [Next]_vars
    PROVE  TermsInv'
<1>1. ASSUME NEW d \in DOMAIN drafts' PROVE drafts'[d].teams \in TeamChoices
  <2>1. CASE d \in DOMAIN drafts
    BY <1>1, <2>1, StepKeepsTerms DEF TermsKept, TermsInv
  <2>2. CASE d \notin DOMAIN drafts
    <3>1. ASSUME NEW r \in Requests, NEW e \in DOMAIN drafts,
                 \/ UpdateSetup(r, e) \/ StartDraft(r, e) \/ DeleteDraft(r, e)
                 \/ ResetDraft(r, e) \/ UndoLatestPick(r, e)
                 \/ \E p \in Players : CreatePick(r, e, p)
          PROVE  FALSE
      <4>1. DOMAIN drafts' \subseteq DOMAIN drafts
        BY <3>1 DEF UpdateSetup, StartDraft, DeleteDraft, ResetDraft, UndoLatestPick,
                    CreatePick, Commit
      <4>2. QED
        BY <1>1, <2>2, <4>1
    <3>2. PICK r \in Requests : InsertDraft(r)
      BY <1>1, <2>2, <3>1, OtherSteps
    <3>3. QED
      BY <1>1, <2>2, <3>2, InsertIsCreate
  <2>3. QED
    BY <2>1, <2>2
<1>2. QED
  BY <1>1, ReadsAndWrites DEF TermsInv, TeamChoices, RoundChoices

\* Initially there is no draft, on the board neither.
LEMMA InitIsOnBoard == Init => TermsInv /\ Board!Init
<1> SUFFICES ASSUME Init PROVE TermsInv /\ Board!Init
  OBVIOUS
<1>1. drafts = <<>> /\ DOMAIN drafts = {}
  BY NoPicks DEF Init
<1>2. league.teams \in TeamChoices \cup {0} /\ league.rounds \in RoundChoices \cup {0}
  BY DEF Init, NoLeague, TeamChoices, RoundChoices
<1>3. \A r \in Requests : seen[r].teams = 0 /\ seen[r].rounds = 0
  BY DEF Init, Unread
<1>4. [d \in DOMAIN drafts |-> BoardEntry(drafts[d])] = <<>>
  BY <1>1, NoPicks
<1>5. QED
  BY <1>1, <1>2, <1>3, <1>4 DEF TermsInv, Board!Init

\* Whatever requests interleave, fail and wait, the drafts change as on a board
\* that serves one operation at a time.
THEOREM DraftsImplementBoard == Spec => ImplementsBoard
<1>1. Init => TermsInv /\ Board!Init
  BY InitIsOnBoard
<1>2. IInv /\ TermsInv /\ [Next]_vars => TermsInv' /\ [Board!Next]_TheBoard
  BY StepKeepsTermsInv, StepIsOnBoard
<1>3. QED
  BY <1>1, <1>2, Invariance, PTL DEF Spec, ImplementsBoard, Board!Spec, TheBoard
===============================================================================
