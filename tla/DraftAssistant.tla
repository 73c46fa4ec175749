---------------------------- MODULE DraftAssistant ----------------------------
(***************************************************************************)
(* The draft assistant beside a draft in progress: what GET                *)
(* /draft/assistant answers after every pick and undo.                     *)
(* Code: backend/app/draft_assistant/service.py, which puts together the   *)
(* valuations (PlayerValues), the roster of the user's team                *)
(* (RosterAssignment), the signals (DraftSignals), the recommendations     *)
(* (Recommendations) and the user's next turn (UserTurn).                  *)
(*                                                                         *)
(* The league, the projection set and the eligibilities stay as they are   *)
(* while the draft moves.                                                  *)
(***************************************************************************)
EXTENDS Recommendations, PlayerValues

CONSTANTS
    Leagues,    \* [teams, slots, rules], see PlayerValues
    Pools,      \* projection sets: player id -> row, see PlayerValues
    Reach,      \* bound: places on the best-available list that picks take
    MaxFilled   \* bound: demanded slots up to which the flow is compared with
                \* all ways to fill them

ASSUME BoundAssumption == Reach \subseteq Nat \ {0} /\ MaxFilled \in Nat

\* The league schema: 2 to 30 teams, known slot keys, counts and weights that
\* are numbers.
ASSUME LeagueAssumption ==
    \A l \in Leagues :
        /\ l.teams \in 2..30
        /\ l.slots \in Seq([key : DOMAIN SlotPositions \cup {"IR"}, count : Nat])
        /\ \A stat \in DOMAIN l.rules : l.rules[stat] \in Int

\* A projection set has finitely many rows, and what they count are numbers.
ASSUME PoolAssumption ==
    \A P \in Pools :
        /\ IsFiniteSet(DOMAIN P) /\ DOMAIN P \subseteq Nat
        /\ \A p \in DOMAIN P :
              /\ P[p].name \in Int /\ P[p].games \in Int
              /\ \A stat \in DOMAIN P[p].line : P[p].line[stat] \in Int

\* The pick a candidate is given behind every pick made is 999999.
ASSUME SentinelAssumption == \A P \in Pools : Cardinality(DOMAIN P) < 999999

VARIABLES
    league, pool, user,  \* the terms of the draft; user is the user's seat
    board,               \* the valuation snapshot of pool under league
    picks                \* players drafted, in order

vars == <<league, pool, user, board, picks>>

\* The user's turns when overall pick k is the current one.
Turn(k) == INSTANCE UserTurn WITH
    teams <- league.teams, rounds <- DraftRounds(league.slots), user <- user,
    current <- k, MaxTeams <- 30, MaxRounds <- 30

\* What follows is a function of the picks made so far.  next_user_pick's
\* picks_until, NoTurn where there is no next pick, and who is on the clock.
Until(taken) == LET k == Len(taken) + 1
                IN  IF Turn(k)!HasContext THEN Turn(k)!PicksUntil ELSE NoTurn
UserOnClock(taken) == Turn(1)!Position(Len(taken) + 1) = user

-------------------------------------------------------------------------------
\* Mutant of BestAvailableKey: the order of projected points.
BestAvailableKey_Points(item) == <<Flag(item.rank = 0), -item.pts, item.name, item.id>>

\* _best_available_key; a rank of 0 is None.
BestAvailableKey(item) == <<Flag(item.rank = 0), item.rank, -item.pts, item.name, item.id>>

Available(taken) ==
    LET undrafted == {x \in board.items : x.id \notin Range(taken)}
    IN  SortedBy(undrafted, [x \in undrafted |-> BestAvailableKey(x)])

\* _user_picks and _roster_player
UserPicks(taken) == {k \in DOMAIN taken : Turn(1)!Position(k) = user}
RosterPlayers(taken) ==
    {LET item == CHOOSE x \in board.items : x.id = taken[k]
     IN  [id |-> item.id, name |-> item.name, positions |-> pool[item.id].positions,
          pts |-> item.pts, pick |-> k] : k \in UserPicks(taken)}
Roster(taken) == AssignRoster(RosterPlayers(taken), league.slots)

\* The RecommendationInput.
Input(taken) ==
    LET available == Available(taken)
        until == Until(taken)
    IN  [available |-> available, players |-> RosterPlayers(taken),
         roster |-> Roster(taken), slots |-> league.slots, until |-> until,
         scarcity |-> Scarcity(available, until),
         dropAfter |-> ValueDropAfter(available),
         onClock |-> UserOnClock(taken)]

\* _roster_fits, as available ranks, and _fit_reasons.
RosterFits(available, open) ==
    SelectSeq([i \in DOMAIN available |-> i],
              LAMBDA i : MatchingOpenSlots(available[i].positions, open) # <<>>)
FitReasons(item, open) ==
    LET matches == MatchingOpenSlots(item.positions, open)
    IN  {"FILLS_OPEN_SLOT"}
        \cup When(\E a \in Range(matches) : a.slot \in RestrictiveSlotKeys,
                  "FILLS_RESTRICTIVE_SLOT")
        \cup When(Len(matches) >= 2, "MULTI_SLOT_FLEXIBILITY")

\* _roster_summary
RosterSummary(roster, drafted) ==
    [activeTotal |-> Len(roster.active), activeFilled |-> Cardinality(roster.starters),
     unfilled |-> roster.unfilled, benchFilled |-> Len(roster.bench),
     benchRemaining |-> Max({roster.benchTotal - Len(roster.bench), 0}),
     drafted |-> drafted, spotsRemaining |-> Max({roster.capacity - drafted, 0}),
     unassigned |-> roster.ineligible \cup roster.exceeding]

\* get_assistant: refused while the valuations cannot be computed.  The players
\* of byPosition (_best_by_position) and fits are available ranks.
Answer(in, taken) ==
    LET open == in.roster.unfilled
        fits == RosterFits(in.available, open)
    IN  [failed |-> FALSE, onClock |-> in.onClock, until |-> in.until,
         available |-> in.available,
         byPosition |-> [q \in BasePositions |-> AtPosition(in.available, q)],
         fits |-> [j \in DOMAIN fits |->
                     <<fits[j], FitReasons(in.available[fits[j]], open)>>],
         outlook |-> [i \in DOMAIN in.available |-> Outlook(in.available, i, in.until)],
         scarcity |-> in.scarcity, scarcityOrder |-> ScarcityOrder(in.scarcity),
         valueDrop |-> in.dropAfter,
         summary |-> RosterSummary(in.roster, Cardinality(UserPicks(taken))),
         recommendations |-> RecommendPlayers(in)]

Assistant(taken) ==
    IF board.failed THEN [failed |-> TRUE] ELSE Answer(Input(taken), taken)

-------------------------------------------------------------------------------
Init == /\ league \in Leagues
        /\ pool \in Pools
        /\ user \in 1..league.teams
        /\ board = ValuationSnapshot(league, pool)
        /\ picks = <<>>

\* Who may be picked next: an undrafted player with eligibility, within Reach.
\* Where there are no valuations the picks go on in the order of the ids.
Pickable ==
    LET eligible == {p \in DOMAIN pool \ Range(picks) : pool[p].positions # {}}
        available == Available(picks)
        ordered == IF board.failed THEN SortedBy(eligible, [p \in eligible |-> <<p>>])
                   ELSE [i \in DOMAIN available |-> available[i].id]
    IN  {ordered[i] : i \in Reach \cap DOMAIN ordered} \cap eligible

\* create_pick and undo_latest_pick, as far as the assistant sees them.
Draft(p) == /\ Len(picks) < Turn(1)!TotalPicks
            /\ picks' = Append(picks, p)
            /\ UNCHANGED <<league, pool, user, board>>

Undo == /\ picks # <<>>
        /\ picks' = Front(picks)
        /\ UNCHANGED <<league, pool, user, board>>

Next == Undo \/ \E p \in Pickable : Draft(p)

Spec == Init /\ [][Next]_vars

-------------------------------------------------------------------------------
\* A choice of players for the wanted slots, for reference.
Fillings(cands, wanted) ==
    {f \in [DOMAIN wanted -> cands] :
        /\ \A j \in DOMAIN wanted : Fits(f[j].positions, wanted[j])
        /\ \A j, k \in DOMAIN wanted : j # k => f[j] # f[k]}
FillingTotal(f) == SumFunction([j \in DOMAIN f |-> f[j].pts])

DraftedSlots ==
    Len(DemandedSlots(ActiveSlotDemand(league.slots, league.teams)))

\* The flow fills the league's active slots with the highest total there is, and
\* it gives up exactly where the slots cannot be filled or a position has nobody
\* left (calculate_replacement_levels).  The board does not change afterwards.
LevelsAreOptimal ==
    picks = <<>> /\ DraftedSlots <= MaxFilled =>
        LET seeds == {Seed(league, pool, p) : p \in DOMAIN pool}
            cands == Candidates(seeds)
            wanted == DemandedSlots(ActiveSlotDemand(league.slots, league.teams))
            totals == {FillingTotal(f) : f \in Fillings(cands, wanted)}
            starters == {c \in cands : ~board.failed /\ c.id \in board.levels.assigned}
            total == SumFunction([c \in starters |-> c.pts])
        IN  IF board.failed
            THEN \/ totals = {} \/ wanted = <<>>
                 \/ \E f \in Fillings(cands, wanted) :
                        /\ FillingTotal(f) = Max(totals)
                        /\ \E q \in BasePositions :
                              \A c \in cands \ Range(f) : q \notin c.positions
            ELSE Cardinality(starters) = Len(wanted) /\ total = Max(totals)

\* A player the league would start is worth at least a replacement at one of its
\* positions, and a player it would not start is worth at most a replacement at
\* all of them: the sign of VOR separates starters from the rest, which holds
\* only because the flow is optimal (an exchange would improve it otherwise).
VorSeparatesStarters ==
    ~board.failed =>
        \A x \in {y \in board.items : HasValue(y)} :
            IF x.id \in board.levels.assigned THEN OverallVor(x) >= 0
                                       ELSE \A q \in DOMAIN x.vor : x.vor[q] <= 0

\* The seating of the user's roster is the best of all seatings: most active
\* slots, then most points, then flexibility preserved (assign_roster).
LineupIsBest ==
    ~board.failed => \A roster \in {Roster(picks)} :
        LET active == roster.active
            seats == {[player |-> p, at |-> i] : p \in RosterPlayers(picks), i \in DOMAIN active}
            seatings == {S \in SUBSET {s \in seats : CanPlay(s.player, active[s.at])} :
                            \A s, t \in S : s # t => s.player # t.player /\ s.at # t.at}
            best == SeatsKey(roster.starters, active)
        IN  \A S \in seatings : ~Precedes(best, SeatsKey(S, active))

\* The list of available valuations sorted by rank and the assistant's best
\* available players have the same ranked players at the same places, though two
\* services filter and sort them.
BestAvailableAgrees ==
    ~board.failed =>
        LET listed == ListValuations(board.items, Range(picks), {}, {}, {},
                                            "overall_rank", FALSE, Cardinality(board.items), 0)
            ranked(seq) == {<<i, seq[i]>> : i \in {j \in DOMAIN seq : seq[j].rank # 0}}
        IN  ranked(listed) = ranked(Available(picks))

\* Every departure from the order of value is accounted for: a close candidate
\* recommended before a more valuable one has a reason the other lacks, or the
\* other has a warning it lacks; and alternatives outside the window are
\* recommended only when every player inside it is.
OrderIsExplained ==
    ~board.failed => \A answer \in {Assistant(picks)} :
        LET recs == answer.recommendations
            close == {k \in DOMAIN recs : recs[k].context = "CLOSE_VALUE"}
            vor(k) == Vor(answer.available[recs[k].at])
        IN  /\ \A j, k \in close : j < k /\ vor(j) < vor(k) =>
                  \/ recs[j].reasons \ (recs[k].reasons \cup {"STRONG_VALUE"}) # {}
                  \/ recs[k].warnings \ recs[j].warnings # {}
            /\ close # DOMAIN recs =>
                  {recs[k].at : k \in close} = CloseValue(answer.available)

\* A player at or above replacement level is ranked before every player below it.
RankFollowsVor ==
    \A x, y \in board.items :
        (HasValue(x) /\ HasValue(y) /\ OverallVor(x) >= 0
         /\ OverallVor(y) < 0) => x.rank < y.rank

-------------------------------------------------------------------------------
RankOf(seq, p) == CHOOSE i \in DOMAIN seq : seq[i].id = p
NewPick(before, after) ==
    ~board.failed /\ Len(after) > Len(before)
OthersPick(before, after) ==
    NewPick(before, after) /\ ~UserOnClock(before) /\ Until(before) # NoTurn

\* The outlook forecasts a draft that follows the board.  While others pick,
\* taking a player ranked before p leaves p's outlook as it is and taking one
\* ranked after p never worsens it, until the user's turn comes.
Risk == [COULD_RETURN |-> 0, AT_RISK |-> 1, UNLIKELY_TO_RETURN |-> 2]
OutlookHolds(before, after) ==
    LET was == Available(before)
        is == Available(after)
        gone == RankOf(was, Last(after))
        risk(seq, p, until) == Risk[Outlook(seq, RankOf(seq, p), until)]
        old(p) == risk(was, p, Until(before))
        new(p) == risk(is, p, Until(after))
    IN  \A i \in DOMAIN was \ {gone} :
            IF gone < i THEN new(was[i].id) = old(was[i].id)
                        ELSE new(was[i].id) <= old(was[i].id)
OutlookFollowsPicks ==
    [][\A after \in {picks'} :
          OthersPick(picks, after) /\ Until(after) > 0 => OutlookHolds(picks, after)]_vars

\* The cutoff player announced for a position stays the same while others take
\* the best player of the board, and is the best left when the user's turn comes.
CutoffHolds(before, after) ==
    LET was == Available(before)
        is == Available(after)
        left == Scarcity(was, Until(before))
        now == Scarcity(is, Until(after))
    IN  Last(after) = was[1].id =>
            \A q \in {x \in BasePositions : left[x].cutoff # 0} :
                /\ now[q].cutoff # 0
                /\ is[now[q].cutoff].id = was[left[q].cutoff].id
                /\ Until(after) = 0 => now[q].top = now[q].cutoff
CutoffIsWhatIsLeft ==
    [][\A after \in {picks'} : OthersPick(picks, after) => CutoffHolds(picks, after)]_vars

\* The user takes an available player: the player is seated exactly where the
\* recommendation said, and the lineup improves exactly if it said so.  One that
\* matched an open slot (Roster Fits) adds a starter.
FitHolds(before, after) ==
    \A in \in {Input(before)} :
    \A item \in {in.available[RankOf(in.available, Last(after))]} :
    \A fit \in {RosterFit(in, item)}, roster \in {Roster(after)} :
        /\ Where(roster, item.id) = [kind |-> fit.kind, seat |-> fit.seat]
        /\ fit.improves <=> (fit.kind = "active"
                             /\ ActivePoints(roster) > ActivePoints(in.roster))
        /\ fit.open # <<>> =>
              Cardinality(roster.starters) = Cardinality(in.roster.starters) + 1
PredictedFitComesTrue ==
    [][\A after \in {picks'} :
          NewPick(picks, after) /\ UserOnClock(picks) => FitHolds(picks, after)]_vars
===============================================================================
