---------------------------- MODULE Recommendations ----------------------------
(***************************************************************************)
(* The recommended picks: players close in value to the best available one *)
(* ordered by a score, then the best of the rest.                          *)
(* Code: backend/app/draft_assistant/recommendations.py.                   *)
(*                                                                         *)
(* in is the RecommendationInput: available, players and roster of the     *)
(* user's team (RosterAssignment), slots, until, scarcity, dropAfter and   *)
(* onClock.  Scores are counted in half points, so that 1.50 is 3; values  *)
(* are whole, so nothing is quantized.                                     *)
(***************************************************************************)
EXTENDS RosterAssignment, DraftSignals

CloseValueWindow == 10   \* RECOMMENDATION_CLOSE_VALUE_WINDOW
MinCandidates == 10      \* RECOMMENDATION_MIN_CANDIDATES
ReturnLimit == 5         \* RECOMMENDATION_RETURN_LIMIT
ReachWarning == 20       \* SIGNIFICANT_REACH_WARNING_THRESHOLD

Vor(item) == item.vor[item.best]

\* The available ranks of the players that may be recommended, and the close
\* ones among them: measured from the first, not from the highest VOR.
Recommendable(available) ==
    {i \in DOMAIN available : DOMAIN available[i].vor # {}}
BestVor(available) == Vor(available[Min(Recommendable(available))])
CloseValue(available) ==
    {i \in Recommendable(available) :
        BestVor(available) - Vor(available[i]) <= CloseValueWindow}

\* Mutant of ValueProximity: the gap counts in favour.
ValueProximity_Reversed(best, vor) == 200 + 4 * (best - vor)
\* value_proximity_score: 100.00 without a gap, 80.00 at the window's edge.
ValueProximity(best, vor) == 200 - 4 * (best - vor)

-------------------------------------------------------------------------------
\* Mutant of Candidate: the newcomer is seated before the players of the roster.
Candidate_First(item) ==
    [id |-> item.id, name |-> item.name, positions |-> item.positions,
     pts |-> item.pts, pick |-> 0]

\* The roster player a candidate would become: behind every pick made.
Candidate(item) ==
    [id |-> item.id, name |-> item.name, positions |-> item.positions,
     pts |-> item.pts, pick |-> 999999]

\* Where a player would be seated in a roster; Where's kind is the
\* assignment_type and its seat the slot instance.
Where(roster, id) ==
    LET started == {s \in roster.starters : s.player.id = id}
        benched == {i \in DOMAIN roster.bench : roster.bench[i].id = id}
    IN  IF started # {}
        THEN [kind |-> "active", seat |-> roster.active[(CHOOSE s \in started : TRUE).at]]
        ELSE IF benched # {}
        THEN [kind |-> "bench", seat |-> [slot |-> "BE", index |-> Min(benched)]]
        ELSE [kind |-> "unassigned", seat |-> [slot |-> "", index |-> 0]]

\* _roster_fit
FitIn(in, item, result) ==
    LET where == Where(result, item.id)
        open == MatchingOpenSlots(item.positions, in.roster.unfilled)
        paths == MatchingOpenSlots(item.positions, in.roster.active)
    IN  [kind |-> where.kind, seat |-> where.seat, open |-> open,
         fillsOpen |-> where.seat \in Range(open),
         improves |-> where.kind = "active" /\ ActivePoints(result) > ActivePoints(in.roster),
         flexible |-> /\ where.kind = "active"
                      /\ Cardinality(item.positions \cap BasePositions) >= 2
                      /\ Cardinality({a.slot : a \in Range(paths)}) >= 2]
RosterFit(in, item) ==
    FitIn(in, item, AssignRoster(in.players \cup {Candidate(item)}, in.slots))

RosterFitScore(fit) ==
    (CASE fit.kind = "active" -> IF fit.seat.slot \in RestrictiveSlotKeys THEN 10 ELSE 6
       [] fit.kind = "bench" -> -4
       [] OTHER -> -10)
    + (IF fit.improves THEN 4 ELSE 0)

\* _scarcity_position: the position of the seat, or else the player's best one;
\* every recommendable player has one.
ScarcityPosition(item, fit) ==
    IF fit.seat.slot \in RestrictiveSlotKeys \cap item.positions THEN fit.seat.slot
                                                                ELSE item.best

ScarcityScore(severity) ==
    CASE severity = "HIGH" -> 6 [] severity = "MEDIUM" -> 3 [] OTHER -> 0

AvailabilityScore(outlook, onClock) ==
    CASE onClock -> 0
      [] ~onClock /\ outlook = "UNLIKELY_TO_RETURN" -> 6
      [] ~onClock /\ outlook = "AT_RISK" -> 3
      [] OTHER -> 0

\* _score_breakdown and total_score.
ScoreBreakdown(in, i, fit, severity) ==
    LET item == in.available[i]
    IN  [proximity |-> ValueProximity(BestVor(in.available), Vor(item)),
         fit |-> RosterFitScore(fit),
         scarcity |-> ScarcityScore(severity),
         availability |-> AvailabilityScore(Outlook(in.available, i, in.until), in.onClock),
         valueDrop |-> IF i <= in.dropAfter THEN 3 ELSE 0,
         flexibility |-> IF fit.flexible THEN 2 ELSE 0]
TotalScore(score) ==
    score.proximity + score.fit + score.scarcity + score.availability + score.valueDrop
    + score.flexibility

-------------------------------------------------------------------------------
\* The reason and warning codes, one group per _add_..._reasons.
When(holds, code) == IF holds THEN {code} ELSE {}

ValueReasons(in, item, context) ==
    LET best == Vor(item) = BestVor(in.available)
    IN  When(context = "CLOSE_VALUE" /\ best, "BEST_AVAILABLE_VALUE")
        \cup When(context = "CLOSE_VALUE" /\ ~best, "STRONG_VALUE")

RosterReasons(fit) ==
    When(fit.kind = "active" /\ fit.seat.slot \in RestrictiveSlotKeys,
         "FILLS_RESTRICTIVE_STARTER_SLOT")
    \cup When(fit.kind = "active" /\ fit.seat.slot \notin RestrictiveSlotKeys,
              "FILLS_FLEX_SLOT")
    \cup When(fit.improves, "IMPROVES_ACTIVE_LINEUP")
    \cup When(fit.flexible, "MULTI_POSITION_FLEXIBILITY")

SignalReasons(in, i, severity, outlook) ==
    When(severity = "HIGH", "LIMITED_POSITION_DEPTH")
    \cup When(severity = "MEDIUM", "POSITION_VALUE_DROP")
    \cup When(~in.onClock /\ outlook = "UNLIKELY_TO_RETURN", "UNLIKELY_TO_RETURN")
    \cup When(~in.onClock /\ outlook = "AT_RISK", "AT_RISK_BEFORE_NEXT_PICK")
    \cup When(i <= in.dropAfter, "BEFORE_MEANINGFUL_VALUE_DROP")

Warnings(in, item, fit, severity, outlook) ==
    When(BestVor(in.available) - Vor(item) >= ReachWarning, "SIGNIFICANT_VALUE_REACH")
    \cup When(fit.kind = "bench", "BENCH_ONLY_FIT")
    \cup When(fit.kind = "unassigned", "MISSING_CONTEXT")
    \cup When(severity = "LOW", "POSITION_ALREADY_DEEP")
    \cup When(~in.onClock /\ in.until # NoTurn /\ outlook = "COULD_RETURN",
              "COULD_RETURN_LATER")

\* _candidate: what is said of the player at available rank i.  Fallback
\* candidates have no score.  The explanation words these codes.
RecommendAs(in, i, context, fit) ==
    LET item == in.available[i]
        position == ScarcityPosition(item, fit)
        severity == in.scarcity[position].severity
        outlook == Outlook(in.available, i, in.until)
    IN  [id |-> item.id, at |-> i, context |-> context, fit |-> fit,
         position |-> position, severity |-> severity, outlook |-> outlook,
         score |-> IF context = "CLOSE_VALUE" THEN ScoreBreakdown(in, i, fit, severity)
                   ELSE <<>>,
         reasons |-> ValueReasons(in, item, context) \cup RosterReasons(fit)
                     \cup SignalReasons(in, i, severity, outlook),
         warnings |-> Warnings(in, item, fit, severity, outlook)]
Recommend(in, i, context) == RecommendAs(in, i, context, RosterFit(in, in.available[i]))

\* _reorderable_sort_key
ReorderableKey(in, c) ==
    LET item == in.available[c.at]
    IN  <<-TotalScore(c.score), -c.score.proximity, -OrLowest(Vor(item)), -item.pts,
          item.rank, item.name, item.id>>

\* recommend_players: the close candidates by score, then those of the first ten
\* available players that are not close, in their order; five at most.
ByScore(in, candidates) ==
    SortedBy(candidates, [c \in candidates |-> ReorderableKey(in, c)])
FirstFew(seq) == SubSeq(seq, 1, Min({ReturnLimit, Len(seq)}))

RecommendPlayers(in) ==
    LET close == {Recommend(in, i, "CLOSE_VALUE") : i \in CloseValue(in.available)}
        rest == {i \in Recommendable(in.available) \ CloseValue(in.available) :
                    i <= MinCandidates}
        fallback == SortedBy(rest, [i \in rest |-> <<i>>])
        others == [j \in DOMAIN fallback |-> Recommend(in, fallback[j], "FALLBACK_VALUE")]
    IN  IF Recommendable(in.available) = {} THEN <<>>
        ELSE FirstFew(ByScore(in, close) \o others)
===============================================================================
