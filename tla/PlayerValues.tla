----------------------------- MODULE PlayerValues -----------------------------
(***************************************************************************)
(* The valuation of a projection set under the settings of a league:       *)
(* points, value over replacement (VOR), ranks, and the lists made of them.*)
(* Code: backend/app/valuations/service.py, except its cache.              *)
(*                                                                         *)
(* league is [teams, slots, rules]; pool maps a player id to its row       *)
(* [name, team, primary, positions, line, games] of the projection set.    *)
(* Quantities are whole numbers here, so no rounding happens.              *)
(***************************************************************************)
EXTENDS ReplacementLevels, FantasyScoring

\* _configured_slots and _seeds: one seed per row, with its points.
ConfiguredSlots(league) ==
    [i \in DOMAIN DraftSlots(league.slots) |-> DraftSlots(league.slots)[i].key]

Seed(league, pool, p) ==
    LET row == pool[p]
    IN  [id |-> p, name |-> row.name, team |-> row.team, primary |-> row.primary,
         positions |-> row.positions,
         slots |-> CompatibleRosterSlots(row.positions, ConfiguredSlots(league)),
         fppg |-> FantasyPointsPerGame(league.rules, row.line),
         pts |-> ProjectedFantasyPoints(league.rules, row.line, row.games)]

\* _candidates: players without eligibility take no part.
Candidates(seeds) ==
    {[id |-> s.id, name |-> s.name, pts |-> s.pts, fppg |-> s.fppg,
      positions |-> s.positions] : s \in {x \in seeds : x.positions # {}}}

\* _best_position: the highest VOR, the first position of PG..C on a tie.
BestPosition(vor) ==
    SortedBy(DOMAIN vor, [q \in DOMAIN vor |-> <<-vor[q], Place(BasePositionOrder, q)>>])[1]

\* _read: the value of one player at each of its positions; overall VOR is NULL
\* (HasValue is false) for a player without eligibility.
HasValue(item) == DOMAIN item.vor # {}
OverallVor(item) == item.vor[item.best]

ReadSeed(seed, level) ==
    LET vor == [q \in seed.positions \cap BasePositions |-> seed.pts - level[q].pts]
    IN  [id |-> seed.id, name |-> seed.name, team |-> seed.team, primary |-> seed.primary,
         positions |-> seed.positions, slots |-> seed.slots,
         fppg |-> seed.fppg, pts |-> seed.pts, vor |-> vor,
         best |-> IF DOMAIN vor = {} THEN "" ELSE BestPosition(vor),
         rank |-> 0, positionRank |-> [q \in DOMAIN vor |-> 0]]

-------------------------------------------------------------------------------
\* _overall_rank_key, by which a VOR of 0 is the lowest of all.
OverallRankKey(item) ==
    <<Flag(~HasValue(item)),
      IF HasValue(item) THEN -OrLowest(OverallVor(item)) ELSE 999999999,
      -item.pts, -item.fppg, item.name, item.id>>

\* _position_rank_key
PositionRankKey(item, q) == <<-item.vor[q], -item.pts, -item.fppg, item.name, item.id>>

RankIn(S, key, x) == 1 + Cardinality({y \in S : Precedes(key[y], key[x])})

\* _assign_ranks: an overall rank for players with a VOR (0 stands for None),
\* and a rank at each position.
AssignRanks(items) ==
    LET overall == [x \in items |-> OverallRankKey(x)]
        at(q) == {x \in items : q \in DOMAIN x.vor}
        positional == [q \in BasePositions |-> [x \in at(q) |-> PositionRankKey(x, q)]]
    IN  {[x EXCEPT !.rank = IF HasValue(x) THEN RankIn(items, overall, x) ELSE 0,
                   !.positionRank = [q \in DOMAIN x.vor |-> RankIn(at(q), positional[q], x)]] :
            x \in items}

\* _compute_valuation_snapshot: failed where the replacement levels are.
ValuationSnapshot(league, pool) ==
    LET seeds == {Seed(league, pool, p) : p \in DOMAIN pool}
        levels == CalculateReplacementLevels(Candidates(seeds), league.slots, league.teams)
    IN  IF levels.failed THEN [failed |-> TRUE, items |-> {}]
        ELSE [failed |-> FALSE, levels |-> levels,
              items |-> AssignRanks({ReadSeed(s, levels.level) : s \in seeds})]

-------------------------------------------------------------------------------
\* _filter_items: every given criterion must hold; search stands for the set of
\* names that contain the needle, and {} for a criterion not given.
FilterItems(items, search, team, position) ==
    {x \in items : /\ search = {} \/ x.name \in search
                   /\ team = {} \/ x.team \in team
                   /\ position = {} \/ position \cap x.positions # {}}

\* _sort_items: by rank, unranked players last in both directions; by another
\* column, stably on top of the order by name.
SortKey(x, column) ==
    CASE column = "player" -> x.name
      [] column = "team" -> x.team
      [] column = "position" -> x.primary
      [] column = "fantasy_points_per_game" -> x.fppg
      [] column = "projected_fantasy_points" -> x.pts
      [] column = "overall_vor" -> IF HasValue(x) THEN OverallVor(x) ELSE -999999999

SortItems(items, column, descending) ==
    LET signed(n) == IF descending THEN -n ELSE n
    IN  SortedBy(items, [x \in items |->
            IF column = "overall_rank"
            THEN <<Flag(x.rank = 0), signed(x.rank), x.name, x.id>>
            ELSE <<signed(SortKey(x, column)), x.name, x.id>>])

\* list_valuations: drafted players are left out on demand, then the page.
ListValuations(items, drafted, search, team, position, column, descending, limit, offset) ==
    LET found == FilterItems({x \in items : x.id \notin drafted}, search, team, position)
        sorted == SortItems(found, column, descending)
    IN  SubSeq(sorted, offset + 1, IF offset + limit < Len(sorted) THEN offset + limit
                                                                   ELSE Len(sorted))
===============================================================================
