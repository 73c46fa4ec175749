# Verification of Fantasy GM

TLA+ models of Fantasy GM (FastAPI and PostgreSQL backend in `backend/app`, React
frontend in `frontend/src`), the TLC runs that check them on small instances and the
TLAPS proofs of what holds for instances of every size.

## 1. Inventory

| Component | State | Operations | Hard part | What makes it correct |
|---|---|---|---|---|
| **Draft API** `drafts/` | `draft_sessions`, `fantasy_teams`, `draft_picks` | POST /draft, PUT setup, start, DELETE, reset, pick, undo; reads | concurrent transactions at READ COMMITTED, one unlocked check, `SELECT ... FOR UPDATE` over several rows, rollback anywhere | one active draft; picks 1..n in snake order, no player twice; status agrees with picks; terms frozen; pool pinned |
| **Snake order, user's turn** `drafts/compatibility.py`, `drafts/order.py` | none | `snake_pick_details`, `next_user_pick_context` | the turn between two rounds, both ends of the draft | every round is a permutation of the teams; the announced turn is the one that comes |
| **League settings** `leagues/` | `leagues`, `scoring_rules`, `roster_slots` | GET, PUT /league | check before write, ORM writes of changed columns only | locked while a draft is active; one save is stored as a whole |
| **Projection imports** `projections/` | sources, sets, projections, players, identities, eligibilities | import (CSV, CLI, bootstrap), preview | plan made before writing, activation index, row locks in file order, bootstrap check in another transaction | a committed set is whole and of the right players; eligibility is the latest; all or nothing |
| **Providers, bootstrap generator** `projections/providers`, `projections/bootstrap` | none | reading a file into players or issues | two paths with different rules | what the validation accepts, the tables accept |
| **Valuation cache** `valuations/service.py` | process-wide cache, in-flight tasks, latest fingerprint | valuations, summary, diagnostics | awaits between fingerprint, lookup and insert | never an answer of other settings; bounded; no dead task to join |
| **Replacement levels, valuations** `valuations/` | none | min-cost flow, VOR, ranks | optimality, ties, zero | the best assignment, demanded slots filled; order follows value |
| **Scoring** `shared/scoring` | none | fantasy points of a stat line | aliases of scoring keys | each rule counts once |
| **Roster assignment** `draft_assistant/roster_assignment.py` | none | `assign_roster` | comparison rule of the dynamic programme | equals the best of all seatings |
| **Draft assistant** `draft_assistant/` | none | GET assistant | ranks, countdowns, thresholds and reasons from five modules | signals agree with each other and with the picks that follow |
| **Draft page** `frontend/.../DraftPage.tsx` | React state, requests under way | initial load, two effects, eight buttons, search | answers out of order, failures between requests of one handler, leaving the page | changes meet the draft shown; the page comes to rest, and is then current |
| Other pages, players API, shell | lists being loaded | rendering, listing, routing | - | - |

Interactions: a draft copies the league's team count and the rounds its roster slots
add up to, and pins the active projection set. An active draft locks the league. Imports
activate another set and change eligibility under a running draft. The draft assistant
and the valuations read all of it. Every HTTP request has a database session of its own
(`get_session`), and every mutating handler is one transaction; there is no other
synchronisation between requests than PostgreSQL's.

The hazards, each with its line and the properties aimed at it, are listed in
`PROJECT.json`.

## 2. Modules

| Module | Models | Role |
|---|---|---|
| `SnakeOrder` | `snake_pick_details` | arithmetic shared by the modules below |
| `UserTurn` | `next_user_pick_context` while a draft moves forward and back | checked against declarative statements about turns |
| `DraftSessions` | the draft API and PUT /league as concurrent transactions, imports as the environment | the core |
| `DraftBoard` | - (abstract) | what the draft API promises: drafts changed by one whole operation at a time |
| `MCDraftSessions` | - | small instances of `DraftSessions` |
| `SnakeOrderProofs` | - | TLAPS lemmas on the snake, shared by the next three |
| `UserTurnProofs` | - | the TLAPS theorems about `UserTurn` |
| `DraftSessionsProofs` | - | the TLAPS theorems about `DraftSessions` |
| `DraftBoardProofs` | - | the TLAPS proof that `DraftSessions` implements `DraftBoard` |
| `RosterSlots` | slots, positions, `calculate_draft_rounds` | shared by the modules below |
| `FantasyScoring` | `FantasyScorer` | points of a player under the league's rules |
| `ReplacementLevels` | `replacement.py` | the flow, arc by arc |
| `PlayerValues` | the snapshot and list of `valuations/service.py` | composes the three above |
| `RosterAssignment` | `roster_assignment.py` | the seating of a roster |
| `DraftSignals` | `availability.py`, `scarcity.py`, `value_gaps.py` | the signals |
| `Recommendations` | `recommendations.py` | scores, reasons, order |
| `DraftAssistant` | `draft_assistant/service.py` beside a moving draft | composes all of these with `UserTurn` |
| `DraftAssistantProofs` | - | the TLAPS theorems about `DraftAssistant` |
| `ValuationCache` | requests, cache and in-flight table of one process | concurrency of the valuations |
| `ValuationCacheProofs` | - | the TLAPS theorems about `ValuationCache` |
| `ProjectionFiles` | providers, bootstrap generator, row validation | what an import takes from a file |
| `ProjectionImports` | `import_service.py`, the constraints of the tables | imports as concurrent transactions |
| `ProjectionImportsProofs` | - | the TLAPS theorems about `ProjectionImports` |
| `DraftPage` | `DraftPage.tsx` with the server behind it | the page under delays and failures |
| `DraftPageProofs` | - | the TLAPS theorems about `DraftPage` |
| `MCDraftAssistant`, `MCValuationCache`, `MCProjectionImports`, `MCDraftPage` | - | small instances |

Definitions named `X_Something` directly before a definition `X` are mutants: `X` with a
plausible mistake. `PROJECT.json` names, for every property, a mutant that violates it,
which shows that the property depends on the code it is about. No specification uses them.

### How `DraftSessions` corresponds to the code

*State.* `drafts` maps the creation time of a draft to its row together with its teams
and picks. Creation times order the drafts (`ORDER BY created_at DESC`), and `created_at`
is the *start* of the transaction (`now()` in PostgreSQL), so a row is keyed by the
`stamp` its transaction drew when it began. A pick maps the overall number to the player
and the draft position of the team; `round_number` and `pick_in_round` follow from the
number. Of a league only `team_count` (a column of `leagues`) and `rounds` (what
`calculate_draft_rounds` makes of `roster_slots`, 0 where it raises because only IR slots
have a count) are kept: they live in different tables, and a draft depends on both.
Names, season and scoring are left out.

*Requests.* `pc[r]` is the next statement of request `r`, `seen[r]` what it has read,
`want[r]` and `held[r]` the rows its `FOR UPDATE` has still to lock and has locked. A
request is one transaction. Its writes are not visible to others before its commit, so
all of them happen in its last step; reads by different statements are different steps.

| Code | Actions |
|---|---|
| `create_draft` | `BeginCreate` (unlocked check), `ReadLeague`, `ReadRoster`, `ReadActiveSet`, `InsertDraft` |
| `get_latest_draft_for_update` | `BeginLocked` (statement snapshot), `LockRow` per row, `Works` |
| `update_setup`, `start_draft`, `delete_draft`, `reset_draft`, `create_pick`, `undo_latest_pick` | `UpdateSetup`, `StartDraft`, `DeleteDraft`, `ResetDraft`, `CreatePick`, `UndoLatestPick`, each the whole handler after the locks |
| `replace_league` | `BeginReplace` (check), `LoadLeague`, `WriteLeague` |
| any exception | `Refuse` |
| disconnect, crash, lost connection | `RollBack`, at every step |
| `import_players` (commit) | `ImportProjections` |

What the database does is modelled as PostgreSQL documents it:

- `FOR UPDATE` locks rows in the order of the query, newest first, waits for the
  transaction that holds a row, then re-reads it; a row deleted meanwhile is skipped, a
  row inserted meanwhile is not seen. The handler fetches the whole result, so *all*
  drafts get locked although only the first is used.
- The partial unique index admits one active draft; a transaction that would add a second
  fails (`InsertDraft`, `ResetDraft`, `UndoLatestPick` of a completed draft).
- Two overlapping PUT /league: both delete and insert the scoring rules `PTS` and
  `TEAM_WINS`, which every payload must contain. The later one waits for the earlier and
  then either fails on the unique constraint (had it issued its DELETE already) or
  replaces everything. Hence `WriteLeague` is one step. The league *row*, however, is
  written column by column: SQLAlchemy names in the UPDATE only the columns whose new value
  differs from the one loaded earlier.
- A check that fails in the first statement (no draft to lock, an active draft on POST
  /draft, a locked league) ends the request without effect; that is a stuttering step.
- The payload of a request is chosen where the handler uses it.
- PUT setup replaces the team rows, and the picks of a team go with it (`ON DELETE CASCADE`):
  `UpdateSetup` empties the picks. Only the status check before it makes this harmless, which is
  what its mutant `UpdateSetup_AnyStatus` leaves out.

*Abstract board.* `DraftBoard` knows no requests, locks or status: a draft is its terms,
whether it has started and a log of players; completeness and ownership are computed from
the log, with a closed formula for the seat that does not use `SnakeOrder`. The refinement
mapping `BoardEntry` forgets the transactions. `ImplementsBoard` therefore says that the
concurrent API is linearizable to a one-at-a-time draft board, as far as drafts go. It
does not say *which* draft an operation reaches; that is what `WorksOnNewest` and
`ActiveDraftIsNewest` are about.

### How `DraftAssistant` corresponds to the code

The state is a draft in progress (league, projection pool, the user's seat, the picks) and
`board`, the valuation snapshot of pool and league. `Draft` and `Undo` move the draft;
`Assistant(picks)` is the whole answer of GET /draft/assistant, each part under the name of
the function that makes it. The actions of the draft are a view of those of `DraftSessions`;
the turn is that of `UserTurn`, instantiated per pick.

Sums and comparisons are exact, as the code's decimals are; the instances use whole points,
and scores of the recommendations are counted in half points so that their constants are
integers. Sorting is by the tuple of the code's key function. Where the code takes the first of a
sorted list, so does the model, ties included. A null rank is 0. `RosterFits` matches the open slots of
the one seating the code has chosen: a player who would add a starter only if others moved
is not listed there, and `PredictedFitComesTrue` says no more than that.

### How `ValuationCache` corresponds to the code

Coroutines of one event loop interleave at awaits only, so an action is one awaited SELECT
with the code up to the next await.

| Code | Actions |
|---|---|
| `_context` | `ReadLeague`, `ReadContext` (the parts of the league, the draft or the active set) |
| `_cache_key` to the lookup | `Lookup`: hit, join or computation of its own |
| `_compute_valuation_snapshot` (a task) | `Compute` |
| `finally`, insert, bound | `Finish` |
| a joined task ends | `JoinEnds` |
| PUT /league, drafts, imports | `SaveLeague`, `ChangeDraft`, `BeginImport`, `CommitImport` |

The eligibility part of the key is a count and the latest `created_at`, the *start* of the
import that wrote the row. It can miss a change when two imports overlap, or when
one commits during a computation and is reverted later: the snapshot of one moment is then
served for another, until the next change. ADR 0006 says that recommendations see
the latest eligibility; `FreshUnlessRaced` proves nothing about these cases and says so in
its guard (`raced`). A computation that was displaced by a league change still inserts its
entry; the entry is right for its key, and the next change removes it.

Which inputs have no replacement levels, so that a computation fails, is a constant of this module
(`Insufficient`, any function of league, set and eligibility; the proofs hold for all of
them). The code's function is `CalculateReplacementLevels` of `ReplacementLevels`: no starters, a
slot left empty by the best assignment, or a position with nobody left. The instance fails when there are fewer
players than starters.

### How `ProjectionImports` corresponds to the code

| Code | Actions |
|---|---|
| load and validate the file; the bootstrap's check of its own | `Start` |
| `_build_plan` | `Plan` |
| `_resolve_source`: look for the source; insert it or update its row | `FindSource`, `TakeSource` |
| UPDATE of the active sets of the scope | `Deactivate` |
| INSERT of the set, with the partial unique index | `InsertSet` |
| a row of `_persist_players`: flush of the positions of the row before, `session.get` | `Fetch` |
| insert or update the player, insert his identity; `_persist_eligibilities`: SELECT of his positions | `WritePlayer` |
| DELETE of the obsolete positions | `ReplacePositions` |
| last flush, projections, constraints, commit | `Commit` |
| deadlock detector, crash or lost connection | `Deadlock`, `Kill` |

A statement that may wait for another transaction begins a step, so that what was read before it is as old
as the wait makes it. Reads see what is committed and the transaction's own writes; writes wait (`Blocks`)
for the transaction that holds the row, or that has inserted or deleted the same unique key, the active
set of a scope among them. What an import decides is kept as it was decided: the sets its UPDATE has found
(`deactivated`), the positions its SELECT has shown to be superfluous (`obsolete`) or missing (`queued`). An attribute of
a player is written only when it differs from what `session.get` has returned (`seen`). Columns
round what they store (`Stored`: two decimals for games and minutes, three for the others), and the CHECKs see the
rounded numbers.

Every way an import ends is a value of `pc`. The model contains, and the properties allow, what
the code does without promising otherwise: two rows of a file that resolve to one player
fail on a unique key; renames and simultaneous first imports leave players of one name, and a later
import of that name is "ambiguous"; two first imports of a new source end with one refused
by the key of the source; imports of different sources can deadlock on players; an import that reads the
positions of a player, then waits or works on while another import commits him, replaces the difference with what it has
read and so merges the two sets (`stale`, `raced`); the bootstrap check and the import are
two transactions, so two bootstrap requests can both pass; numbers of a thousand and more pass validation and
overflow their column; a bootstrap file can fail a CHECK.

### How `DraftPage` corresponds to the code

`page` is the React state that matters (status, board, recommendations, list of players,
search, loading), `handler` the one async function that runs, with the request it awaits,
`effects` the effects the last rendering scheduled and `loads` their requests. The server is
a sequence of drafts with the rules of the draft API; a request is served at some moment
after it is sent and its answer lands later.

| Code | Actions |
|---|---|
| `loadInitialState` | the first handler: `LandLeague`, `LandDraft`, `LandTeams`, `LandBoard` |
| the buttons | `Click` (offered as rendered, disabled while `isSaving`), then `LandChange`, `LandTeams`, `LandBoard`, `LandAssistant` |
| the effects on `draft` and the search | `RunEffects` (cleanup, then new requests), `LoadServed`, `LoadLands` |
| `useDebouncedValue` | `Search` |
| a 5xx, a rejected `fetch` | `HandlerFails`, `LoadFails` |
| another tab and back | `Leave` |
| a change whose caller is gone | `OrphanServed`, `OrphanDropped` |

`missed` is a ghost: the copies some failure gives reason to distrust, cleared for all when
a board of the newest draft lands. The production build is modelled (no double effects of
StrictMode). Things the model shows and no property forbids: a lost answer and a
repeated undo remove two picks; after the last pick the refresh of the assistant is refused
and leaves an error message; a failed reset leaves the lists empty; a failed load of a
completed draft shows the form of a new one, and when that new draft is deleted the page says
there is none although the older one exists; a rejected GET /draft leaves the page on
"Loading draft..." until it is left.

## 3. Runs

| Run | Instance | Question |
|---|---|---|
| `user_turn` | 2..5 teams, 1..5 rounds, every seat | is the announced turn right at every pick, forward and back? |
| `drafts_concurrent` | 3 requests, 2 teams x 2 rounds, 4 players, 2 drafts | do the tables stay right, and behave as a `DraftBoard`, under all interleavings? |
| `drafts_imports` | 2 requests, 2 teams x 1 round, 3 players, 2 drafts, 2 overlapping projection sets, fairness | do drafts keep terms and pool while imports go on, and does every request end? |
| `drafts_apart` | 3 requests, 3 settings (one of them IR slots only), 3 players, 3 drafts | do the documented promises hold when only the overlaps that break them are excluded? |
| `league_lock_race` | 2 requests | violated: settings change under an active draft |
| `league_mixed_save` | 2 requests | violated: a mix of two saves is stored |
| `draft_torn_snapshot` | 2 requests | violated: a draft with terms no save ever had |
| `draft_assistant` | 3 leagues of 2 teams, 5 pools of 11 players, every seat, picks 1st or 3rd on the list, undos | do algorithms match their references, and the answer match itself and the next picks? |
| `overall_rank` | 1 league, 1 pool | violated: replacement level ranks behind everything below it |
| `valuation_cache` | 3 requests, 2 imports, 2 leagues, 2 sets, cache of 1, one save or draft change | is every answer of what the request read? |
| `projection_imports` | 3 imports, 9 files, 3 databases | are committed sets whole and right, is eligibility the latest, do activations take turns, whatever waits or fails beside them? |
| `draft_page` | 2 players, 2 picks, 1 search, 2 drafts, 1 mishap, fairness | is the page current at rest, do changes meet what it shows, and does it come to rest when the user stops? |

*Bounds.* `MaxDrafts` caps how many POST /draft begin, `MaxSets` how many imports commit;
`MaxTeams` and `MaxRounds` cap the schedule. Two drafts are what it takes for row locks
on several rows, a fall-through to an older draft and a race for the unique index; the
third draft of `drafts_apart` adds a newest one among several completed ones. Three requests let two
race while a third has moved the newest draft. Two rounds are the smallest draft with a snake
turn; four players leave a choice at every pick but the last. One projection set makes players
interchangeable, which justifies the symmetry of `drafts_concurrent` (requests always are); that run
checks no liveness. Only-IR settings (`rounds = 0`) are among the settings of
`drafts_apart`. Five rounds and five teams cover odd and even counts of both, and turns that
begin, end and lie inside the draft.

The leagues of `draft_assistant` have a restrictive and a flexible slot, a bench, an IR slot, and
slots out of order; its pools put ties, an ineligible player, negative VOR and pools too small to value
before the algorithms. `MaxFilled` (4) is where the exhaustive reference of the flow
stops. Picks reach the first and third best player, so that drafts follow and leave the board. A cache of one entry makes
every second computation evict; three requests are a computation, one that joins it and one
that displaces it. The files of `projection_imports` are chosen for what can go wrong:
other positions, another order, renamed players, a name twice, makes above attempts, games that
round up to the bound of their CHECK, an overflow, a bootstrap with and without metadata. Three imports are one that reads, one that
commits meanwhile and one that holds the second up. One mishap (`MaxMishaps`) is one answer
that fails or one departure, at any point; two drafts are what it takes to fall through to an older one. A search is
numbered, for each asks for another text (`MaxSearches`). Requests, importers and players of `valuation_cache` are interchangeable.

*Fairness.* Clients owe nothing: no fairness on `Begin`, `RollBack` or imports. A handler
that can run does (`WF` on `Work`), because the event loop schedules every ready task.
`LockRow` is strongly fair: PostgreSQL queues the transactions that wait for one row, so a
transaction is not overtaken forever. Of the runs of the drafts only `EveryRequestEnds` uses it; its mutant
(rows locked in no fixed order) deadlocks two requests and violates it. The page (`FairSpec`) owes progress only as a whole: as long as a request can be
served, an answer handled or a due effect run, some such step is taken (browser and server
do not stand still, and a fetch ends in an answer or an error). The user owes nothing:
`ComesToRest` is about behaviours in which clicks and searches cease. Its run takes no symmetry, which liveness would not allow.

*Deadlock* is checked in the runs of `UserTurn`, `DraftSessions` and `DraftAssistant`. In
`valuation_cache` and `projection_imports` every request is made once, so the system ends; in `draft_page` it
ends on the page that loads for ever (above).

### What the violations say

The violated properties are sentences of the repository's README. The first three need
two overlapping requests, which the application's own tests never issue; `drafts_apart`
shows that the sentences are true while all other requests overlap (section 4).

- `LeagueLocked` (README.md:574, "locked while a setup or in-progress draft exists"):
  PUT /league checks, POST /draft commits, PUT /league writes.
- `LeagueIsAsSubmitted` (README.md:357, "replaces ... in one database transaction"): a save
  that loaded the row before another save committed omits the columns it
  believes unchanged, but replaces all roster slots.
- `DraftSnapshotsALeague` (README.md:512, "Draft creation snapshots the singleton league"):
  the league row is read before a save and its roster slots after it.
- `RankFollowsVor` (README.md:472, "Negative VOR is preserved because it indicates a player
  projects below replacement level"): the sort key of `overall_rank` takes a VOR of zero for a
  missing one. A player at replacement level has exactly zero, and is ranked last, behind
  everyone below replacement level; the assistant's best available list, its availability
  outlook and its scarcity cutoffs follow that rank.

`ActiveDraftIsNewest` and `WorksOnNewest` hold apart from some overlaps only, too; no
document of the repository promises them, so these are listed as hazards and not as findings. A POST /draft
that began before another draft was created and completed inserts a row that sorts behind it, and a
request that waited while a newer draft was inserted does not see it. `drafts_apart` keeps creates apart from
each other and from operations under the row lock. These overlap one another there, so that a request that has
waited for a draft being deleted goes on with the draft before it: still the newest one there is.

`EligibilityIsLatest` has an exclusion as well, and there the code does less than a document says. ADR 0006:
"The latest successful resolved import replaces that player's current eligibility set. Obsolete positions are
removed." An import selects the positions of a player (`import_service.py:461`), and its DELETE and INSERTs
are the difference with what it has seen. When an import of another source commits him in between, the positions it has
added are not obsolete for the first one, and stay: the player has those of both. (Imports of one source take turns.) The
model has this behaviour; without the exclusion of these players (`raced`), TLC shows it at two imports of one
player from two sources.

## 4. Proofs

`DraftSessionsProofs` proves, for any sets of requests and players, any league settings the
schema admits, and any bounds:

| Theorem | Property |
|---|---|
| `TypeCorrect` | `TypeOK` |
| `AtMostOneActiveDraft` | `OneActiveDraft` |
| `BoardFollowsSnake` | `PicksFollowSnake` |
| `StatusIsRight` | `StatusMatchesPicks` |
| `PinnedPool` | `PicksFromPinnedSet` |
| `OnlyTheHolderChangesADraft` | `ChangesAreLocked` |
| `TermsStayFrozen` | `TermsAreFrozen` |
| `BoardChangesAtTheEnd` | `PicksChangeAtTheEnd` |
| `RostersAreEqual` | `CompletedRostersAreEqual` |
| `SettingsAreWhole` (while `SavesApart`) | `LeagueIsAsSubmitted` |
| `SnapshotsAreOfALeague` (while `SavesApart`, `SavesApartFromCreates`) | `DraftSnapshotsALeague` |
| `SettingsAreLocked` (while `SavesApartFromDrafts`) | `LeagueLocked` |
| `NewestIsTheActiveOne` (while `CreatesApart`) | `ActiveDraftIsNewest` |
| `LockedWorkIsOnNewest` (while `CreatesApart`) | `WorksOnNewest` |
| `PromisesHoldApart` (of `ApartSpec`) | the last five, as `drafts_apart` checks them |

`DraftBoardProofs`, from the same assumptions:

| Theorem | Property |
|---|---|
| `DraftsImplementBoard` | `ImplementsBoard` |

*Assumptions.* `LeagueAssumption` (a league has 2 to 30 teams, from `LeagueBase`) and
`BoundAssumption` (the bounds are numbers; every set has its players). TLC evaluates both in
every run of `MCDraftSessions`.

*Argument.* None of the invariants is inductive alone: that the next number is free needs
the picks to be gapless; that the status is right after an undo needs the last number to
be the count; that at most one draft is active after an insert needs the new key to be
fresh, hence that stamps are distinct and none lies in the future. The inductive invariant
`IInv` is the conjunction of

- `DataOK`, `RequestTypesOK`: the types;
- `DraftsOK`: every row satisfies `GoodDraft`, no row is newer than the clock, at most one is active.
  `GoodDraft` is a predicate on one row (type, teams and seat, picks in order, status, pool),
  so that each operation is a lemma about a single record (`PickKeepsGood`,
  `UndoKeepsGood`, `ResetKeepsGood`, ...), free of requests and locks;
- `LocksAreSound`, `StampsOK`: locks are exclusive and on existing rows, stamps are distinct,
  not in use and not in the future, and a request about to insert knows its projection set.

`EndKeepsRequests` covers the end of every transaction, `CommitKeepsIInv` every locked
commit; the action lemmas combine them with the lemmas on rows, and `NextKeepsIInv` has one
case per disjunct of `Next`. TLC has also checked `IInv` as an invariant of the
instances of `drafts_concurrent` and `drafts_imports`. The action properties follow from `IInv`,
from `LockedWorkTouchesOneDraft` and from the fact that no other step changes an existing row.

*Which requests must not overlap.* The last five properties are false under all
interleavings (section 3). The theorems show them for any number of requests as long as named pairs of them never
overlap: two saves of the settings (`SavesApart`); a save and the reads of a POST
/draft (`SavesApartFromCreates`); a save and any request that can make a draft active
(`SavesApartFromDrafts`); a POST /draft and another one or a request that waits for its locks
(`CreatesApart`). Everything else may interleave. `ApartSpec` takes only steps that respect all four, and
`PromisesHoldApart` has the five promises of it; the run `drafts_apart` checks the same on its instance, where
requests do wait for one another's row locks. Each of the violation runs lets one such pair overlap. The proofs are safety arguments
about what a request has read and not yet used: `SettingsOK` (what a save loaded is what is stored),
`TermsOK` (what a creation has read is of the stored league), `NoDraftWhileSaving` (the
check of `active_draft_exists` still holds) and `NewestOK` (no draft is inserted behind a lock queue).

For the refinement each operation on a row is one operation on the board (`PickIsTakePlayer`,
`UndoIsTakeBack`, `InsertIsCreate`, ...), and `StepIsOnBoard` collects them. It needs `IInv`:
a row is open on the board exactly while its status is active (`OpenIsActive`), the log is
the picks 1..n in order (`LogProperties`), and the unique index closes all other drafts. It
needs also `TermsInv`, that the team count and the rounds of the league and of what requests
have read of it, and the team count of every draft, were submitted by somebody. The board says nothing of
both coming from one submission, and that is false (run `draft_torn_snapshot`).
The seat of a pick is another formula on the board; `SeatIsDraftPosition` equates the two by
writing (k - 1) as 2nh + m or 2nh + n + m.

`UserTurnProofs` proves all properties of `UserTurn` for any bounds `MaxTeams >= 2` and
`MaxRounds >= 1` (`SizeAssumption`):

| Theorem | Property |
|---|---|
| `TurnTypeCorrect` | `TypeOK` |
| `RoundsAreFair` | `EachRoundEveryTeamOnce` |
| `ContextIsThere` | `ContextUntilLastPick` |
| `TurnsAreAtRoundEnds` | `TurnStraddlesRoundEnd` |
| `CountdownFalls` | `CountdownIsSteady` |
| `SecondPickFollows` | `SecondPickKeepsTurn` |

*Argument.* The facts about the snake are in `SnakeOrderProofs`. `PickOf(r, d, n)` names the
pick of seat d in round r; it is in that round, it is d's, and every pick of d is one of
these (`PickOfIsRight`, `PickIsOfItsTeam`), so rounds and picks of a team correspond one to
one: each round is a permutation of the teams, and a team has exactly one pick of each
(`OnePickPerRound`). From this follow `RoundsAreFair`, `RostersAreEqual` in
`DraftSessionsProofs` and `ContextIsThere`: the picks of the user made and still ahead split
the user's `rounds` picks, so that some are ahead just when fewer than `rounds` are made.
Two picks in a row of one seat lie on both sides of a round's end (`NeighboursAreRoundEnds`)
and three never occur (`NotThreeInARow`, which needs two teams); hence the loops of the code
stop at a neighbour of the next pick (`TurnIsLocal`, `TurnOfTwo`, `SecondOfTwo`). The scan for
the next pick is a minimum, found by well-foundedness of the numbers (`LeastElement`).

`ValuationCacheProofs` proves, for any sets of requests, importers, players and projection
sets, any league settings and any cache bound of at least one (`CacheAssumption`):

| Theorem | Property |
|---|---|
| `AnswersMatch` | `RepliesMatchRequest` |
| `TasksAreLive` | `InFlightIsLive` |
| `AnswersAreFresh` | `FreshUnlessRaced` |

*Argument.* That an answer taken from the cache or from another request's task is of the
right league needs three facts at once, the conjuncts of `IInv`: an entry's value belongs to
its key (`CacheOK`); a registered task belongs to a request that is computing under that
key, of the league seen last (`TasksOK`); a request that has joined a task has read the same
league and set as the request that runs it, and neither changes afterwards (`RequestsOK`).
The step from equal fingerprints to equal leagues is `FingerprintIsExact`. The lemmas on
the cache (`SetLastKeepsEntries`, `SuffixKeepsEntries`, `InsertKeepsCache`) show what
the ordered dictionary does; the bound must be at least one only for the empty cache to be
within it and an insert to keep its entry.

`AnswersAreFresh` also assumes that players and positions are finite (`FiniteAssumption`),
so that eligibility rows can be counted. A fingerprint of the rows says nothing of which
rows they are, so its invariant `FInv` remembers where each fingerprint in use came from
(`Known`): from a set of rows of which those now no newer than the fingerprint are a part,
because every import that begins later stamps its rows with a later time (`Past`,
`BeginKeepsPast`) and so only takes old rows away (`CommitKeepsFInv`). When the same
fingerprint is found again no row is newer than it, and the equal count leaves no row
missing: the rows are the same (`KnownIsCurrent`). A request that joins a task has seen what
its owner saw, and no import commits while the task runs. All of this holds until two
imports overlap or one commits during a computation; that is the guard of the property.

`ProjectionImportsProofs` proves, for any set of importers, any files and any databases to start from:

| Theorem | Property |
|---|---|
| `CommittedSetsAreWhole` | `SetsAreWhole` |
| `EligibilityFollowsImports` | `EligibilityIsLatest` |
| `ChecksHold` | `ChecksAreBackstops` |
| `ActivationsHold` | `ActivationsTakeTurns` |

*Assumptions.* `NoneAssumption`: the placeholder for a missing number is not a number.
`JobsAssumption`: a file read through the CSV provider is a CSV file, its rows form a finite sequence,
and their numbers are numbers. That `Players[name]` is a sequence has to be assumed because
`SelectSeq`, which drops blank rows, is recursive; TLC evaluates it for every file of the
run. `StartsAssumption`: the databases to start from are ones that imports leave behind
(`IsDatabase`), the empty one among them. That this is what imports leave behind is part of the invariant.

*Argument.* `IInv` (theorem `ImportsStayConsistent`) says of the database that it is one
imports leave behind, and of every open import, against its file and the committed rows
(`TransactionOK`): its plan names players by the identities of their source (`PlanOK`); the rows done so far
are those the plan names, in order (`ProgressOK`); it adds identities for its new rows
only, and nobody has added them since (`IdentitiesOK`); its set is nobody else's, and every active set of its scope is
among those it has deactivated (`SetOK`); the last row of a player decides the positions he would have
if the import committed now, unless its reading of them is stale (`PositionsOK`). Two conjuncts relate imports to each
other: only one of a source is past the update of its row (`OneHolder`, the lock on `data_sources`), and their
sets are different (`SetsApart`).

The plan is made before the lock: that the
identity of a row is still new is checked by the unique key when the row is inserted, and holds from there
to the commit because of the lock. The UPDATE that deactivates and the INSERT of the active set are two statements: what the
first has found is still all there is at the second and at the commit because only the holder of the source's row
commits sets of the source (`CommitKeepsOthers`). Without that lock two activations do meet; the mutant `TakeSource_Untouched`
shows it. A commit changes the positions of its players under the others that have read them, which marks their reading as
stale; everything else they rely on it only adds to (`Kept`, `KeptTransaction`). That a set is whole
at its commit is a counting argument: no player twice, hence as many projections as rows
(`NobodyTwice`, `CommitStores`). `CsvRowsPassChecks` shows that the validation of a row implies every
CHECK of the tables for the numbers as they are stored, because rounding does not leave the bounds
(`RoundingKeepsBounds`); it does not look at overflow, which is not a CHECK and can happen.

`DraftPageProofs` proves, for any set of players, any length of a draft, and any bounds on drafts, searches
and mishaps (the run has one mishap; the theorems have any number of them, in any combination):

| Theorem | Property |
|---|---|
| `QuietPageShowsTheServer` | `QuietPageIsCurrent` |
| `ChangesMeetWhatIsShown` | `ActsOnWhatIsShown` |

*Argument.* `IInv` (theorem `PageStaysConsistent`) says what the page may be trusted for at every stage of its
handler. `BoardOK`: unless the board is in `missed`, a page without a handler shows the newest draft; a
handler that has been clicked and has changed nothing yet leaves that so; after a change the server has a draft (or,
after a deletion, none that is active), so that the board it asks for next is never refused; and a pick carries the
newest board with it until the assistant has answered. `CopyOK`, for the recommendations and for the list of players: unless
the copy is in `missed`, its effect is scheduled, or the handler will set the draft and so schedule it
(`WillSetDraft`), or the copy and every answer under way for it are of the newest draft. Landing
answers keep this because a scheduled effect first drops what was asked before; a page that resets must count as
one that will set the draft, for it empties the lists before it asks. `MissedOK` ties doubt to its causes: a change
nobody waits for and an answer that failed put every copy in doubt. `SearchOK` keeps the filter of a load that of the
page. Of the server the proof needs that all drafts but the newest are complete (`ServerOK`, `AfterIs`), so
that what a deletion uncovers is not active, and what an endpoint refuses (`AnswerServes`). TLC has checked `IInv` on
the instance of `draft_page`.

`DraftAssistantProofs` proves, for any leagues, projection pools, rosters and drafts:

| Theorem | Property |
|---|---|
| `BestAvailableAgreesHolds` | `BestAvailableAgrees` |
| `OutlookFollowsPicksHolds` | `OutlookFollowsPicks` |
| `CutoffIsWhatIsLeftHolds` | `CutoffIsWhatIsLeft` |
| `OrderIsExplainedHolds` | `OrderIsExplained` |
| `LineupIsBestHolds` | `LineupIsBest` |
| `PredictedFitComesTrueHolds` | `PredictedFitComesTrue` |
| `VorSeparatesStartersHolds` | `VorSeparatesStarters` |
| `LevelsAreOptimalHolds` | `LevelsAreOptimal` |

*Assumptions.* `LeagueAssumption`: a league has 2 to 30 teams, its slots are known keys with whole
counts, its scoring weights are numbers. `PoolAssumption`: a pool is a finite set of players with
names, positions, games and numbers for statistics. `SentinelAssumption`: a pool has fewer than 999999
players, for `_roster_fit` gives its candidate that pick to put him behind everybody on the bench; the code
takes it for granted, and only `PredictedFitComesTrueHolds` needs it. TLC evaluates all three in every run
of `MCDraftAssistant`.

*Argument.* The invariant `Inv` (theorem `InvHolds`) is short: the board is the valuation of league
and pool, and the picks are distinct players. All the rest is about what the functions of the answer
return. `SortedByIsSorted` is the core: when the keys of a finite set are sequences of numbers of one length and no two are
equal (`Sortable`), the place of an element is one more than the number of those before it, and
the sorted list has every element at its place. Every key of the code ends in something unique (the id, or the place
on a list that is itself sorted), and `SnapshotIsBoard` says what a board of valuations is: one per
player, ranked without ties where it has a value (`IsBoard`). From this,

- `BestAvailableAgreesHolds`: the services' keys differ behind the rank only, so both lists begin with the ranked
  players, in the order of rank (`RankedComeFirst`, `RankedPlacesAgree`);
- `OutlookFollowsPicksHolds`: taking a player out moves those behind him up by one and nobody else
  (`RemovalShifts`, `PickShifts`), and the countdown to the user's turn falls by one (`CountdownFalls`), so that
  `availability_outlooks` compares the same two distances, or a more favourable one;
- `CutoffIsWhatIsLeftHolds`: the cutoff is the first player of the position with at least as many
  players before him as there are picks until the user's turn (`CutoffIsFirstLeft`). Both numbers fall by one;
- `OrderIsExplainedHolds`: the score of a candidate is a function of its value, its reasons and its warnings
  (`ScoreIsItsCodes`); with no reason more and no warning less, nothing but value can decide (`ScoresAreExplained`);
- `LineupIsBestHolds`: the programme keeps, after each slot, one seating for every set of players that can be
  seated so far. That it is the greatest one of that set (`Good`) is inductive because seating one more player
  in the next slot keeps the order of two seatings of the same players: the counts and sums of the keys grow by
  the same numbers, and their last parts, sorted by slot, by the same row at the end (`OneMoreLength`,
  `GrowthKeepsOrder`). Every seating of a slot more either leaves it empty or is one of fewer slots and a seat
  (`SeatingSplits`), so the greatest is among the options of `Extend` (`OptionsAre`, `ExtendKeepsGood`). The least slot
  at which a table were wrong would contradict this (`TablesExist`, `AssignIsBest`);
- `PredictedFitComesTrueHolds`: the prediction seats a candidate with the pick 999999, the roster a player with the
  number of his pick. Seatings never look at the pick, only the order of the bench does, so players and
  their twins with other picks in the same order are lined up alike (`BestRenamed`, `LineupRenamed`). The keys compare as
  sequences, so two best seatings, each at least as good as the other's twin, have one key, and a key
  tells its seats (`KeyTellsSeats`). For the open slot: a newcomer who can play a slot left empty makes a seating with
  one starter more, and no seating has two more, for without the newcomer it would beat the best of the
  others (`OneMoreStarts`).

Sums over dictionaries are folds of the community modules, which TLAPS knows nothing about; `SumIsTotal` says that a sum of
numbers is the count of tokens it stands for, from which it follows that it is a number (`TotalIsNatural`).

`VorSeparatesStartersHolds` and `LevelsAreOptimalHolds` are about the min-cost flow of `replacement.py`. The loops of the
code have no counter and are modelled as functions that call themselves on the next state; that such a function exists and
stops is proved from a measure that falls (`LoopExists`, `LoopStops`). `FlowInv` is the invariant of the flow: its edges are
edges of the network, a player leads to a slot in use exactly when the source leads to him, and to one only (`Carries`), a
slot leads to the sink exactly when a player leads to it, and one only (`Serves`), and what is left of the network has a
*potential*, numbers on the nodes that no remaining edge exceeds by its cost, hence no cycle of negative cost. Then

- the search ends (`SearchEnds`): a scan reaches a node for the first time, or it shortens the distance of one, which the potential
  bounds from below (`Slack`), or it leaves one node less in the queue (`ScanAdvances`);
- the nodes before each other form a tree (`Rooted`, `ScanKeepsRooted`): a cycle among them would have a negative cost. So the way
  back from the sink ends at the source and meets no node twice (`WayBackIs`, `WayBackIsLine`);
- after augmenting along that way the distances found are a potential of what is left (`AugmentKeepsPotential`), with those that the search
  did not reach lifted far enough, and one player more is served (`AugmentTakesPlayer`), so that the flow ends too (`FlowEnds`);
- a player left over who fits a starter's slot is worth no more than the starter (`ExchangeCosts`): the way from the source over
  him, the slot and the starter back to the source would be a negative cycle. So the starter is worth at least the replacement
  at the position his slot takes him for, and nobody left over is worth more than the replacement at a position of his (`LevelsSeparate`);
- the flow gives up only where no filling exists (`FlowIsWhole`). When the search misses the sink, a slot it reaches is taken,
  for else it would go on to the sink. A player of a filling in a slot it misses is missed himself, so the source leads to him
  and he starts, in a slot it misses. So the filling sends the slots missed one to one to taken ones among them: all are taken;
- the flow's filling has the greatest total of all fillings, whatever slots those put their players in (`FlowIsBest`): the potential turns
  the difference of two fillings slot by slot into one of the potentials of their players, which is summed over the slots
  (`TotalsCompare`, `TotalsExchange`), where players in both cancel and players in one are judged by the source's edge to them
  (`AssignmentsAreBest`, `LevelsAreBest`). It holds for any number of slots; `MaxFilled` bounds only what TLC compares.

*Model-checked only.* `EveryRequestEnds` and `ComesToRest`: liveness under fairness is beyond TLAPS. The properties of the
violation runs are false, except where the theorems above name the overlaps to exclude; `RankFollowsVor` is false for a
single user.

## 5. Not modelled, and why

- Listings (players, projection sets, projections, draft reads): they change nothing. A board
  read is one snapshot in `DraftPage`, whose single client waits for its change before it
  reads; with a second client the SELECTs of one board can be torn.
- The other pages: they load lists in effects that cancel like those of the draft page. The
  diagnostics of the valuations page are the exception, listed as a hazard.
- Wording, formatting, logging, row numbers of issues, the text layer of CSV files.
- Names, teams and activity of players in valuation snapshots: they are not part of the
  fingerprint, so a renamed player keeps the old name in a cached snapshot.
- The cancellation of a request's coroutine while others wait for its computation.
- Development seeds and fixtures, settings, health checks, migrations, Docker files.

The map names the lines of every definition; together they are about 38 % of the
implementation. Most of the rest is schemas, rendering, tests' fixtures and the items above.

## 6. Plan

Done: the draft API, imports, the valuation cache and the draft page with their proofs; the
assistant and its algorithms with proofs of its order, of its seatings, of the flow behind its values and of what picks do to
it. Left, in order:

1. Two clients of the draft page, with torn reads of the board.
2. `ValuationCache` over several server processes (each has a cache of its own).
