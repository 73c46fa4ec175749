----------------------------- MODULE DraftSessions -----------------------------
(***************************************************************************)
(* The draft API and the league settings under concurrent HTTP requests.   *)
(*                                                                         *)
(* A request is one transaction of PostgreSQL at READ COMMITTED: each      *)
(* statement sees what was committed before it started, and a transaction  *)
(* takes effect when it commits.  Three kinds of request share the tables: *)
(*   - POST /draft reads, statement by statement and without any lock, the *)
(*     active draft, the league row, its roster slots and the active       *)
(*     projection set, then inserts;                                       *)
(*   - every other draft operation first locks all rows of draft_sessions  *)
(*     with SELECT ... FOR UPDATE, newest first, and works on the newest;  *)
(*   - PUT /league checks that no draft is active, loads the league row,   *)
(*     then writes.                                                        *)
(* Code: backend/app/drafts/{service,repository,model}.py,                 *)
(* backend/app/leagues/{service,repository}.py and, for the projection     *)
(* sets a draft pins, backend/app/projections/import_service.py.           *)
(***************************************************************************)
EXTENDS SnakeOrder, FiniteSets

CONSTANTS
    Requests,       \* concurrently running HTTP requests
    Players,        \* rows of players
    LeagueConfigs,  \* the settings users submit with PUT /league
    Projected,      \* Projected[s]: the players of projection set s
    MaxDrafts,      \* bound: how many POST /draft transactions begin
    MaxSets         \* bound: how many projection sets exist

\* The league schema bounds team_count; rounds is calculate_draft_rounds of the
\* roster slots, and 0 where that raises because only IR slots are configured.
ASSUME LeagueAssumption ==
    LeagueConfigs \subseteq [teams : 2..30, rounds : Nat]

ASSUME BoundAssumption ==
    /\ MaxDrafts \in Nat
    /\ MaxSets \in Nat \ {0}
    /\ Projected \in [1..MaxSets -> SUBSET Players]

VARIABLES
    league,      \* leagues row (teams) and its roster_slots (rounds)
    sets,        \* number of projection sets, numbered 1..sets
    activeSet,   \* get_deterministic_active_projection_set, 0 when there is none
    draftable,   \* players that are active and have a position eligibility
    drafts,      \* draft_sessions with their teams and picks, by creation stamp
    clock,       \* POST /draft transactions begun so far
    pc,          \* the statement each request executes next
    stamp,       \* created_at of the draft a POST /draft would insert
    seen,        \* what a request has read of the league and the active set
    want,        \* draft rows of the FOR UPDATE snapshot not reached yet
    held         \* draft rows the request has locked

vars == <<league, sets, activeSet, draftable, drafts, clock,
          pc, stamp, seen, want, held>>
dataVars == <<league, sets, activeSet, draftable, drafts, clock>>
requestVars == <<pc, stamp, seen, want, held>>

DraftIds == 1..MaxDrafts
TeamCounts == 2..30
NoLeague == [teams |-> 0, rounds |-> 0]
Unread == [teams |-> 0, rounds |-> 0, set |-> 0]

-------------------------------------------------------------------------------
(* Rows.  A draft's picks map the overall number of a pick to the player and *)
(* to the draft position of the team that took it: the key stands for the    *)
(* unique constraint on (draft_session_id, overall_pick).  The position also *)
(* stands for round_number and pick_in_round, which follow from the number.  *)
(* size counts the fantasy_teams rows, whose positions are 1..size.          *)

Status == {"setup", "in_progress", "completed"}
Pick == [player : Players, position : Nat \ {0}]

Total(x) == x.teams * x.rounds
Count(x) == Cardinality(DOMAIN x.picks)
Active(x) == x.status \in {"setup", "in_progress"}
Taken(x) == {x.picks[k].player : k \in DOMAIN x.picks}

ActiveDrafts == {d \in DOMAIN drafts : Active(drafts[d])}

\* Mutant of NewDraft: the IR slot counts as a round.
NewDraft_WithIR(terms, n, u) ==
    [status |-> "setup", teams |-> terms.teams, rounds |-> terms.rounds + 1,
     set |-> terms.set, size |-> n, user |-> u, picks |-> <<>>]

NewDraft(terms, n, u) ==
    [status |-> "setup", teams |-> terms.teams, rounds |-> terms.rounds,
     set |-> terms.set, size |-> n, user |-> u, picks |-> <<>>]

IsLatest(d, S) == d \in S /\ \A e \in S : e <= d

\* Mutant of Available: the pool of the active set instead of the pinned one.
Available_ActiveSet(x, p) == p \in (Projected[activeSet] \cap draftable) \ Taken(x)

\* player_is_available and get_player_eligibilities
Available(x, p) == p \in (Projected[x.set] \cap draftable) \ Taken(x)

\* uq_draft_sessions_one_noncompleted_per_league, for row d becoming active
IndexAllows(d) == ActiveDrafts \subseteq {d}

-------------------------------------------------------------------------------
Init == /\ league \in LeagueConfigs \cup {NoLeague}
        /\ sets = 0
        /\ activeSet = 0
        /\ draftable = {}
        /\ drafts = <<>>
        /\ clock = 0
        /\ pc = [r \in Requests |-> "idle"]
        /\ stamp = [r \in Requests |-> 0]
        /\ seen = [r \in Requests |-> Unread]
        /\ want = [r \in Requests |-> {}]
        /\ held = [r \in Requests |-> {}]

\* The transaction is over, by commit or by rollback: its locks are released.
End(r) == /\ pc' = [pc EXCEPT ![r] = "idle"]
          /\ stamp' = [stamp EXCEPT ![r] = 0]
          /\ seen' = [seen EXCEPT ![r] = Unread]
          /\ want' = [want EXCEPT ![r] = {}]
          /\ held' = [held EXCEPT ![r] = {}]

GoTo(r, next) == pc' = [pc EXCEPT ![r] = next]

-------------------------------------------------------------------------------
(* POST /draft.  The unlocked check of get_current_draft lets the request go *)
(* on; created_at is the time the transaction began.                         *)
BeginCreate(r) ==
    /\ pc[r] = "idle"
    /\ clock < MaxDrafts
    /\ ActiveDrafts = {}
    /\ clock' = clock + 1
    /\ stamp' = [stamp EXCEPT ![r] = clock + 1]
    /\ GoTo(r, "create_league")
    /\ UNCHANGED <<league, sets, activeSet, draftable, drafts, seen, want, held>>

\* session.get(League): the league row is one statement ...
ReadLeague(r) ==
    /\ pc[r] = "create_league"
    /\ league # NoLeague
    /\ seen' = [seen EXCEPT ![r].teams = league.teams]
    /\ GoTo(r, "create_roster")
    /\ UNCHANGED <<dataVars, stamp, want, held>>

\* ... selectinload(roster_slots) is another ...
ReadRoster(r) ==
    /\ pc[r] = "create_roster"
    /\ seen' = [seen EXCEPT ![r].rounds = league.rounds]
    /\ GoTo(r, "create_set")
    /\ UNCHANGED <<dataVars, stamp, want, held>>

\* (Mutant: the missing set goes unnoticed.)
ReadActiveSet_Unchecked(r) ==
    /\ pc[r] = "create_set"
    /\ seen' = [seen EXCEPT ![r].set = activeSet]
    /\ GoTo(r, "create_insert")
    /\ UNCHANGED <<dataVars, stamp, want, held>>

\* ... and the active projection set a third.
ReadActiveSet(r) ==
    /\ pc[r] = "create_set"
    /\ activeSet # 0
    /\ seen' = [seen EXCEPT ![r].set = activeSet]
    /\ GoTo(r, "create_insert")
    /\ UNCHANGED <<dataVars, stamp, want, held>>

\* Mutant of InsertDraft: no unique index.
InsertDraft_NoIndex(r) ==
    /\ pc[r] = "create_insert"
    /\ seen[r].rounds > 0
    /\ \E n \in TeamCounts : \E u \in 1..n :
          /\ n = seen[r].teams
          /\ drafts' = [d \in DOMAIN drafts \cup {stamp[r]} |->
                          IF d = stamp[r] THEN NewDraft(seen[r], n, u) ELSE drafts[d]]
    /\ End(r)
    /\ UNCHANGED <<league, sets, activeSet, draftable, clock>>

\* The insert of the session and its n teams, the user's at position u.
InsertDraft(r) ==
    /\ pc[r] = "create_insert"
    /\ seen[r].rounds > 0
    /\ ActiveDrafts = {}
    /\ \E n \in TeamCounts : \E u \in 1..n :
          /\ n = seen[r].teams
          /\ drafts' = [d \in DOMAIN drafts \cup {stamp[r]} |->
                          IF d = stamp[r] THEN NewDraft(seen[r], n, u) ELSE drafts[d]]
    /\ End(r)
    /\ UNCHANGED <<league, sets, activeSet, draftable, clock>>

-------------------------------------------------------------------------------
(* SELECT ... FOR UPDATE over draft_sessions.  The snapshot of the statement *)
(* fixes which rows it may return; it then locks them newest first, waits    *)
(* where another transaction has the lock, and skips what was deleted while  *)
(* it waited.  Rows inserted meanwhile are not in the snapshot.              *)
BeginLocked(r) ==
    /\ pc[r] = "idle"
    /\ DOMAIN drafts # {}
    /\ want' = [want EXCEPT ![r] = DOMAIN drafts]
    /\ GoTo(r, "locked")
    /\ UNCHANGED <<dataVars, stamp, seen, held>>

\* Mutants of LockRow: a select without FOR UPDATE, rows locked in no fixed order,
\* and a select with SKIP LOCKED.
LockRow_NoLock(r) ==
    /\ pc[r] = "locked"
    /\ \E d \in want[r] :
          /\ IsLatest(d, want[r])
          /\ want' = [want EXCEPT ![r] = want[r] \ {d}]
          /\ held' = [held EXCEPT ![r] = held[r] \cup ({d} \cap DOMAIN drafts)]
    /\ UNCHANGED <<dataVars, pc, stamp, seen>>
LockRow_SkipLocked(r) ==
    /\ pc[r] = "locked"
    /\ \E d \in want[r] :
          /\ IsLatest(d, want[r])
          /\ want' = [want EXCEPT ![r] = want[r] \ {d}]
          /\ held' = [held EXCEPT ![r] = held[r] \cup
                          {e \in {d} \cap DOMAIN drafts : \A q \in Requests : e \notin held[q]}]
    /\ UNCHANGED <<dataVars, pc, stamp, seen>>
LockRow_AnyOrder(r) ==
    /\ pc[r] = "locked"
    /\ \E d \in want[r] :
          /\ \A q \in Requests : d \notin held[q]
          /\ want' = [want EXCEPT ![r] = want[r] \ {d}]
          /\ held' = [held EXCEPT ![r] = held[r] \cup ({d} \cap DOMAIN drafts)]
    /\ UNCHANGED <<dataVars, pc, stamp, seen>>

LockRow(r) ==
    /\ pc[r] = "locked"
    /\ \E d \in want[r] :
          /\ IsLatest(d, want[r])
          /\ \A q \in Requests : d \notin held[q]
          /\ want' = [want EXCEPT ![r] = want[r] \ {d}]
          /\ held' = [held EXCEPT ![r] = held[r] \cup ({d} \cap DOMAIN drafts)]
    /\ UNCHANGED <<dataVars, pc, stamp, seen>>

\* Mutant of Works: any row, without ORDER BY.
Works_Unordered(r, d) == pc[r] = "locked" /\ want[r] = {} /\ d \in held[r]

\* All rows are locked and d is the one get_latest_draft_for_update returns.
Works(r, d) == /\ pc[r] = "locked"
               /\ want[r] = {}
               /\ IsLatest(d, held[r])

\* The transaction commits with row d changed to x.
Commit(r, d, x) == /\ drafts' = [drafts EXCEPT ![d] = x]
                   /\ End(r)
                   /\ UNCHANGED <<league, sets, activeSet, draftable, clock>>

\* Mutant of UpdateSetup: also in a draft under way.
UpdateSetup_AnyStatus(r, d) ==
    /\ Works(r, d)
    /\ \E n \in TeamCounts : \E u \in 1..n :
          /\ n = drafts[d].teams
          /\ Commit(r, d, [drafts[d] EXCEPT !.size = n, !.user = u, !.picks = <<>>])

\* PUT /draft/setup: the n teams of the payload replace the rows, and the picks
\* of the rows deleted go with them (ON DELETE CASCADE).
UpdateSetup(r, d) ==
    /\ Works(r, d)
    /\ drafts[d].status = "setup"
    /\ \E n \in TeamCounts : \E u \in 1..n :
          /\ n = drafts[d].teams
          /\ Commit(r, d, [drafts[d] EXCEPT !.size = n, !.user = u, !.picks = <<>>])

\* POST /draft/start, behind _validate_setup_teams.
StartDraft(r, d) ==
    /\ Works(r, d)
    /\ drafts[d].status = "setup"
    /\ drafts[d].size = drafts[d].teams
    /\ drafts[d].user \in 1..drafts[d].teams
    /\ Commit(r, d, [drafts[d] EXCEPT !.status = "in_progress"])

\* DELETE /draft
DeleteDraft(r, d) ==
    /\ Works(r, d)
    /\ drafts[d].status # "completed"
    /\ drafts' = [e \in DOMAIN drafts \ {d} |-> drafts[e]]
    /\ End(r)
    /\ UNCHANGED <<league, sets, activeSet, draftable, clock>>

\* POST /draft/reset
ResetDraft(r, d) ==
    /\ Works(r, d)
    /\ IndexAllows(d)
    /\ Commit(r, d, [drafts[d] EXCEPT !.picks = <<>>, !.status = "setup"])

\* Mutant of CreatePick: the number of picks made decides who is on the clock.
CreatePick_Previous(r, d, p) ==
    LET x == drafts[d]
        next == Count(x) + 1
        position == DraftPosition(Count(x), x.teams)
        saved == [k \in DOMAIN x.picks \cup {next} |->
                    IF k = next THEN [player |-> p, position |-> position]
                                ELSE x.picks[k]]
    IN /\ Works(r, d)
       /\ x.status = "in_progress"
       /\ next <= Total(x)
       /\ Available(x, p)
       /\ Commit(r, d, [x EXCEPT !.picks = saved,
                                 !.status = IF next = Total(x) THEN "completed"
                                                               ELSE "in_progress"])

\* POST /draft/picks: the next number is the count of picks plus one, the team
\* is the one at the snake position, and the last pick completes the draft.
CreatePick(r, d, p) ==
    LET x == drafts[d]
        next == Count(x) + 1
        position == DraftPosition(next, x.teams)
        saved == [k \in DOMAIN x.picks \cup {next} |->
                    IF k = next THEN [player |-> p, position |-> position]
                                ELSE x.picks[k]]
    IN /\ Works(r, d)
       /\ x.status = "in_progress"
       /\ next <= Total(x)
       /\ Available(x, p)
       /\ position <= x.size
       /\ next \notin DOMAIN x.picks
       /\ Commit(r, d, [x EXCEPT !.picks = saved,
                                 !.status = IF next = Total(x) THEN "completed"
                                                               ELSE "in_progress"])

\* Mutant of UndoLatestPick: the status stays.
UndoLatestPick_KeepStatus(r, d) ==
    LET x == drafts[d]
    IN /\ Works(r, d)
       /\ \E last \in DOMAIN x.picks :
             /\ IsLatest(last, DOMAIN x.picks)
             /\ Commit(r, d,
                   [x EXCEPT !.picks = [k \in DOMAIN x.picks \ {last} |-> x.picks[k]]])

\* DELETE /draft/picks/latest: the highest number goes, a completed draft reopens.
UndoLatestPick(r, d) ==
    LET x == drafts[d]
    IN /\ Works(r, d)
       /\ x.status = "completed" => IndexAllows(d)
       /\ \E last \in DOMAIN x.picks :
             /\ IsLatest(last, DOMAIN x.picks)
             /\ Commit(r, d,
                   [x EXCEPT !.picks = [k \in DOMAIN x.picks \ {last} |-> x.picks[k]],
                             !.status = IF x.status = "completed" THEN "in_progress"
                                                                  ELSE x.status])

-------------------------------------------------------------------------------
(* PUT /league.  active_draft_exists is a plain read; the row is loaded and  *)
(* later written column by column: SQLAlchemy updates only the columns whose *)
(* payload value differs from the value loaded, while the roster slots (and  *)
(* scoring rules) are deleted and inserted as a whole.                       *)
\* Mutant of BeginReplace: settings are saved whatever the drafts' status.
BeginReplace_Unchecked(r) ==
    /\ pc[r] = "idle"
    /\ GoTo(r, "league_get")
    /\ UNCHANGED <<dataVars, stamp, seen, want, held>>

BeginReplace(r) ==
    /\ pc[r] = "idle"
    /\ ActiveDrafts = {}
    /\ GoTo(r, "league_get")
    /\ UNCHANGED <<dataVars, stamp, seen, want, held>>

LoadLeague(r) ==
    /\ pc[r] = "league_get"
    /\ seen' = [seen EXCEPT ![r].teams = league.teams]
    /\ GoTo(r, "league_write")
    /\ UNCHANGED <<dataVars, stamp, want, held>>

\* Mutant of WriteLeague: the old roster slots stay.
WriteLeague_KeepSlots(r) ==
    /\ pc[r] = "league_write"
    /\ seen[r].teams = 0 => league = NoLeague
    /\ \E c \in LeagueConfigs : league' = [league EXCEPT !.teams = c.teams]
    /\ End(r)
    /\ UNCHANGED <<sets, activeSet, draftable, drafts, clock>>

\* A first save inserts the row: it fails if the row has appeared meanwhile.
WriteLeague(r) ==
    /\ pc[r] = "league_write"
    /\ seen[r].teams = 0 => league = NoLeague
    /\ \E c \in LeagueConfigs :
          league' = [teams |-> IF c.teams = seen[r].teams THEN league.teams ELSE c.teams,
                     rounds |-> c.rounds]
    /\ End(r)
    /\ UNCHANGED <<sets, activeSet, draftable, drafts, clock>>

-------------------------------------------------------------------------------
(* How a transaction ends without effect. *)

\* The handler raises: no league yet, a failed check of the payload or of the
\* draft's status, a unique constraint, or no draft row left to work on.
Refuse(r) ==
    /\ \/ pc[r] = "create_league" /\ league = NoLeague
       \/ pc[r] = "create_set" /\ activeSet = 0
       \/ pc[r] \in {"create_insert", "league_write"}
       \/ pc[r] = "locked" /\ want[r] = {}
    /\ End(r)
    /\ UNCHANGED dataVars

\* The server stops, the client disconnects or the connection is lost: the
\* transaction rolls back wherever it is.
RollBack(r) ==
    /\ pc[r] # "idle"
    /\ End(r)
    /\ UNCHANGED dataVars

-------------------------------------------------------------------------------
(* An import commits: it adds a projection set, deactivates another of its   *)
(* scope, and gives the set's players new active flags and eligibilities.    *)
(* Which active set then comes first in the deterministic order is left open.*)
ImportProjections ==
    /\ sets < MaxSets
    /\ sets' = sets + 1
    /\ activeSet' \in {activeSet} \cup 1..(sets + 1)
    /\ \E E \in SUBSET Projected[sets + 1] :
          draftable' = (draftable \ Projected[sets + 1]) \cup E
    /\ UNCHANGED <<league, drafts, clock, requestVars>>

\* The handler of r makes the step its code prescribes.
Work(r) ==
    \/ ReadLeague(r) \/ ReadRoster(r) \/ ReadActiveSet(r) \/ InsertDraft(r)
    \/ LockRow(r)
    \/ \E d \in DOMAIN drafts :
          \/ UpdateSetup(r, d) \/ StartDraft(r, d) \/ DeleteDraft(r, d)
          \/ ResetDraft(r, d) \/ UndoLatestPick(r, d)
          \/ \E p \in Players : CreatePick(r, d, p)
    \/ LoadLeague(r) \/ WriteLeague(r)
    \/ Refuse(r)

Begin(r) == BeginCreate(r) \/ BeginLocked(r) \/ BeginReplace(r)

Next == \/ \E r \in Requests : Begin(r) \/ Work(r) \/ RollBack(r)
        \/ ImportProjections

Spec == Init /\ [][Next]_vars

\* A handler that can go on does.  Waiting for a row lock is strongly fair: the
\* database queues the transactions that wait for one row.
Fairness == \A r \in Requests : WF_vars(Work(r)) /\ SF_vars(LockRow(r))

FairSpec == Spec /\ Fairness

-------------------------------------------------------------------------------
(* Which requests must not overlap.  Nothing in the code keeps them apart;   *)
(* a single user who waits for each answer does.  Operations under the row   *)
(* lock may overlap one another, and imports everything.                     *)

Saving(r) == pc[r] \in {"league_get", "league_write"}
Creating(r) == pc[r] \in {"create_league", "create_roster", "create_set", "create_insert"}
Locking(r) == pc[r] = "locked"

SavesApart == \A r, q \in Requests : Saving(r) /\ Saving(q) => r = q
SavesApartFromCreates == \A r, q \in Requests : ~(Saving(r) /\ Creating(q))
SavesApartFromDrafts ==
    \A r, q \in Requests : ~(Saving(r) /\ (Creating(q) \/ Locking(q)))
CreatesApart ==
    \A r, q \in Requests : Creating(r) => ~Locking(q) /\ (Creating(q) => r = q)

Apart == SavesApart /\ SavesApartFromDrafts /\ CreatesApart

ApartSpec == Init /\ [][Next /\ Apart']_vars

-------------------------------------------------------------------------------
(* Type invariant. *)

\* Rows of draft_sessions whose picks are P.
RowsWith(P) ==
    [status : Status, teams : TeamCounts, rounds : Nat \ {0}, set : 1..MaxSets,
     size : TeamCounts, user : Nat \ {0}, picks : {P}]

IsDraft(x) ==
    /\ x \in RowsWith(x.picks)
    /\ x.picks = [k \in DOMAIN x.picks |-> x.picks[k]]
    /\ DOMAIN x.picks \subseteq Nat \ {0}
    /\ IsFiniteSet(DOMAIN x.picks)
    /\ \A k \in DOMAIN x.picks : x.picks[k] \in Pick

TypeOK ==
    /\ league \in [teams : TeamCounts \cup {0}, rounds : Nat]
    /\ sets \in 0..MaxSets
    /\ activeSet \in 0..sets
    /\ draftable \subseteq Players
    /\ drafts = [d \in DOMAIN drafts |-> drafts[d]]
    /\ DOMAIN drafts \subseteq DraftIds
    /\ \A d \in DOMAIN drafts : IsDraft(drafts[d])
    /\ clock \in 0..MaxDrafts
    /\ pc \in [Requests -> {"idle", "create_league", "create_roster", "create_set",
                            "create_insert", "locked", "league_get", "league_write"}]
    /\ stamp \in [Requests -> 0..MaxDrafts]
    /\ seen \in [Requests -> [teams : TeamCounts \cup {0}, rounds : Nat,
                              set : 0..MaxSets]]
    /\ want \in [Requests -> SUBSET DraftIds]
    /\ held \in [Requests -> SUBSET DraftIds]

-------------------------------------------------------------------------------
(* Safety. *)

\* However creates, resets and undos of completed drafts race, at most one draft
\* is in setup or in progress (the unlocked check of create_draft does not give
\* this; the partial unique index does).
OneActiveDraft == \A d, e \in ActiveDrafts : d = e

\* The picks of every draft are numbered 1..n without a gap, each by the team
\* the snake order puts on the clock, and no player is drafted twice, although
\* create_pick derives the number from a count and undo deletes rows.
PicksFollowSnake ==
    \A d \in DOMAIN drafts :
        LET x == drafts[d]
        IN /\ DOMAIN x.picks = 1..Count(x)
           /\ \A k \in DOMAIN x.picks : x.picks[k].position = DraftPosition(k, x.teams)
           /\ \A j, k \in DOMAIN x.picks :
                 x.picks[j].player = x.picks[k].player => j = k

\* The status says how far the draft is: no pick in setup, room for one more in
\* progress, every pick made when completed.
StatusMatchesPicks ==
    \A d \in DOMAIN drafts :
        LET x == drafts[d]
        IN /\ x.status = "setup" => Count(x) = 0
           /\ x.status = "in_progress" => Count(x) < Total(x)
           /\ x.status = "completed" => Count(x) = Total(x)

\* A completed draft leaves every team with one player per round.
CompletedRostersAreEqual ==
    \A d \in DOMAIN drafts :
        drafts[d].status = "completed" =>
            \A t \in 1..drafts[d].teams :
                Cardinality({k \in DOMAIN drafts[d].picks :
                                drafts[d].picks[k].position = t}) = drafts[d].rounds

\* Every drafted player belongs to the projection set pinned at creation, also
\* when imports have activated other sets since (ADR 0007).
PicksFromPinnedSet ==
    \A d \in DOMAIN drafts : Taken(drafts[d]) \subseteq Projected[drafts[d].set]

\* The terms a draft was created with never change, and from its start on its
\* teams and the user's seat do not either (README, "Starting a draft freezes").
TermsAreFrozen ==
    [][ \A d \in DOMAIN drafts \cap DOMAIN drafts' :
          LET x == drafts[d]
              y == drafts'[d]
          IN /\ <<x.teams, x.rounds, x.set>> = <<y.teams, y.rounds, y.set>>
             /\ x.status # "setup" => <<x.size, x.user>> = <<y.size, y.user>> ]_vars

\* The board of a draft changes by one pick at its end, or it is wiped by a
\* reset: no step loses an earlier pick or rewrites one.
PicksChangeAtTheEnd ==
    [][ \A d \in DOMAIN drafts \cap DOMAIN drafts' :
          LET x == drafts[d]
              y == drafts'[d]
          IN \/ y.picks = x.picks
             \/ y.picks = <<>> /\ y.status = "setup"
             \/ /\ DOMAIN y.picks \in {1..(Count(x) + 1), 1..(Count(x) - 1)}
                /\ \A k \in DOMAIN x.picks \cap DOMAIN y.picks : y.picks[k] = x.picks[k]
      ]_vars

\* An existing draft is changed or deleted only by a request that has locked it,
\* while no other request has: no operation works on a stale row.
ChangesAreLocked ==
    [][ \A d \in DOMAIN drafts :
          (d \notin DOMAIN drafts' \/ drafts'[d] # drafts[d]) =>
              \E r \in Requests : /\ d \in held[r]
                                  /\ pc'[r] = "idle"
                                  /\ \A q \in Requests \ {r} : d \notin held[q] ]_vars

\* League settings change only while no draft is active (README, "League scoring
\* and roster settings are locked while a setup or in-progress draft exists").
LeagueLocked == [][league' # league => ActiveDrafts = {}]_vars

\* The stored settings are those of one PUT /league (README: it "replaces the
\* singleton league, scoring rules, and roster slots in one database transaction").
LeagueIsAsSubmitted == league \in LeagueConfigs \cup {NoLeague}

\* A draft has the team count and the rounds of settings the league once had
\* (README: "Draft creation snapshots the singleton league").
DraftSnapshotsALeague ==
    \A d \in DOMAIN drafts :
        [teams |-> drafts[d].teams, rounds |-> drafts[d].rounds] \in LeagueConfigs

\* The active draft is the newest one, the only one the API can reach.
ActiveDraftIsNewest == \A d \in ActiveDrafts : \A e \in DOMAIN drafts : e <= d

\* A locked operation works on the newest draft there is when it commits, though
\* it may have waited for the locks while others deleted drafts or wiped them
\* (get_latest_draft_for_update); a create that committed in the wait is missed.
WorksOnNewest ==
    \A r \in Requests, d \in DOMAIN drafts :
        Works(r, d) => \A e \in DOMAIN drafts : e <= d

-------------------------------------------------------------------------------
(* Liveness. *)

\* No request waits forever for a row lock another one holds.
EveryRequestEnds == \A r \in Requests : pc[r] # "idle" ~> pc[r] = "idle"

-------------------------------------------------------------------------------
(* Refinement: hiding the requests, the tables behave as a DraftBoard. *)

BoardEntry(x) ==
    [terms |-> [teams |-> x.teams, rounds |-> x.rounds, pool |-> Projected[x.set]],
     started |-> x.status # "setup",
     user |-> x.user,
     log |-> [k \in 1..Count(x) |->
                [player |-> x.picks[k].player, seat |-> x.picks[k].position]]]

Board == INSTANCE DraftBoard WITH
    Ids <- DraftIds,
    Seats <- UNION {1..c.teams : c \in LeagueConfigs},
    Terms <- [teams : {c.teams : c \in LeagueConfigs},
              rounds : {c.rounds : c \in LeagueConfigs} \ {0},
              pool : {Projected[s] : s \in 1..MaxSets}],
    board <- [d \in DOMAIN drafts |-> BoardEntry(drafts[d])]

\* The concurrent API implements the one-operation-at-a-time board.
ImplementsBoard == Board!Spec
===============================================================================
