--------------------------- MODULE ProjectionImports ---------------------------
(***************************************************************************)
(* Imports of projection files into one database:                          *)
(*   backend/app/projections/import_service.py  ProjectionImportService    *)
(*   backend/app/projections/router.py          the bootstrap import       *)
(*   backend/app/projections/import_csv.py, bootstrap/generator.py  CLIs   *)
(*   backend/app/projections/model.py, players/model.py  the constraints   *)
(* An import is one transaction at READ COMMITTED: its reads see what is   *)
(* committed and its own writes, and a write waits for the transaction     *)
(* that holds the row or has inserted the same unique key.  Any failure    *)
(* rolls everything back; the process may also be killed.                  *)
(*                                                                         *)
(* Abstractions.  The SELECTs of the plan are one snapshot.  A statement   *)
(* that may wait starts a step; statements after it that cannot wait, and  *)
(* the first SELECT after them, belong to the same step.  A season and the *)
(* one projection type make a scope.  Of a player only the name and        *)
(* is_active are kept.  A preview is a plan that ends here.                *)
(***************************************************************************)
EXTENDS ProjectionFiles, FiniteSetsExt

CONSTANTS
  Importers,   \* imports, each made once
  Jobs,        \* by name, what they import: [via, source, season, activate, file]
  Starts,      \* initial databases: records of committed rows
  None

VARIABLES
  db,          \* the committed rows: sources, players, eligibility, identities,
               \* sets and projections, and the sequences of player and set ids
  imp,         \* per import: its transaction
  latest,      \* history: the positions the last committed import gave a player
  raced        \* history: players whose last committed import read their
               \* positions before another import committed them

vars == <<db, imp, latest, raced>>

(* A mapping that shadows another, and one with an entry more. *)
Over(f, g) == [x \in DOMAIN f \cup DOMAIN g |-> IF x \in DOMAIN f THEN f[x] ELSE g[x]]
With(f, key, value) == [x \in DOMAIN f \cup {key} |-> IF x = key THEN value ELSE f[x]]

(* A transaction: the sets it deactivates and the id of its own; per row   *)
(* done the player; the players as the identity map holds them and as they *)
(* will be; the positions still to delete (obsolete) and to insert (queued)*)
(* beside those deleted and added; and, as history, the players committed  *)
(* by others after it read their positions (stale).                        *)
Idle == [pc |-> "new", job |-> None, plan |-> <<>>, deactivated |-> {}, set |-> None,
         ids |-> <<>>, seen |-> None, written |-> None, identities |-> None,
         obsolete |-> {}, deleted |-> {}, added |-> {}, queued |-> {}, stale |-> {}]
Nothing == [x \in {} |-> None]

Players == [name \in DOMAIN Jobs |-> PlayersIn(Jobs[name].file)]

ASSUME NoneAssumption == None \notin Int

(* A file is a finite sequence of rows, and its numbers are numbers.       *)
ASSUME JobsAssumption ==
  \A name \in DOMAIN Jobs :
    /\ Jobs[name].via = "csv" => Jobs[name].file.kind = "csv"
    /\ Len(Players[name]) \in Nat
    /\ Players[name] = [k \in 1 .. Len(Players[name]) |-> Players[name][k]]
    /\ \A k \in DOMAIN Players[name] :
         /\ Players[name][k].points.n \in Int
         /\ \A f \in NumericFields : Players[name][k].stats[f] \in Int

Invalid == {name \in DOMAIN Jobs :
  \/ FileIssues(Jobs[name].file) # {}
  \/ PlayerIssues(Players[name]) # {}
  \/ Jobs[name].season \notin 2000 .. 2100}
JobOf(i) == Jobs[imp[i].job]
PlayersOf(i) == Players[imp[i].job]

Open(i) == imp[i].pc \in {"find", "update", "insert", "deactivate", "set",
                          "fetch", "write", "replace", "end"}
Holds(i) == imp[i].pc \in {"deactivate", "set", "fetch", "write", "replace", "end"}
Others(i) == {j \in Importers \ {i} : Open(j)}
Become(i, next) == imp' = [imp EXCEPT ![i] = next]
End(i, how) == Become(i, [Idle EXCEPT !.pc = how, !.job = imp[i].job])

InScope(s, job) == s.source = job.source /\ s.season = job.season

-----------------------------------------------------------------------------
(* The databases imports leave behind, from which others start.            *)

(* What the columns keep of a row: NUMERIC(5,2) rounds games and minutes,  *)
(* halves away from zero; NUMERIC(6,3) keeps thousandths.                  *)
Stored(stats) ==
  [f \in NumericFields |->
    IF f \in {"games", "minutes_per_game"} THEN 10 * RoundHalfUp(stats[f], 10) ELSE stats[f]]

(* Set s of database d has one projection for every row of its file, for   *)
(* the player the source's identity of the row names, and no other.        *)
IsWhole(d, s) ==
  LET rows == Players[s.job]
  IN /\ \A k \in DOMAIN rows :
          /\ <<s.source, rows[k].id>> \in DOMAIN d.identities
          /\ [set |-> s.id, player |-> d.identities[<<s.source, rows[k].id>>],
              stats |-> Stored(rows[k].stats)] \in d.projections
     /\ Cardinality({x \in d.projections : x.set = s.id}) = Len(rows)

OneActive(d) == \A s, u \in d.sets : s.active /\ u.active /\ InScope(s, u) => s = u

IsDatabase(d) ==
  /\ d = [sources |-> d.sources, players |-> d.players, eligibility |-> d.eligibility,
          identities |-> d.identities, sets |-> d.sets, projections |-> d.projections,
          nextPlayer |-> d.nextPlayer, nextSet |-> d.nextSet]
  /\ d.nextPlayer \in Nat /\ d.nextSet \in Nat
  /\ DOMAIN d.players \subseteq 1 .. d.nextPlayer
  /\ \A key \in DOMAIN d.identities : d.identities[key] \in 1 .. d.nextPlayer
  /\ \A e \in d.eligibility : e = <<e[1], e[2]>> /\ e[1] \in 1 .. d.nextPlayer
  /\ {s.id : s \in d.sets} \subseteq 1 .. d.nextSet
  /\ \A s, u \in d.sets : s.id = u.id => s = u
  /\ \A s \in d.sets : s = [id |-> s.id, source |-> s.source, season |-> s.season,
                            active |-> s.active, job |-> s.job]
  /\ \A x \in d.projections : x.set \in 1 .. d.nextSet
  /\ OneActive(d)
  /\ \A s \in d.sets : IsWhole(d, s)

ASSUME StartsAssumption == \A d \in Starts : IsDatabase(d)

Init ==
  /\ db \in Starts
  /\ latest = [p \in DOMAIN db.players |-> {e[2] : e \in {x \in db.eligibility : x[1] = p}}]
  /\ imp = [i \in Importers |-> Idle]
  /\ raced = {}

-----------------------------------------------------------------------------
(* The file is read and validated before any transaction.  The bootstrap   *)
(* of the API looks for projection sets first, and rolls that back.        *)
Start(i, name) ==
  /\ imp[i].pc = "new"
  /\ Become(i, [Idle EXCEPT
       !.pc = IF Jobs[name].via = "api" /\ db.sets # {} THEN "refused"
              ELSE IF name \in Invalid THEN "rejected" ELSE "plan",
       !.job = name])
  /\ UNCHANGED <<db, latest, raced>>

(* _build_plan: the source's identity of the row's id, else the one player *)
(* of exactly that name, else a new player.  A mutant goes by name first.  *)
Known(i, row) == <<JobOf(i).source, row.id>> \in DOMAIN db.identities
Named(row) == {p \in DOMAIN db.players : db.players[p].name = row.name}
Resolve_NameFirst(i, row) ==
  IF Named(row) # {} THEN CHOOSE p \in Named(row) : TRUE
  ELSE IF Known(i, row) THEN db.identities[<<JobOf(i).source, row.id>>] ELSE None
Resolve(i, row) ==
  IF Known(i, row) THEN db.identities[<<JobOf(i).source, row.id>>]
  ELSE IF Named(row) # {} THEN CHOOSE p \in Named(row) : TRUE ELSE None

Rows(i) == DOMAIN PlayersOf(i)

Plan(i) ==
  /\ imp[i].pc = "plan"
  /\ LET row(k) == PlayersOf(i)[k]
     IN IF \E k \in Rows(i) : ~Known(i, row(k)) /\ Cardinality(Named(row(k))) > 1
        THEN End(i, "ambiguous")
        ELSE Become(i, [imp[i] EXCEPT !.pc = "find",
               !.plan = [k \in Rows(i) |-> [player |-> Resolve(i, row(k)), isNew |-> ~Known(i, row(k))]],
               !.seen = Nothing, !.written = Nothing, !.identities = Nothing])
  /\ UNCHANGED <<db, latest, raced>>

-----------------------------------------------------------------------------
(* What an import waits for: the row of its source, which every import of  *)
(* it updates; a row another import writes or deletes; a unique key that   *)
(* another inserts or deletes, that of the active set of a scope included. *)
RowAt(i) == PlayersOf(i)[Len(imp[i].ids) + 1]
PlanAt(i) == imp[i].plan[Len(imp[i].ids) + 1]
View(i) == Over(imp[i].written, db.players)

(* An attribute is written when it differs from what session.get returned. *)
Values(row) == [name |-> row.name, active |-> row.active]
Updates(i) ==
  LET p == PlanAt(i).player IN p # None /\ imp[i].seen[p] # Values(RowAt(i))

Blocks(j, i) ==
  \/ /\ imp[i].pc \in {"update", "insert"}
     /\ Holds(j) /\ JobOf(j).source = JobOf(i).source
  \/ /\ imp[i].pc = "set" /\ JobOf(i).activate
     /\ imp[j].set # None /\ JobOf(j).activate /\ InScope(JobOf(j), JobOf(i))
  \/ imp[i].pc = "write" /\ Updates(i) /\ PlanAt(i).player \in DOMAIN imp[j].written
  \/ imp[i].pc = "replace" /\ imp[i].obsolete \cap imp[j].deleted # {}
  \/ /\ imp[i].pc \in {"fetch", "end"}
     /\ imp[i].queued \cap (imp[j].added \cup imp[j].deleted) # {}
WaitsFor(i) == {j \in Others(i) : Blocks(j, i)}

(* PostgreSQL ends one of the transactions that wait for each other. *)
Deadlock(i) ==
  /\ \E group \in SUBSET Importers :
       i \in group /\ \A j \in group : Open(j) /\ WaitsFor(j) \cap group # {}
  /\ End(i, "deadlock")
  /\ UNCHANGED <<db, latest, raced>>

Kill(i) ==
  /\ Open(i)
  /\ End(i, "killed")
  /\ UNCHANGED <<db, latest, raced>>

-----------------------------------------------------------------------------
(* _resolve_source looks for the source, then inserts it or updates its    *)
(* row, whatever is in it: updated_at is always set.  A mutant leaves an   *)
(* unchanged row alone, and so takes no lock on it.                        *)
FindSource(i) ==
  /\ imp[i].pc = "find"
  /\ Become(i, [imp[i] EXCEPT !.pc = IF JobOf(i).source \in db.sources THEN "update" ELSE "insert"])
  /\ UNCHANGED <<db, latest, raced>>

SourceTaken(i) ==
  /\ IF imp[i].pc = "insert" /\ JobOf(i).source \in db.sources THEN End(i, "source exists")
     ELSE Become(i, [imp[i] EXCEPT !.pc = IF JobOf(i).activate THEN "deactivate" ELSE "set"])
  /\ UNCHANGED <<db, latest, raced>>
TakeSource_Untouched(i) ==
  /\ imp[i].pc \in {"update", "insert"} /\ (imp[i].pc = "insert" => WaitsFor(i) = {})
  /\ SourceTaken(i)
TakeSource(i) ==
  /\ imp[i].pc \in {"update", "insert"} /\ WaitsFor(i) = {}
  /\ SourceTaken(i)

(* The active sets of the scope, as this UPDATE finds them, are            *)
(* deactivated; their rows are only touched with the source's row locked.  *)
ActiveInScope(job) == {s \in db.sets : s.active /\ InScope(s, job)}
Deactivate(i) ==
  /\ imp[i].pc = "deactivate"
  /\ Become(i, [imp[i] EXCEPT !.pc = "set", !.deactivated = {s.id : s \in ActiveInScope(JobOf(i))}])
  /\ UNCHANGED <<db, latest, raced>>

(* The import's own set is inserted.  The partial unique index refuses an  *)
(* active one beside one that is not deactivated.                          *)
InsertSet(i) ==
  /\ imp[i].pc = "set" /\ WaitsFor(i) = {}
  /\ db' = [db EXCEPT !.nextSet = @ + 1]
  /\ IF JobOf(i).activate /\ \E s \in ActiveInScope(JobOf(i)) : s.id \notin imp[i].deactivated
     THEN End(i, "active exists")
     ELSE Become(i, [imp[i] EXCEPT !.pc = "fetch", !.set = db.nextSet + 1])
  /\ UNCHANGED <<latest, raced>>

-----------------------------------------------------------------------------
(* A row of _persist_players.  First the positions queued for the row      *)
(* before are flushed, and session.get reads the player, unless an earlier *)
(* row of the import still holds him.                                      *)
Taken(i) == \E e \in imp[i].queued : e \in db.eligibility \ imp[i].deleted

Fetch(i) ==
  /\ imp[i].pc = "fetch" /\ WaitsFor(i) = {}
  /\ LET p == PlanAt(i).player
     IN IF Taken(i) THEN End(i, "position exists")
        ELSE Become(i, [imp[i] EXCEPT
               !.pc = "write", !.added = @ \cup imp[i].queued, !.queued = {},
               !.seen = IF p = None \/ p \in DOMAIN @ THEN @ ELSE With(@, p, db.players[p])])
  /\ UNCHANGED <<db, latest, raced>>

(* Then the player is inserted or updated, attribute by attribute, his     *)
(* identity is inserted, and his positions are read: what they show is     *)
(* deleted or queued later.  A mutant lets obsolete positions stay.        *)
Written(i, p, row) ==
  IF PlanAt(i).player = None THEN Values(row)
  ELSE [name   |-> IF row.name = imp[i].seen[p].name THEN View(i)[p].name ELSE row.name,
        active |-> IF row.active = imp[i].seen[p].active THEN View(i)[p].active ELSE row.active]

PositionsOf(i, p) ==
  {e[2] : e \in {x \in (db.eligibility \ imp[i].deleted) \cup imp[i].added : x[1] = p}}
Obsolete_Stay(i, p) == {}
Obsolete(i, p) == {<<p, q>> : q \in PositionsOf(i, p) \ RowAt(i).positions}
Missing(i, p) == {<<p, q>> : q \in RowAt(i).positions \ PositionsOf(i, p)}

AfterRow(done, i) == IF done = Len(PlayersOf(i)) THEN "end" ELSE "fetch"

WritePlayer(i) ==
  /\ imp[i].pc = "write" /\ WaitsFor(i) = {}
  /\ LET row == RowAt(i)
         new == PlanAt(i).player = None
         p   == IF new THEN db.nextPlayer + 1 ELSE PlanAt(i).player
         key == <<JobOf(i).source, row.id>>
     IN /\ db' = [db EXCEPT !.nextPlayer = IF new THEN @ + 1 ELSE @]
        /\ IF PlanAt(i).isNew /\ key \in DOMAIN db.identities THEN End(i, "identity exists")
           ELSE Become(i, [imp[i] EXCEPT
                  !.pc = IF Obsolete(i, p) # {} THEN "replace" ELSE AfterRow(Len(imp[i].ids) + 1, i),
                  !.ids = Append(@, p),
                  !.seen = With(@, p, Values(row)),
                  !.written = IF new \/ Updates(i) THEN With(@, p, Written(i, p, row)) ELSE @,
                  !.identities = IF PlanAt(i).isNew THEN With(@, key, p) ELSE @,
                  !.obsolete = Obsolete(i, p),
                  !.queued = Missing(i, p)])
  /\ UNCHANGED <<latest, raced>>

(* The DELETE of the obsolete positions passes over what is gone by then.  *)
ReplacePositions(i) ==
  /\ imp[i].pc = "replace" /\ WaitsFor(i) = {}
  /\ Become(i, [imp[i] EXCEPT
       !.pc = AfterRow(Len(imp[i].ids), i),
       !.deleted = @ \cup (imp[i].obsolete \cap db.eligibility),
       !.added = @ \ imp[i].obsolete,
       !.obsolete = {}])
  /\ UNCHANGED <<db, latest, raced>>

(* What the columns hold, and the CHECK constraints of player_projections, *)
(* both of the numbers as they are stored.                                 *)
Fits(player) ==
  player.points.n < 1000000 /\ \A f \in NumericFields : Stored(player.stats)[f] < 1000000
Checked(player) ==
  LET stats == Stored(player.stats)
  IN /\ \A f \in NumericFields : stats[f] >= 0
     /\ stats.games <= 82000 /\ stats.minutes_per_game <= 60000
     /\ player.points.n >= 0
     /\ stats.fgm <= stats.fga /\ stats.ftm <= stats.fta

(* The last positions and the projections are inserted, and everything is  *)
(* committed: the others' readings of these players are stale from now on. *)
Handled(i) == {imp[i].ids[k] : k \in DOMAIN imp[i].ids}

Commit(i) ==
  /\ imp[i].pc = "end" /\ WaitsFor(i) = {}
  /\ LET t      == imp[i]
         job    == JobOf(i)
         stored == {[set |-> t.set, player |-> t.ids[k], stats |-> Stored(PlayersOf(i)[k].stats)] :
                      k \in Rows(i)}
         off    == {s \in db.sets : s.id \in t.deactivated}
     IN IF Taken(i) THEN End(i, "position exists") /\ UNCHANGED <<db, latest, raced>>
        ELSE IF ~ \A k \in Rows(i) : Fits(PlayersOf(i)[k])
        THEN End(i, "overflow") /\ UNCHANGED <<db, latest, raced>>
        ELSE IF ~ \A k \in Rows(i) : Checked(PlayersOf(i)[k])
        THEN End(i, "check") /\ UNCHANGED <<db, latest, raced>>
        ELSE IF Cardinality(Handled(i)) < Len(PlayersOf(i))
        THEN End(i, "player twice") /\ UNCHANGED <<db, latest, raced>>
        ELSE /\ db' = [db EXCEPT
                  !.sources = @ \cup {job.source},
                  !.players = Over(t.written, @),
                  !.identities = Over(t.identities, @),
                  !.eligibility = (@ \ t.deleted) \cup t.added \cup t.queued,
                  !.sets = (@ \ off) \cup {[s EXCEPT !.active = FALSE] : s \in off}
                           \cup {[id |-> t.set, source |-> job.source, season |-> job.season,
                                  active |-> job.activate, job |-> t.job]},
                  !.projections = @ \cup stored]
             /\ latest' = Over([p \in Handled(i) |->
                                 PlayersOf(i)[CHOOSE k \in Rows(i) : t.ids[k] = p].positions], latest)
             /\ raced' = (raced \ Handled(i)) \cup (Handled(i) \cap t.stale)
             /\ imp' = [j \in Importers |->
                          IF j = i THEN [Idle EXCEPT !.pc = "committed", !.job = t.job]
                          ELSE [imp[j] EXCEPT !.stale = @ \cup (Handled(i) \cap Handled(j))]]

-----------------------------------------------------------------------------
Next ==
  \E i \in Importers :
    \/ \E name \in DOMAIN Jobs : Start(i, name)
    \/ Plan(i)
    \/ FindSource(i)
    \/ TakeSource(i)
    \/ Deactivate(i)
    \/ InsertSet(i)
    \/ Fetch(i)
    \/ WritePlayer(i)
    \/ ReplacePositions(i)
    \/ Commit(i)
    \/ Deadlock(i)
    \/ Kill(i)

Spec == Init /\ [][Next]_vars

-----------------------------------------------------------------------------
(* A committed set has one projection for every row of its file, for the   *)
(* player the source's identity of the row names, and no other: whatever   *)
(* was renamed, whatever ran beside it, and wherever imports failed.       *)
SetsAreWhole == \A s \in db.sets : IsWhole(db, s)

(* A player has exactly the positions of the last import that committed    *)
(* him (ADR 0006), whatever was deleted, queued or waited for, and however *)
(* many imports were open: unless that import had read his positions       *)
(* before another one committed him (import_service.py:461).               *)
EligibilityIsLatest ==
  \A p \in DOMAIN db.players \ raced :
    {e[2] : e \in {x \in db.eligibility : x[1] = p}} = latest[p]

(* No CSV file that passes its validation fails a CHECK, whatever rounding *)
(* makes of its numbers: for CSV imports the constraints are a backstop.   *)
ChecksAreBackstops ==
  \A i \in Importers : imp[i].pc = "check" => JobOf(i).via # "csv"

(* Activations of a scope take turns: none meets an active set that it has *)
(* not deactivated itself, so the partial unique index never refuses one,  *)
(* and there is one active set at most.                                    *)
ActivationsTakeTurns ==
  /\ \A i \in Importers : imp[i].pc # "active exists"
  /\ OneActive(db)

=============================================================================
