---------------------------- MODULE ValuationCache ----------------------------
(***************************************************************************)
(* The valuation requests of one server process and the snapshot cache     *)
(* they share:                                                             *)
(*   backend/app/valuations/service.py     ValuationService                *)
(*   backend/app/valuations/repository.py  the SELECTs it waits for        *)
(* Coroutines of one event loop interleave at the awaits only, so every    *)
(* action is one SELECT together with the code that runs up to the next    *)
(* await.  The SELECTs run at READ COMMITTED, each in its own snapshot.    *)
(*                                                                         *)
(* Around the requests, the league is replaced (PUT /league), drafts come  *)
(* and go, and imports change the eligibility of players.  An import's     *)
(* rows carry now(), the time its transaction began, and show when it      *)
(* commits.  Two open imports are of different players here.               *)
(*                                                                         *)
(* Abstractions.  A snapshot is the inputs it is a function of, and which  *)
(* inputs have none is any function of them (ReplacementLevels has the     *)
(* code's).  A league is a record of team count (its row), scoring rules   *)
(* and slots (the two queries of selectinload, taken as one); its name is  *)
(* not fingerprinted.                                                      *)
(* Every player has a row in every projection set, and sets never change.  *)
(* The names, teams and activity of players are left out.                  *)
(***************************************************************************)
EXTENDS Integers, Sequences, FiniteSets, SequencesExt, FiniteSetsExt

CONSTANTS
  Requests,    \* GET requests, each made once
  Importers,   \* import transactions, each run once
  Configs,     \* league settings: records [teams, rules, slots]
  Sets,        \* projection sets
  Players,
  Positions,
  MaxEntries,  \* VALUATION_CACHE_MAX_ENTRIES
  MaxChanges,  \* bound: PUT /league and changes of the current draft
  Asks,        \* projection sets a request may name, and None
  Starts,      \* initial situations: records [league, draft, active]
  Insufficient(_, _, _),  \* whether a league, a set and an eligibility have
                          \* no replacement levels, so that computing fails
  None

ASSUME CacheAssumption == MaxEntries \in Nat \ {0}
ASSUME FiniteAssumption == IsFiniteSet(Players) /\ IsFiniteSet(Positions)

VARIABLES
  league,      \* the committed league, or None
  draft,       \* the projection set of the current draft, or None
  active,      \* the deterministic active projection set, or None
  rows,        \* the committed eligibility rows [player, position, at]
  imports,     \* per import transaction: state, player, start
  req,         \* per request: its coroutine
  cache,       \* _valuation_cache: [key, value], oldest use first
  inFlight,    \* _valuation_in_flight: key -> the request that runs the task
  latest,      \* _latest_league_configuration_fingerprints of the league
  changes,     \* saves and draft changes so far
  raced        \* history: an import met another one or a computation

vars == <<league, draft, active, rows, imports, req, cache, inFlight, latest, changes, raced>>
database == <<league, draft, active, rows, imports, changes>>
memory == <<cache, inFlight, latest>>

-----------------------------------------------------------------------------
NoTasks == [key \in {} |-> None]

(* What a request remembers. *)
NoLeague == [teams |-> None, rules |-> None, slots |-> None]
Idle == [pc |-> "idle", league |-> NoLeague, set |-> None, key |-> None,
         seen |-> None, task |-> "none", on |-> None, reply |-> None]

\* list_valuations, replacement_levels and player_valuation wait for the same
\* things, list_valuations with available_only resolves the set its own way.
\* player_diagnostics reads the player after its context and has the valuation
\* of the set it has resolved: its session answers for the league and the set
\* a second time.
Ops == {"values", "available"}

Eligibility == {<<e.player, e.position>> : e \in rows}

(* _league_configuration_fingerprint, and a mutant without the team count. *)
Fingerprint_NoTeams(l) == <<l.rules, l.slots>>
Fingerprint(l) == <<l.teams, l.rules, l.slots>>

(* projection_eligibility_fingerprint: how many rows, and the latest; a     *)
(* mutant without the count.                                               *)
EligibilityFingerprint_Latest(elig) == Max({e.at : e \in elig} \cup {-1})
EligibilityFingerprint(elig) == <<Cardinality(elig), Max({e.at : e \in elig} \cup {-1})>>

(* _cache_key. *)
Key(r, elig) == [league |-> Fingerprint(req[r].league), set |-> req[r].set,
                 eligibility |-> EligibilityFingerprint(elig)]

-----------------------------------------------------------------------------
Init ==
  /\ \E start \in Starts :
       league = start.league /\ draft = start.draft /\ active = start.active
  /\ rows = {[player |-> p, position |-> CHOOSE q \in Positions : TRUE, at |-> 0] : p \in Players}
  /\ imports = [i \in Importers |-> [state |-> "new", player |-> None, at |-> 0]]
  /\ req = [r \in Requests |-> Idle]
  /\ cache = <<>> /\ inFlight = NoTasks /\ latest = None
  /\ changes = 0
  /\ raced = FALSE

Step(r, next) == req' = [req EXCEPT ![r] = next]
Fail(r) == Step(r, [req[r] EXCEPT !.pc = "failed"])

(* The request comes in and reads the league's row. *)
ReadLeague(r) ==
  /\ req[r].pc = "idle"
  /\ IF league = None
     THEN Fail(r)
     ELSE Step(r, [Idle EXCEPT !.pc = "context",
                              !.league = [NoLeague EXCEPT !.teams = league.teams]])
  /\ UNCHANGED <<database, memory, raced>>

(* The rest of _context: the projection set the request asks for, its      *)
(* draft's, or the active one.                                             *)
Resolved(op, ask) ==
  IF op = "available"
  THEN IF draft = None \/ ask \notin {None, draft} THEN None ELSE draft
  ELSE IF ask # None THEN ask
  ELSE IF draft # None THEN draft ELSE active

(* The selectinload queries of the league's parts, then the SELECTs of the *)
(* draft and the set.  They are one step: nothing here changes the league  *)
(* and the draft together.  Only here does it matter what is asked for.    *)
ReadContext(r, op, ask) ==
  /\ req[r].pc = "context"
  /\ LET set == Resolved(op, ask)
     IN IF set \notin Sets
        THEN Fail(r)
        ELSE Step(r, [req[r] EXCEPT
               !.pc = "key", !.set = set,
               !.league = [req[r].league EXCEPT
                            !.rules = league.rules, !.slots = league.slots]])
  /\ UNCHANGED <<database, memory, raced>>

(* _clear_stale_league_entries: the first request that sees another league *)
(* forgets what was computed, and what is being computed.                  *)
ClearStale(key) ==
  IF latest = key.league
  THEN [cache |-> cache, inFlight |-> inFlight]
  ELSE [cache |-> <<>>, inFlight |-> NoTasks]

(* Python's ordered dictionary: where a key is, and key and value set as   *)
(* the latest use.                                                         *)
Places(entries, key) == {at \in DOMAIN entries : entries[at].key = key}
SetLast(entries, key, value) ==
  LET others == IF Places(entries, key) = {} THEN entries
                ELSE RemoveAt(entries, CHOOSE at \in Places(entries, key) : TRUE)
  IN Append(others, [key |-> key, value |-> value])

(* _valuation_snapshot up to its second await: the key, then a cached      *)
(* snapshot, a computation under way, or a computation of its own.         *)
Keyed(r, key) == [req[r] EXCEPT !.key = key, !.seen = Eligibility]

Lookup(r) ==
  /\ req[r].pc = "key"
  /\ LET key  == Key(r, rows)
         kept == ClearStale(key)
         hits == Places(kept.cache, key)
     IN /\ latest' = key.league
        /\ \/ \E at \in hits :
              /\ Step(r, [Keyed(r, key) EXCEPT
                   !.pc = "done", !.reply = kept.cache[at].value, !.key = None])
              /\ cache' = SetLast(kept.cache, key, kept.cache[at].value)
              /\ inFlight' = kept.inFlight
           \/ /\ hits = {} /\ key \in DOMAIN kept.inFlight
              /\ Step(r, [Keyed(r, key) EXCEPT !.pc = "joined", !.on = kept.inFlight[key]])
              /\ cache' = kept.cache
              /\ inFlight' = kept.inFlight
           \/ /\ hits = {} /\ key \notin DOMAIN kept.inFlight
              /\ Step(r, [Keyed(r, key) EXCEPT !.pc = "computing", !.task = "running"])
              /\ cache' = kept.cache
              /\ inFlight' = [k \in DOMAIN kept.inFlight \cup {key} |->
                                IF k = key THEN r ELSE kept.inFlight[k]]
  /\ UNCHANGED <<database, raced>>

(* _compute_valuation_snapshot: a task of its own that reads through the   *)
(* session of the request that created it.                                 *)
Compute(r) ==
  /\ req[r].task = "running"
  /\ IF Insufficient(req[r].league, req[r].set, Eligibility)
     THEN Step(r, [req[r] EXCEPT !.task = "failed"])
     ELSE Step(r, [req[r] EXCEPT !.task = "ready",
                     !.reply = [league |-> req[r].league, set |-> req[r].set,
                                eligibility |-> Eligibility]])
  /\ UNCHANGED <<database, memory, raced>>

(* The finally clause: a task takes its own registration away; a mutant    *)
(* that forgets to when the task failed.                                   *)
Deregister_IfReady(r) == IF req[r].task = "failed" THEN inFlight
  ELSE [k \in {x \in DOMAIN inFlight : inFlight[x] # r} |-> inFlight[k]]
Deregister(r) == [k \in {x \in DOMAIN inFlight : inFlight[x] # r} |-> inFlight[k]]

(* The insert, and the bound that follows it. *)
Insert(key, value) ==
  LET grown == SetLast(cache, key, value)
  IN IF Len(grown) <= MaxEntries THEN grown
     ELSE SubSeq(grown, Len(grown) - MaxEntries + 1, Len(grown))

(* The request that created the task goes on. *)
Finish(r) ==
  /\ req[r].pc = "computing" /\ req[r].task \in {"ready", "failed"}
  /\ inFlight' = Deregister(r)
  /\ IF req[r].task = "ready"
     THEN /\ cache' = Insert(req[r].key, req[r].reply)
          /\ Step(r, [req[r] EXCEPT !.pc = "done", !.key = None])
     ELSE cache' = cache /\ Fail(r)
  /\ UNCHANGED <<database, latest, raced>>

(* A request that waited for another's task shares its outcome. *)
JoinEnds(r) ==
  /\ req[r].pc = "joined"
  /\ LET s == req[r].on
     IN \/ /\ req[s].task = "ready"
           /\ Step(r, [req[r] EXCEPT !.pc = "done", !.reply = req[s].reply, !.key = None])
        \/ req[s].task = "failed" /\ Fail(r)
  /\ UNCHANGED <<database, memory, raced>>

-----------------------------------------------------------------------------
(* PUT /league: one transaction. *)
SaveLeague ==
  /\ changes < MaxChanges
  /\ \E c \in Configs \ {league} : league' = c
  /\ changes' = changes + 1
  /\ UNCHANGED <<draft, active, rows, imports, req, memory, raced>>

(* A draft is created, completed or deleted. *)
ChangeDraft ==
  /\ changes < MaxChanges
  /\ \E s \in (Sets \cup {None}) \ {draft} : draft' = s
  /\ changes' = changes + 1
  /\ UNCHANGED <<league, active, rows, imports, req, memory, raced>>

Open == {i \in Importers : imports[i].state = "open"}

BeginImport(i, p) ==
  /\ imports[i].state = "new"
  /\ \A j \in Open : imports[j].player # p
  /\ imports' = [imports EXCEPT ![i] =
       [state |-> "open", player |-> p, at |-> 1 + Max({imports[j].at : j \in Importers})]]
  /\ raced' = (raced \/ Open # {})
  /\ UNCHANGED <<league, draft, active, rows, req, memory, changes>>

(* _persist_eligibilities: obsolete positions go, missing ones come. *)
CommitImport(i, positions) ==
  /\ imports[i].state = "open"
  /\ LET p    == imports[i].player
         kept == {e \in rows : e.player = p => e.position \in positions}
         new  == {q \in positions : ~ \E e \in rows : e.player = p /\ e.position = q}
     IN rows' = kept \cup {[player |-> p, position |-> q, at |-> imports[i].at] : q \in new}
  /\ imports' = [imports EXCEPT ![i].state = "done", ![i].player = None]
  /\ raced' = (raced \/ \E r \in Requests : req[r].task = "running")
  /\ UNCHANGED <<league, draft, active, req, memory, changes>>

-----------------------------------------------------------------------------
Next ==
  \/ \E r \in Requests :
       \/ ReadLeague(r)
       \/ \E op \in Ops, ask \in Asks : ReadContext(r, op, ask)
       \/ Lookup(r)
       \/ Compute(r)
       \/ Finish(r)
       \/ JoinEnds(r)
  \/ SaveLeague
  \/ ChangeDraft
  \/ \E i \in Importers, p \in Players : BeginImport(i, p)
  \/ \E i \in Importers, positions \in SUBSET Positions \ {{}} : CommitImport(i, positions)

Spec == Init /\ [][Next]_vars

-----------------------------------------------------------------------------
(* A request is answered for the league it has read, torn or not, and for  *)
(* the projection set it has resolved, whichever request computed the      *)
(* answer and whatever has been saved since.                               *)
RepliesMatchRequest ==
  \A r \in Requests : req[r].pc = "done" =>
    req[r].reply.league = req[r].league /\ req[r].reply.set = req[r].set

(* Count and latest time tell two states of the eligibility rows apart as  *)
(* long as imports neither overlap nor commit during a computation: the    *)
(* answer is then of the eligibility the request found with its key.       *)
FreshUnlessRaced ==
  \A r \in Requests : req[r].pc = "done" /\ ~raced =>
    req[r].reply.eligibility = req[r].seen

(* What a request can join is under way, for the key and of the league it  *)
(* is registered with: no failed task is left to be joined, no request     *)
(* takes away the registration of a task that replaced its own, and a key  *)
(* is in the cache once.                                                   *)
InFlightIsLive ==
  /\ \A k \in DOMAIN inFlight :
       /\ req[inFlight[k]].pc = "computing" /\ req[inFlight[k]].key = k
       /\ k.league = latest
  /\ \A i, j \in DOMAIN cache : cache[i].key = cache[j].key => i = j
  /\ Len(cache) <= MaxEntries

=============================================================================
