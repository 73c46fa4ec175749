------------------------- MODULE MCProjectionImports -------------------------
(* Files, jobs and databases for ProjectionImports.                          *)
EXTENDS ProjectionImports

Ann == <<"ann", 1>>
Bob == <<"bob", 1>>
BigBob == <<"bob", 2>>

Row(id, name, positions) ==
  [player_id |-> id, full_name |-> name, team |-> "", primary_position |-> "", positions |-> positions,
   is_active |-> "", points |-> Blank, other |-> "", overflow |-> FALSE,
   stats |-> [f \in NumericFields |-> Number(IF f = "games" THEN 81995 ELSE 1000)]]
Csv(rows) == [kind |-> "csv", columns |-> RequiredColumns \cup {"positions"}, rows |-> rows]

Sps(id, name, made) ==
  [player_id |-> id, full_name |-> name,
   stats |-> [f \in SpsFields |-> Number(IF f = "fgm" THEN made ELSE 5000)]]
Meta(id, name) ==
  [player_id |-> id, full_name |-> name, team |-> "T", primary_position |-> "C", positions |-> {}]
Bootstrap(rows, metadata) == [kind |-> "bootstrap", header |-> TRUE, rows |-> rows, metadata |-> metadata]

Job(via, source, activate, file) ==
  [via |-> via, source |-> source, season |-> 2027, activate |-> activate, file |-> file]

MCJobs ==
  [first    |-> Job("csv", "a", TRUE, Csv(<<Row("1", Ann, {"PG"}), Row("2", Bob, {"SG"})>>)),
   \* Other positions, a player who has none, and both inactive.
   second   |-> Job("csv", "a", TRUE,
                  Csv(<<[Row("1", Ann, {"C"}) EXCEPT !.is_active = "NO"],
                        [Row("2", Bob, {}) EXCEPT !.is_active = "NO"]>>)),
   \* Another source, in the other order, that makes them inactive too.
   other    |-> Job("csv", "b", FALSE,
                  Csv(<<[Row("x", Bob, {"SG", "PF"}) EXCEPT !.is_active = "NO"],
                        [Row("y", Ann, {"PG"}) EXCEPT !.is_active = "0"]>>)),
   \* The identity of Ann under the name of Bob, and Ann under a new id.
   renamed  |-> Job("csv", "a", TRUE, Csv(<<Row("1", Bob, {"PG"}), Row("3", Ann, {"PG"})>>)),
   \* More makes than attempts.
   makes    |-> Job("csv", "a", TRUE,
                  Csv(<<[Row("1", Ann, {"PG"}) EXCEPT !.stats["fgm"] = Number(2000)]>>)),
   \* A name twice but for its case.
   twice    |-> Job("csv", "b", TRUE, Csv(<<Row("7", Bob, {"C"}), Row("8", BigBob, {"C"})>>)),
   \* A number no column holds.
   large    |-> Job("csv", "a", FALSE,
                  Csv(<<[Row("1", Ann, {"PG"}) EXCEPT !.stats["fga"] = Number(1000000)]>>)),
   \* The bootstrap, with a player that has no metadata, and one with more
   \* makes than attempts.
   bootstrap |-> Job("api", "boot", TRUE,
                   Bootstrap(<<Sps("p1", Ann, 4000), Sps("p2", Bob, 4000)>>, <<Meta("p1", Ann)>>)),
   broken    |-> Job("cli", "boot", TRUE, Bootstrap(<<Sps("p1", Ann, 6000)>>, <<Meta("p1", Ann)>>))]

Empty ==
  [sources |-> {}, players |-> <<>>, eligibility |-> {}, identities |-> Nothing,
   sets |-> {}, projections |-> {}, nextPlayer |-> 0, nextSet |-> 0]

\* The database after the first job.
AfterFirst ==
  [sources |-> {"a"}, players |-> <<[name |-> Ann, active |-> TRUE], [name |-> Bob, active |-> TRUE]>>,
   eligibility |-> {<<1, "PG">>, <<2, "SG">>},
   identities |-> (<<"a", "1">> :> 1) @@ (<<"a", "2">> :> 2),
   sets |-> {[id |-> 1, source |-> "a", season |-> 2027, active |-> TRUE, job |-> "first"]},
   projections |-> {[set |-> 1, player |-> p,
                     stats |-> [f \in NumericFields |-> IF f = "games" THEN 82000 ELSE 1000]] : p \in {1, 2}},
   nextPlayer |-> 2, nextSet |-> 1]

\* Two players of one name, as two first imports that ran together leave them.
AfterBoth ==
  [AfterFirst EXCEPT !.players = Append(@, [name |-> Bob, active |-> TRUE]),
     !.sources = @ \cup {"c"}, !.identities = (<<"c", "9">> :> 3) @@ @,
     !.eligibility = @ \cup {<<3, "SG">>}, !.nextPlayer = 3]

MCStarts == {Empty, AfterFirst, AfterBoth}

Symmetry == Permutations(Importers)
=============================================================================
