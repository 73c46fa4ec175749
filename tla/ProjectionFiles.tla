---------------------------- MODULE ProjectionFiles ----------------------------
(***************************************************************************)
(* What an import takes from a file, as operators:                         *)
(*   backend/app/projections/providers/csv_provider.py, normalization.py   *)
(*   backend/app/projections/bootstrap/basketball_reference.py,            *)
(*     assumptions.py, generator.py                                        *)
(*   backend/app/projections/import_service.py   _validate_players         *)
(*                                                                         *)
(* Abstractions.  Cells are stripped and in upper case where the code      *)
(* makes them so.  A name is a pair of its casefold and its spelling, a    *)
(* list of positions the set of its tokens, a number a count of thousandths *)
(* (the text of a number that is none keeps only what is wrong with it).   *)
(* An issue is its code and its field.                                     *)
(***************************************************************************)
EXTENDS Integers, Sequences, FiniteSets, SequencesExt

BaseFields == {"fgm", "fga", "ftm", "fta", "rebounds", "assists", "steals", "blocks", "turnovers"}
NumericFields == BaseFields \cup {"games", "minutes_per_game"}
RequiredColumns == NumericFields \cup {"player_id", "full_name"}
BasePositionSet == {"PG", "SG", "SF", "PF", "C"}
TrueValues == {"1", "TRUE", "T", "YES", "Y"}
FalseValues == {"0", "FALSE", "F", "NO", "N"}

Number(n) == [is |-> "number", n |-> n]
Blank == [is |-> "blank", n |-> 0]
NotANumber == [is |-> "text", n |-> 0]
NotFinite == [is |-> "infinite", n |-> 0]
Casefold(name) == name[1]

If(condition, code, where) == IF condition THEN {<<code, where>>} ELSE {}

-----------------------------------------------------------------------------
(* A CSV file: the columns of its header and its rows. *)
MissingColumnIssues(columns) == {<<"missing_required_column", c>> : c \in RequiredColumns \ columns}

(* A row counts as soon as one cell is not blank, those of unknown columns *)
(* (other) and those beyond the header (overflow) included.                *)
HasContent(row) ==
  \/ row.player_id # "" \/ row.full_name # <<>> \/ row.team # "" \/ row.primary_position # ""
  \/ row.positions # {} \/ row.is_active # "" \/ row.points # Blank
  \/ row.other # "" \/ row.overflow
  \/ \E f \in NumericFields : row.stats[f] # Blank

(* _decimal_value and _optional_decimal_value. *)
NumberIssues(value, field) ==
  If(value.is = "text", "invalid_number", field)
  \cup If(value.is = "infinite", "non_finite_number", field)

(* _normalize_optional_position and _normalize_positions. *)
PrimaryPosition(row) == IF row.primary_position \in BasePositionSet THEN row.primary_position ELSE ""
PositionParts(row) ==
  IF row.positions = {} /\ PrimaryPosition(row) # "" THEN {PrimaryPosition(row)} ELSE row.positions
Positions(row) == PositionParts(row) \cap BasePositionSet
PositionIssues(row) ==
  If(row.primary_position \notin BasePositionSet \cup {""}, "unknown_position", "primary_position")
  \cup If(PositionParts(row) \ BasePositionSet # {}, "unknown_position", "positions")
  \cup If(PrimaryPosition(row) \notin Positions(row) \cup {""}, "unknown_position", "primary_position")

(* _normalize_is_active: blank is active. *)
IsActive(row) == row.is_active \notin FalseValues
ActiveIssues(row) ==
  If(row.is_active \notin TrueValues \cup FalseValues \cup {""}, "invalid_boolean", "is_active")

(* What makes _normalize_projection_player give the row up before it looks *)
(* at ranges.                                                              *)
RequiredIssues(row) ==
  If(row.player_id = "", "required_field_missing", "player_id")
  \cup If(row.full_name = <<>>, "required_field_missing", "full_name")
  \cup UNION {If(row.stats[f] = Blank, "required_field_missing", f)
               \cup NumberIssues(row.stats[f], f) : f \in NumericFields}
Complete(row) == RequiredIssues(row) = {}

(* The ranges, and a mutant that does not compare makes with attempts. *)
OutOfRange(field) == <<"value_out_of_range", field>>
RangeIssues_NoPairs(row) ==
  {OutOfRange(f) : f \in {g \in NumericFields : row.stats[g].n < 0}}
  \cup If(row.stats.games.n > 82000, "value_out_of_range", "games")
  \cup If(row.stats.minutes_per_game.n > 60000, "value_out_of_range", "minutes_per_game")
  \cup If(row.points.n < 0, "value_out_of_range", "points")
RangeIssues(row) ==
  RangeIssues_NoPairs(row)
  \cup If(row.stats.fgm.n > row.stats.fga.n, "value_out_of_range", "fgm")
  \cup If(row.stats.ftm.n > row.stats.fta.n, "value_out_of_range", "ftm")

RowIssues(row) ==
  RequiredIssues(row) \cup PositionIssues(row) \cup ActiveIssues(row)
  \cup NumberIssues(row.points, "points")
  \cup IF Complete(row) THEN RangeIssues(row) ELSE {}

(* Repeated ids and, whatever their case, names. *)
Repeats(values) == \E i, j \in DOMAIN values : i < j /\ values[i] = values[j]
DuplicateIssues(rows) ==
  If(Repeats([i \in DOMAIN rows |-> rows[i].player_id]), "duplicate_provider_player_id", "player_id")
  \cup If(Repeats([i \in DOMAIN rows |-> Casefold(rows[i].full_name)]),
          "duplicate_player_name", "full_name")

(* A ProjectionPlayer.  Points are NULL when the file has none. *)
ProjectionPlayer(row) ==
  [id |-> row.player_id, name |-> row.full_name, positions |-> Positions(row),
   active |-> IsActive(row), points |-> row.points,
   stats |-> [f \in NumericFields |-> row.stats[f].n]]

(* load_payload: the issues that reject the file, else its players.  Rows  *)
(* without content are skipped; one with more fields than the header       *)
(* rejects the file before any row is normalised.                          *)
ContentRows(file) == SelectSeq(file.rows, HasContent)

CsvIssues(file) ==
  LET rows     == ContentRows(file)
      complete == SelectSeq(rows, Complete)
  IN IF MissingColumnIssues(file.columns) # {} THEN MissingColumnIssues(file.columns)
     ELSE IF \E i \in DOMAIN rows : rows[i].overflow THEN {<<"malformed_row", "">>}
     ELSE LET found == UNION {RowIssues(rows[i]) : i \in DOMAIN rows} \cup DuplicateIssues(complete)
          IN found \cup If(complete = <<>> /\ found = {}, "empty_provider_rows", "")

CsvPlayers(file) ==
  [i \in DOMAIN ContentRows(file) |-> ProjectionPlayer(ContentRows(file)[i])]

-----------------------------------------------------------------------------
(* The bootstrap: a file of statistics per 36 minutes and one of metadata,  *)
(* without their empty rows; header says that both have their columns.      *)
SpsFields == BaseFields \cup {"points"}

SpsIssues(row) ==
  If(row.full_name = <<>>, "required_field_missing", "Player")
  \cup If(row.player_id = "", "required_field_missing", "-9999")
  \cup UNION {If(row.stats[f].is # "number", "invalid_numeric", f) : f \in SpsFields}

MetadataPositions(row) ==
  (IF row.positions = {} THEN {row.primary_position} ELSE row.positions) \cap BasePositionSet

MetadataIssues(row) ==
  LET unsupported == row.positions \ BasePositionSet
      kept        == MetadataPositions(row)
  IN If(row.player_id = "", "required_field_missing", "source_player_id")
     \cup If(row.full_name = <<>>, "required_field_missing", "player_name")
     \cup If(row.team = "", "invalid_team", "team")
     \cup If(row.primary_position \notin BasePositionSet, "invalid_position", "primary_position")
     \cup If(unsupported # {}, "invalid_position", "positions")
     \cup If(kept = {} /\ unsupported = {}, "invalid_position", "positions")
     \cup If(row.primary_position \in BasePositionSet \ kept /\ (kept # {} \/ unsupported # {}),
             "primary_position_not_in_positions", "primary_position")

(* The first row of an id that has no issue of its own is accepted. *)
Accepted(rows, issues) ==
  {i \in DOMAIN rows :
     /\ issues[i] = {}
     /\ \A j \in 1 .. i - 1 : issues[j] = {} => rows[j].player_id # rows[i].player_id}
AcceptedSps(rows)      == Accepted(rows, [i \in DOMAIN rows |-> SpsIssues(rows[i])])
AcceptedMetadata(rows) == Accepted(rows, [i \in DOMAIN rows |-> MetadataIssues(rows[i])])

(* BootstrapAssumptions: 68 games and 26 minutes, unless the player has    *)
(* overrides (the imports give none).                                      *)
ProjectedGames == 68000
MinutesPerGame == 26000

(* _per_game: a share of 36 minutes, rounded half up to thousandths. *)
RoundHalfUp(a, b) == IF a >= 0 THEN (2 * a + b) \div (2 * b) ELSE -((2 * (-a) + b) \div (2 * b))
PerGame(per36) == RoundHalfUp(per36 * (MinutesPerGame \div 10), 3600)

GeneratedPlayer(row, metadata) ==
  [id |-> row.player_id, name |-> row.full_name, positions |-> MetadataPositions(metadata),
   active |-> TRUE, points |-> Number(PerGame(row.stats["points"].n)),
   stats |-> [f \in NumericFields |->
     CASE f = "games" -> ProjectedGames
       [] f = "minutes_per_game" -> MinutesPerGame
       [] OTHER -> PerGame(row.stats[f].n)]]

(* generate_bootstrap_projection_payload: a player without metadata is     *)
(* left out; any rejected row makes its callers give up.                   *)
BootstrapIssues(file) ==
  If(~file.header, "missing_header", "")
  \cup If(AcceptedSps(file.rows) # DOMAIN file.rows, "rejected_row", "sps")
  \cup If(AcceptedMetadata(file.metadata) # DOMAIN file.metadata, "rejected_row", "metadata")

BootstrapPlayers(file) ==
  LET known(row) == {m \in AcceptedMetadata(file.metadata) :
                       file.metadata[m].player_id = row.player_id}
      matched == SelectSeq(file.rows, LAMBDA row : known(row) # {})
  IN [i \in DOMAIN matched |->
        GeneratedPlayer(matched[i], file.metadata[CHOOSE m \in known(matched[i]) : TRUE])]

-----------------------------------------------------------------------------
(* The players of a file, or none of them. *)
FileIssues(file) == IF file.kind = "csv" THEN CsvIssues(file) ELSE BootstrapIssues(file)
PlayersIn(file) == IF file.kind = "csv" THEN CsvPlayers(file) ELSE BootstrapPlayers(file)

(* _validate_players: at least one player, no id twice, known positions.   *)
PlayerIssues(players) ==
  If(players = <<>>, "validation_error", "")
  \cup If(\E i, j \in DOMAIN players : i < j /\ players[i].id = players[j].id,
          "duplicate_provider_player_id", "player_id")
  \cup If(\E i \in DOMAIN players : ~(players[i].positions \subseteq BasePositionSet),
          "unknown_position", "positions")

=============================================================================
