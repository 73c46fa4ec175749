----------------------------- MODULE DraftSignals -----------------------------
(***************************************************************************)
(* The signals of the draft assistant about the players still available:   *)
(* who may return at the user's next pick, which positions run short, and  *)
(* where the value on the board drops.                                     *)
(* Code: availability.py, scarcity.py and value_gaps.py of                 *)
(* backend/app/draft_assistant.                                            *)
(*                                                                         *)
(* available is the sequence of valuations in best-available order; until  *)
(* is the number of picks until the user's next one, NoTurn if none comes. *)
(***************************************************************************)
EXTENDS RosterSlots

NoTurn == -1
RiskBuffer == 2         \* AVAILABILITY_RISK_BUFFER
MeaningfulDrop == 10    \* MEANINGFUL_VALUE_DROP
DropScanLimit == 25     \* VALUE_DROP_SCAN_LIMIT
HighDrop == 10          \* SCARCITY_HIGH_DROP
MediumDrop == 5         \* SCARCITY_MEDIUM_DROP
LowDepth == 2           \* SCARCITY_LOW_DEPTH

\* Mutant of Outlook: the player's rank on the whole board, drafted players
\* included, is compared with the countdown.
Outlook_StaleRank(available, i, until) ==
    CASE until > 0 /\ available[i].rank <= until -> "UNLIKELY_TO_RETURN"
      [] until > 0 /\ available[i].rank \in (until + 1)..(until + RiskBuffer) -> "AT_RISK"
      [] OTHER -> "COULD_RETURN"

\* availability_outlooks, of the player at available rank i.  With the user on
\* the clock, or without a pick to come, nobody is at risk.
Outlook(available, i, until) ==
    CASE until > 0 /\ i <= until -> "UNLIKELY_TO_RETURN"
      [] until > 0 /\ i \in (until + 1)..(until + RiskBuffer) -> "AT_RISK"
      [] OTHER -> "COULD_RETURN"

\* next_meaningful_value_drop: the places in the scan after which the value
\* falls by 10 or more; the first of them is reported.
ValueDrops(available) ==
    LET scan == SelectSeq(SubSeq([i \in DOMAIN available |-> i], 1,
                                 Min({DropScanLimit, Len(available)})),
                          LAMBDA i : DOMAIN available[i].vor # {})
        value(i) == available[scan[i]].vor[available[scan[i]].best]
    IN  {scan[i] : i \in {j \in 1..(Len(scan) - 1) :
                             value(j) - value(j + 1) >= MeaningfulDrop}}
ValueDropAfter(available) ==
    IF ValueDrops(available) = {} THEN 0 ELSE Min(ValueDrops(available))

-------------------------------------------------------------------------------
\* The available ranks of the players of a position, best at the position first.
AtPosition(available, q) ==
    LET ranks == {i \in DOMAIN available : q \in DOMAIN available[i].vor}
    IN  SortedBy(ranks, [i \in ranks |-> <<available[i].positionRank[q], i>>])

\* The first of them beyond the picks made before the user's next one: the
\* player the user can count on, 0 when there is none.
\* (The mutant lets the last of those picks leave its player behind.)
Cutoff_Inclusive(available, q, until) ==
    LET ranks == AtPosition(available, q)
        left == {j \in DOMAIN ranks : ranks[j] >= Max({until, 0})}
    IN  IF left = {} THEN 0 ELSE ranks[Min(left)]

Cutoff(available, q, until) ==
    LET ranks == AtPosition(available, q)
        left == {j \in DOMAIN ranks : ranks[j] > Max({until, 0})}
    IN  IF left = {} THEN 0 ELSE ranks[Min(left)]

\* _severity
Severity(cutoff, drop, options) ==
    CASE cutoff = 0 \/ drop >= HighDrop \/ options <= LowDepth -> "HIGH"
      [] OTHER -> IF drop >= MediumDrop THEN "MEDIUM" ELSE "LOW"

SeverityRank == [HIGH |-> 0, MEDIUM |-> 1, LOW |-> 2]

\* _position_scarcity; top and cutoff are available ranks.
Scarcity(available, until) ==
    [q \in BasePositions |->
        LET ranks == AtPosition(available, q)
            vor(i) == available[i].vor[q]
            top == IF ranks = <<>> THEN 0 ELSE ranks[1]
            cutoff == Cutoff(available, q, until)
            drop == IF cutoff = 0 THEN 0 ELSE vor(top) - vor(cutoff)
            options == Cardinality({i \in DOMAIN ranks : vor(ranks[i]) > 0})
        IN  [top |-> top, cutoff |-> cutoff, drop |-> drop, options |-> options,
             before |-> Cardinality({i \in DOMAIN ranks : ranks[i] <= until}),
             severity |-> Severity(cutoff, drop, options),
             reasons |-> LET said == {r \in {"POSITION_VALUE_DROP", "LIMITED_POSITION_DEPTH"} :
                                        IF r = "POSITION_VALUE_DROP" THEN drop >= MediumDrop
                                                                     ELSE options <= LowDepth}
                         IN  IF said = {} THEN {"POSITION_DEPTH_AVAILABLE"} ELSE said]]

\* _scarcity_sort_key: the order in which positional_scarcity lists positions.
ScarcityOrder(scarcity) ==
    SortedBy(BasePositions, [q \in BasePositions |->
        <<SeverityRank[scarcity[q].severity],
          IF scarcity[q].drop = 0 THEN 999999 ELSE -scarcity[q].drop,
          Place(BasePositionOrder, q)>>])
===============================================================================
