------------------------------ MODULE RosterSlots ------------------------------
(***************************************************************************)
(* Positions, roster slots and what fits where, and the order of Python's  *)
(* sorted() with a tuple as key, on which every ranking of the valuations  *)
(* and of the draft assistant rests.                                       *)
(* Code: backend/app/drafts/compatibility.py.                              *)
(*                                                                         *)
(* A league's roster slots are a sequence of [key, count] in the order of  *)
(* sort_order.  The league schema admits the keys of SlotPositions and IR, *)
(* each at most once, so the branches for unsupported keys are dead.       *)
(***************************************************************************)
EXTENDS Integers, FiniteSetsExt, SequencesExt

BasePositionOrder == <<"PG", "SG", "SF", "PF", "C">>
BasePositions == {"PG", "SG", "SF", "PF", "C"}
SlotOrder == <<"PG", "SG", "SF", "PF", "C", "G", "F", "UTIL">>
ActiveSlotKeys == {"PG", "SG", "SF", "PF", "C", "G", "F", "UTIL"}
RestrictiveSlotKeys == {"PG", "SG", "SF", "PF", "C"}

\* SLOT_TO_POSITIONS
SlotPositions ==
    [PG |-> {"PG"}, SG |-> {"SG"}, SF |-> {"SF"}, PF |-> {"PF"}, C |-> {"C"},
     G |-> {"PG", "SG"}, F |-> {"SF", "PF"},
     UTIL |-> BasePositions, BE |-> BasePositions]

Place(seq, x) == CHOOSE i \in DOMAIN seq : seq[i] = x
Flag(b) == IF b THEN 1 ELSE 0
\* "vor or Decimal(-999999999)", which takes a VOR of 0 for a missing one.
OrLowest(vor) == IF vor = 0 THEN -999999999 ELSE vor

Fits(positions, key) == positions \cap SlotPositions[key] # {}

\* compatible_roster_slots: the configured slots a player may fill.
CompatibleRosterSlots(positions, keys) ==
    SelectSeq(keys, LAMBDA k : k \in DOMAIN SlotPositions /\ Fits(positions, k))

\* The slots that take a drafted player: every one but IR.
DraftSlots(slots) == SelectSeq(slots, LAMBDA s : s.key # "IR" /\ s.count > 0)

\* calculate_draft_rounds, which raises where this is 0.
DraftRounds(slots) ==
    SumFunction([i \in {j \in DOMAIN slots : slots[j].key # "IR"} |-> slots[i].count])

SlotCount(slots, key) ==
    SumFunction([i \in {j \in DOMAIN slots : slots[j].key = key} |-> slots[i].count])

-------------------------------------------------------------------------------
\* a sorts before b: tuples of numbers compared lexicographically.
Precedes(a, b) ==
    \E i \in DOMAIN a \cap DOMAIN b : a[i] < b[i] /\ \A j \in 1..(i - 1) : a[j] = b[j]

\* sorted(S, key = ...): the elements of S in the order of their keys, which the
\* callers end in a unique identifier.
SortedBy(S, key) ==
    LET place == [x \in S |-> 1 + Cardinality({y \in S : Precedes(key[y], key[x])})]
    IN  [i \in 1..Cardinality(S) |-> CHOOSE x \in S : place[x] = i]
===============================================================================
