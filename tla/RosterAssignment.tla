--------------------------- MODULE RosterAssignment ---------------------------
(***************************************************************************)
(* Seating a fantasy team's players in the slots of a roster: a dynamic    *)
(* programme over the active slots, then the bench in draft order.         *)
(* Code: backend/app/draft_assistant/roster_assignment.py.                 *)
(*                                                                         *)
(* A player is [id, name, positions, pts, pick]; a slot instance is        *)
(* [slot, index].  players is a set: the code's list order only numbers    *)
(* the bits of its masks.                                                  *)
(***************************************************************************)
EXTENDS RosterSlots, Functions

\* _slot_key, and configured_slot_instances, in its order.
SlotKey(instance) == <<Place(SlotOrder, instance.slot), instance.index>>
ActiveSlots(slots) ==
    LET instances == UNION {{[slot |-> k, index |-> i] : i \in 1..SlotCount(slots, k)} :
                                k \in ActiveSlotKeys}
    IN  SortedBy(instances, [a \in instances |-> SlotKey(a)])

\* A list comprehension with a condition: the elements of seq at these places.
Only(seq, places) ==
    LET order == SortedBy(places, [i \in places |-> <<i>>])
    IN  [j \in 1..Cardinality(places) |-> seq[order[j]]]

CanPlay(player, instance) == Fits(player.positions, instance.slot)

\* _flexibility and _preservation_score: flexible players are kept out of the
\* slots of one position and offered to the others.
Flexibility(player, active) ==
    Cardinality({active[i].slot : i \in {j \in DOMAIN active : CanPlay(player, active[j])}})
Preservation(player, instance, active) ==
    IF instance.slot \in RestrictiveSlotKeys
    THEN 100 - Flexibility(player, active) ELSE Flexibility(player, active)

\* A state of the programme is a set of seats [player, at], at being a place in
\* active.  _state_key, as one tuple to be maximised: seats filled, their
\* points, their preservation, then slot by slot.
Details(ordered, active) ==
    FlattenSeq([i \in DOMAIN ordered |->
        LET s == ordered[i]
        IN  <<-Place(SlotOrder, active[s.at].slot), -active[s.at].index,
              s.player.pts, -s.player.name, -s.player.id>>])
SeatsKey(seats, active) ==
    <<Cardinality(seats),
      SumFunction([s \in seats |-> s.player.pts]),
      SumFunction([s \in seats |-> Preservation(s.player, active[s.at], active)])>>
    \o Details(SortedBy(seats, [s \in seats |-> <<s.at>>]), active)

GreatestBy(key) == CHOOSE o \in DOMAIN key : \A x \in DOMAIN key : ~Precedes(key[o], key[x])
Greatest(options, active) == GreatestBy([o \in options |-> SeatsKey(o, active)])

\* One more player in slot i, on top of every state: pairs of the new mask and
\* the new state.
SeatOne(states, i, players, active) ==
    {<<m[1] \cup {m[2]}, states[m[1]] \cup {[player |-> m[2], at |-> i]}>> :
        m \in {x \in (DOMAIN states) \X players :
                  x[2] \notin x[1] /\ CanPlay(x[2], active[i])}}

\* Mutant of Extend: a seat taken earlier is never reconsidered for the same
\* set of players.
Extend_FirstStays(states, i, players, active) ==
    LET with == SeatOne(states, i, players, active)
    IN  [mask \in DOMAIN states \cup {w[1] : w \in with} |->
            IF mask \in DOMAIN states THEN states[mask]
            ELSE Greatest({w[2] : w \in {x \in with : x[1] = mask}}, active)]

\* One slot of _assign_active_slots: leave it empty, or seat one more player in
\* it; of the states with the same players (the mask) the greatest is kept.
Extend(states, i, players, active) ==
    LET with == SeatOne(states, i, players, active)
        old(mask) == IF mask \in DOMAIN states THEN {states[mask]} ELSE {}
    IN  [mask \in DOMAIN states \cup {w[1] : w \in with} |->
            Greatest(old(mask) \cup {w[2] : w \in {x \in with : x[1] = mask}}, active)]

AssignActiveSlots(players, active) ==
    LET states[i \in 0..Len(active)] ==
            IF i = 0 THEN [mask \in {{}} |-> {}] ELSE Extend(states[i - 1], i, players, active)
    IN  Greatest(Range(states[Len(active)]), active)

-------------------------------------------------------------------------------
\* assign_roster: starters, then the bench in the order of the picks as far as
\* it reaches; players without eligibility and those beyond it stay out.
Assignable(players) == {p \in players : p.positions # {}}

RosterWith(players, slots, active, seats) ==
    LET assignable == Assignable(players)
        remaining == SortedBy(assignable \ {s.player : s \in seats},
                              [p \in assignable |-> <<p.pick>>])
        bench == SlotCount(slots, "BE")
    IN  [active |-> active,
         starters |-> seats,
         bench |-> SubSeq(remaining, 1, Min({bench, Len(remaining)})),
         benchTotal |-> bench,
         capacity |-> DraftRounds(slots),
         unfilled |-> Only(active, {i \in DOMAIN active : \A s \in seats : s.at # i}),
         ineligible |-> players \ assignable,
         exceeding |-> {remaining[i] : i \in (bench + 1)..Len(remaining)}]

LineUp(players, slots, active) ==
    RosterWith(players, slots, active, AssignActiveSlots(Assignable(players), active))
AssignRoster(players, slots) == LineUp(players, slots, ActiveSlots(slots))

\* matching_open_slots
MatchingOpenSlots(positions, open) ==
    Only(open, {i \in DOMAIN open : Fits(positions, open[i].slot)})

\* _active_points of the recommendations.
ActivePoints(roster) == SumFunction([s \in roster.starters |-> s.player.pts])
===============================================================================
