------------------------------ MODULE DraftBoard ------------------------------
(***************************************************************************)
(* What the draft API promises, without transactions: a set of snake       *)
(* drafts of which at most one is open, each changed by one operation at a *)
(* time.  A draft is its terms, whether it has started, and the log of the *)
(* players taken.  Everything else follows: the draft is complete when the *)
(* log is full, and the owner of entry k is the seat k of the path that    *)
(* runs 1, 2, ..., n, n, ..., 2, 1, 1, 2, ...                              *)
(***************************************************************************)
EXTENDS Integers, Sequences

CONSTANTS Ids,      \* names of drafts
          Terms,    \* the sets of terms a draft may be created with:
                    \*   records with teams, rounds and pool (players)
          Seats     \* draft positions the user may occupy

VARIABLE board      \* board[d]: terms, started, user, log, for the drafts that exist

Full(x) == Len(x.log) = x.terms.teams * x.terms.rounds
Open(x) == ~(x.started /\ Full(x))

Seat(k, n) == LET m == (k - 1) % (2 * n) IN IF m < n THEN m + 1 ELSE 2 * n - m

OthersClosed(d) == \A e \in DOMAIN board : Open(board[e]) => e = d

Drafted(x) == {x.log[k].player : k \in 1..Len(x.log)}

-------------------------------------------------------------------------------
Init == board = <<>>

CreateDraft(d) ==
    /\ d \notin DOMAIN board
    /\ OthersClosed(d)
    /\ \E t \in Terms, u \in Seats :
          /\ u <= t.teams
          /\ board' = [e \in DOMAIN board \cup {d} |->
                IF e = d THEN [terms |-> t, started |-> FALSE, user |-> u, log |-> <<>>]
                         ELSE board[e]]

ChangeUser(d) ==
    /\ ~board[d].started
    /\ \E u \in Seats : /\ u <= board[d].terms.teams
                        /\ board' = [board EXCEPT ![d].user = u]

Start(d) == /\ ~board[d].started
            /\ board' = [board EXCEPT ![d].started = TRUE]

TakePlayer(d) ==
    /\ board[d].started
    /\ ~Full(board[d])
    /\ \E p \in board[d].terms.pool \ Drafted(board[d]) :
          board' = [board EXCEPT ![d].log =
                Append(@, [player |-> p,
                           seat |-> Seat(Len(@) + 1, board[d].terms.teams)])]

TakeBack(d) ==
    /\ board[d].log # <<>>
    /\ OthersClosed(d)
    /\ board' = [board EXCEPT ![d].log = SubSeq(@, 1, Len(@) - 1)]

StartOver(d) ==
    /\ OthersClosed(d)
    /\ board' = [board EXCEPT ![d].log = <<>>, ![d].started = FALSE]

Discard(d) ==
    /\ Open(board[d])
    /\ board' = [e \in DOMAIN board \ {d} |-> board[e]]

Next == \/ \E d \in Ids : CreateDraft(d)
        \/ \E d \in DOMAIN board :
              \/ ChangeUser(d) \/ Start(d) \/ TakePlayer(d)
              \/ TakeBack(d) \/ StartOver(d) \/ Discard(d)

Spec == Init /\ [][Next]_board
===============================================================================
