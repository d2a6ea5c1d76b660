------------------------------- MODULE Trick -------------------------------
(***************************************************************************)
(* What a round of Tien Len promises its players (README.md, Special       *)
(* Rules), with no counter of passes: the turn goes around the four seats; *)
(* whoever laid the cards on the table leads; and when the turn comes back *)
(* to the leader the table is cleared and the leader opens the next round. *)
(* The table is never cleared otherwise while a game runs.                 *)
(***************************************************************************)
EXTENDS Naturals

None == 4       \* no cards on the table, nobody leads

VARIABLES
  playing,      \* a game is in progress
  turn,         \* the seat to act
  leader        \* the seat whose cards are on the table, or None

vars == <<playing, turn, leader>>

Next4(i) == (i + 1) % 4

Init == playing = FALSE /\ turn = 0 /\ leader = None

\* A game begins, with any seat.
Deal ==
  /\ ~playing /\ playing' = TRUE
  /\ turn' \in 0..3
  /\ leader' = None

\* The seat to act lays cards ...
Play ==
  /\ playing /\ playing' = TRUE
  /\ leader' = turn
  /\ turn' = Next4(turn)

\* ... its last cards, perhaps ...
Win ==
  /\ playing /\ playing' = FALSE
  /\ leader' = turn
  /\ UNCHANGED turn

\* ... or lets its turn go.
Skip ==
  /\ playing /\ playing' = TRUE
  /\ turn' = Next4(turn)
  /\ leader' = IF leader = turn' THEN None ELSE leader

\* The game is abandoned, or what is left of it is cleared away.
Stop ==
  /\ playing' = FALSE
  /\ leader' = None
  /\ UNCHANGED turn

Next == Deal \/ Play \/ Win \/ Skip \/ Stop

Spec == Init /\ [][Next]_vars
=============================================================================
