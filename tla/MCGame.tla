------------------------------- MODULE MCGame -------------------------------
(* Instances of Game for TLC. *)
EXTENDS Game

\* A row and a column that cross, enough for a win by either player, a move on
\* an occupied cell, and grids with no move left among the cells attempted.
FiveCells == {0, 1, 2, 3, 6}
=============================================================================
