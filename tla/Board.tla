------------------------------- MODULE Board --------------------------------
(***************************************************************************)
(* The grid of one game and the two functions of ttts.c that work on it:  *)
(* make_move, which claims a cell, and get_game_status, which decides      *)
(* whether the game goes on.  The C code keeps the grid in a string of     *)
(* nine characters; here it is a function from Cell to marks, with the     *)
(* same row-major numbering.                                               *)
(***************************************************************************)
EXTENDS Naturals

Cell   == 0..8
Mark   == {"X", "O"}
Empty  == "."
Boards == [Cell -> Mark \cup {Empty}]

EmptyBoard == [c \in Cell |-> Empty]

\* make_move refuses a cell that is not empty ...
CanClaim(board, cell) == board[cell] = Empty

\* ... and otherwise writes the role into it.
Claim(board, role, cell) == [board EXCEPT ![cell] = role]

\* The lines in the order get_game_status compares them: three rows, three
\* columns, the two diagonals.
LineOrder ==
  << {0, 1, 2}, {3, 4, 5}, {6, 7, 8},
     {0, 3, 6}, {1, 4, 7}, {2, 5, 8},
     {0, 4, 8}, {2, 4, 6} >>

\* A line is complete when its cells hold one and the same mark.
Completed(board, k) ==
  \E m \in Mark : \A c \in LineOrder[k] : board[c] = m

Won(board)  == \E k \in 1..8 : Completed(board, k)
Full(board) == \A c \in Cell : board[c] # Empty

\* The status character get_game_status writes: won, drawn, or not over.
\* Lines are looked at before the full grid, so a last move that both fills
\* the grid and completes a line wins.
Status(board) ==
  IF Won(board) THEN "W" ELSE IF Full(board) THEN "D" ELSE "N"

\* The winner character of a won board: the mark on the first completed line.
Winner(board) ==
  LET first == CHOOSE k \in 1..8 :
                 /\ Completed(board, k)
                 /\ \A j \in 1..(k - 1) : ~Completed(board, j)
  IN  CHOOSE m \in Mark : \A c \in LineOrder[first] : board[c] = m
=============================================================================
