----------------------------- MODULE TicTacToe ------------------------------
(***************************************************************************)
(* What a game promises its two players, with no thread, socket or buffer: *)
(* the grid, whose turn it is, the draw that is on offer and the result.   *)
(* Module Game, the thread handle_game of ttts.c, is shown to implement    *)
(* it.  Every action is the effect of one branch of handle_game; a line is *)
(* defined by geometry here and by the code's list of cells in Board.      *)
(***************************************************************************)
EXTENDS Naturals

VARIABLES
  board,    \* the grid: the mark in each of the cells 0..8, or "."
  turn,     \* the player to move: 0 plays X, 1 plays O
  offer,    \* the players whose draw suggestion is unanswered
  result    \* "none", the mark that won, "full" or "agreed"

vars == <<board, turn, offer, result>>

Player  == {0, 1}
Cells   == 0..8
MarkOf(p) == IF p = 0 THEN "X" ELSE "O"
Other(p)  == 1 - p

\* The cell in row r and column k of the three by three grid.
At(r, k) == 3 * r + k

\* Player p has three marks in a row, a column or a diagonal of grid g.
HasLine(g, p) ==
  \/ \E r \in 0..2 : \A k \in 0..2 : g[At(r, k)] = MarkOf(p)
  \/ \E k \in 0..2 : \A r \in 0..2 : g[At(r, k)] = MarkOf(p)
  \/ \A d \in 0..2 : g[At(d, d)] = MarkOf(p)
  \/ \A d \in 0..2 : g[At(d, 2 - d)] = MarkOf(p)

Init ==
  /\ board = [c \in Cells |-> "."]
  /\ turn = 0
  /\ offer = {}
  /\ result = "none"

\* A player claims an empty cell on its turn, while no draw is on offer.  The
\* turn passes to the opponent even when the game is thereby decided.
Move(p, c) ==
  /\ result = "none"
  /\ offer = {}
  /\ turn = p
  /\ board[c] = "."
  /\ board' = [board EXCEPT ![c] = MarkOf(p)]
  /\ turn' = Other(p)
  /\ result' = IF HasLine(board', p) THEN MarkOf(p)
               ELSE IF \A d \in Cells : board'[d] # "." THEN "full"
               ELSE "none"
  /\ UNCHANGED offer

\* Either player suggests a draw, on its turn or not.
Suggest(p) ==
  /\ result = "none"
  /\ offer = {}
  /\ offer' = {p}
  /\ UNCHANGED <<board, turn, result>>

\* Only the opponent of the player who suggested answers.
Reject(p) ==
  /\ result = "none"
  /\ offer = {Other(p)}
  /\ offer' = {}
  /\ UNCHANGED <<board, turn, result>>

Accept(p) ==
  /\ result = "none"
  /\ offer = {Other(p)}
  /\ result' = "agreed"
  /\ offer' = {}
  /\ UNCHANGED <<board, turn>>

\* A player may resign at any time; the opponent wins.
Resign(p) ==
  /\ result = "none"
  /\ result' = MarkOf(Other(p))
  /\ offer' = {}
  /\ UNCHANGED <<board, turn>>

Next ==
  \E p \in Player :
    \/ \E c \in Cells : Move(p, c)
    \/ Suggest(p)
    \/ Reject(p)
    \/ Accept(p)
    \/ Resign(p)

Spec == Init /\ [][Next]_vars
=============================================================================
