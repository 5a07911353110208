------------------------------ MODULE FairPlay ------------------------------
(***************************************************************************)
(* The game thread with two clients that follow requirements.txt (parts C, *)
(* D, G and I.1): they move on their turn and on a cell they see empty,    *)
(* ask for a draw or resign at any time, ask for one thing at a time, and  *)
(* answer every DRAW S once.  They never hang up, and no write of the      *)
(* thread fails; what they write after its close draws a reset.            *)
(*                                                                         *)
(* Messages cross: what a client knows when it writes may be out of date   *)
(* when the thread reads it.  Module Matches has what is assumed to happen  *)
(* sooner or later.                                                        *)
(***************************************************************************)
EXTENDS Exchange

VARIABLES
  known,     \* the grid each client was shown last
  awaiting,  \* the request each client has no reply to yet
  suggested, \* the clients that have read DRAW S and not answered it
  ended      \* how the game ended for each client

fair == <<known, awaiting, suggested, ended>>

MarksOn(grid, m) == Cardinality({c \in Cell : grid[c] = m})

\* X moves first; each MOVD says who moved.
ItsTurn(i, grid) ==
  MarksOn(grid, "X") = MarksOn(grid, "O") + (IF i = 0 THEN 0 ELSE 1)

FairInit ==
  /\ ExchangeInit
  /\ known = [i \in Player |-> EmptyBoard]
  /\ awaiting = [i \in Player |-> "nothing"]
  /\ suggested = {}
  /\ ended = [i \in Player |-> "no"]

-----------------------------------------------------------------------------
(* What a client writes, not knowing whether the server has closed.         *)

WriteAnyway(i, m) == Write(i, m) \/ WriteLate(i)

Ask(i, m, request) ==
  /\ ended[i] = "no" /\ awaiting[i] = "nothing"
  /\ WriteAnyway(i, m)
  /\ awaiting' = [awaiting EXCEPT ![i] = request]
  /\ UNCHANGED <<known, ended>>

AskMove(i, c) ==
  /\ i \notin suggested
  /\ ItsTurn(i, known[i]) /\ CanClaim(known[i], c)
  /\ Ask(i, MOVE(role[i], c), "MOVE")
  /\ UNCHANGED suggested

AskDraw(i) ==
  /\ i \notin suggested
  /\ Ask(i, DRAW("S"), "DRAW S")
  /\ UNCHANGED suggested

\* Resigning takes the place of an answer.
AskResign(i) == Ask(i, RSGN, "RSGN") /\ suggested' = suggested \ {i}

Answer(i, action) ==
  /\ ended[i] = "no" /\ i \in suggested
  /\ WriteAnyway(i, DRAW(action))
  /\ suggested' = suggested \ {i}
  /\ UNCHANGED <<known, awaiting, ended>>

-----------------------------------------------------------------------------
(* What a client reads, and which request it takes it as the reply to.      *)

Replies(i, m) ==
  CASE m.kind = "MOVD"   -> awaiting[i] = "MOVE"
    [] m.kind = "INVL"   -> awaiting[i] \in {"MOVE", "DRAW S"}
    [] m.kind = "DRAW_R" -> awaiting[i] = "DRAW S"
    [] OTHER             -> Verdict(m.kind) # "none"

Read(i) ==
  /\ ended[i] = "no" /\ mail[i] # <<>>
  /\ LET m == Head(mail[i])
     IN  /\ known' = IF m.kind = "MOVD" THEN [known EXCEPT ![i] = m.board] ELSE known
         /\ awaiting' = IF Replies(i, m) THEN [awaiting EXCEPT ![i] = "nothing"]
                        ELSE awaiting
         /\ suggested' = IF m.kind = "DRAW_S" THEN suggested \cup {i} ELSE suggested
         /\ ended' = IF Verdict(m.kind) = "none" THEN ended
                     ELSE [ended EXCEPT ![i] = "OVER"]
  /\ Hear(i)
  /\ UNCHANGED <<vars, sent, error, late>>

SeeDrop(i) ==
  /\ ended[i] = "no" /\ mail[i] = <<>> /\ i \notin open
  /\ ended' = [ended EXCEPT ![i] = "drop"]
  /\ awaiting' = [awaiting EXCEPT ![i] = "nothing"]
  /\ UNCHANGED <<vars, contents, known, suggested>>

-----------------------------------------------------------------------------
Requests(i) == (\E c \in Attempts : AskMove(i, c)) \/ AskDraw(i) \/ AskResign(i)
Answers(i)  == Answer(i, "A") \/ Answer(i, "R")
Reads(i)    == Read(i) \/ SeeDrop(i)

FairNext ==
  \/ \E i \in Player : Requests(i)
  \/ \E i \in Player : Answers(i)
  \/ \E i \in Player : Reads(i)
  \/ (ServerStep \/ \E i \in Player : LateReset(i)) /\ UNCHANGED fair

-----------------------------------------------------------------------------
\* A client that keeps the rules is told INVL in one case only: its MOVE or
\* DRAW S crossed the opponent's DRAW S, which it then has not answered yet.
\* The turn, the grid and the suggestion it went by were those of the thread.
RefusedOnlyWhenCrossed ==
  (AreFair /\ pc = "send" /\ Head(outq).kind = "INVL")
    => LET i == Head(outq).to
       IN  /\ offered[i]
           /\ awaiting[i] \in {"MOVE", "DRAW S"}

\* Every message a client finds is one that can come: a MOVD of its own after
\* it asked to move, INVL and DRAW R only as replies, a second DRAW S only
\* after it answered the first.  So a client may tell replies from news by the
\* kind of the message alone.  A connection that ends without OVER means that
\* OVER was written and lost in a reset, and only because something the client
\* wrote crossed it: it was unread in the socket that free_game closed, or it
\* was written after that.
Mine(i, grid) == ItsTurn(Other(i), grid)
Expectable(i, m) ==
  /\ m.kind = "MOVD" /\ Mine(i, m.board) => awaiting[i] = "MOVE"
  /\ m.kind \in {"INVL", "DRAW_R"} => Replies(i, m)
  /\ m.kind = "DRAW_S" => i \notin suggested
Crossed(i) == i \notin open /\ (inbox[i] > 0 \/ i \in late)
NothingUnexpected ==
  \A i \in Player : AreFair =>
    /\ ended[i] = "no" /\ mail[i] # <<>> => Expectable(i, Head(mail[i]))
    /\ ended[i] = "drop" => told[i] # "none" /\ Crossed(i)

\* Every request gets its reply, or the game is over for the client: no
\* request waits for a message that will not come, also when both clients
\* ask for a draw at once or a MOVE crosses a suggestion.
RequestsAnswered ==
  \A i \in Player : awaiting[i] # "nothing" ~> awaiting[i] = "nothing"
=============================================================================
