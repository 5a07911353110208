------------------------------ MODULE Exchange ------------------------------
(***************************************************************************)
(* A game thread and two clients whose messages have contents.  Module     *)
(* Game lets a client have written anything when the thread parses it;     *)
(* here the thread finds what the client wrote, in order, and the client   *)
(* finds what the thread wrote.  What the clients write is left to the     *)
(* modules that extend this one: TestScripts has the clients of test.c,    *)
(* FairPlay has clients that follow requirements.txt.                      *)
(*                                                                         *)
(* A message is written with one write and arrives in one piece, so        *)
(* get_message fails on what is malformed and on a lost connection only;   *)
(* module MessageStream has the streams that are cut.                      *)
(***************************************************************************)
EXTENDS Game, SequencesExt

VARIABLES
  sent,    \* what each client wrote and the thread has not handled
  mail,    \* what the thread wrote to each client and it has not read
  error,   \* which explanation the INVL being written has
  late,    \* the clients that wrote after the thread had closed
  game     \* who plays: clients 2 game - 1 and 2 game of test.c, or 0 for two
           \* clients that follow the requirements

contents == <<sent, mail, error, late>>

AreFair     == game = 0
AreScripted == game # 0

\* What clients write.  UNPARSED is whole but not for a game thread: a PLAY, a
\* message of the server, a MOVE with a field out of range.
RSGN       == [code |-> "RSGN"]
MOVE(r, c) == [code |-> "MOVE", role |-> r, cell |-> c]
DRAW(a)    == [code |-> "DRAW", action |-> a]
UNPARSED == [code |-> "UNPARSED"]
MALFORMED  == [code |-> "MALFORMED"]
Message == {RSGN, UNPARSED, MALFORMED} \cup {MOVE(r, c) : r \in Mark, c \in Cell}
           \cup {DRAW(a) : a \in DrawActions}

\* What the server writes; only MOVD and INVL have contents that matter.
Item(kind, grid, text) == [kind |-> kind, board |-> grid, error |-> text]
MOVD(grid) == Item("MOVD", grid, "none")
INVL(text) == Item("INVL", EmptyBoard, text)
Plain(kind) == Item(kind, EmptyBoard, "none")
Written(kind) == CASE kind = "MOVD" -> MOVD(board)
                   [] kind = "INVL" -> INVL(error)
                   [] OTHER         -> Plain(kind)

\* Two players who just connected, nothing written ahead of BEGN.
ExchangeInit ==
  /\ Init
  /\ msg_buffer = [i \in Player |-> 0]
  /\ inbox = [i \in Player |-> 0]
  /\ peer = [i \in Player |-> "up"]
  /\ sent = [i \in Player |-> <<>>]
  /\ mail = [i \in Player |-> <<>>]
  /\ error = "none"
  /\ late = {}

-----------------------------------------------------------------------------
(* What a client does.                                                      *)

Write(i, m) ==
  /\ ClientSend(i)
  /\ sent' = [sent EXCEPT ![i] = Append(@, m)]
  /\ UNCHANGED <<mail, error, late>>

\* The socket is gone: the host of the server answers the write with a reset.
WriteLate(i) ==
  /\ i \notin open
  /\ late' = late \cup {i}
  /\ UNCHANGED <<vars, sent, mail, error>>

\* The reset arrives, and what the client has not read may be lost with it.
LateReset(i) ==
  /\ i \in late
  /\ mail' = [mail EXCEPT ![i] = <<>>]
  /\ UNCHANGED <<vars, sent, error, late>>

Hear(i) == mail' = [mail EXCEPT ![i] = Tail(@)]

\* After a close or a reset nothing reaches the client any more; a reset may
\* also keep from the thread what is still in the socket.
HangUp(i) ==
  /\ ClientClose(i)
  /\ mail' = [mail EXCEPT ![i] = <<>>]
  /\ UNCHANGED <<sent, error, late>>

Reset(i) ==
  /\ ConnectionReset(i)
  /\ sent' = [sent EXCEPT ![i] = SubSeq(@, 1, msg_buffer[i] + inbox'[i])]
  /\ mail' = [mail EXCEPT ![i] = <<>>]
  /\ UNCHANGED <<error, late>>

-----------------------------------------------------------------------------
(* The thread, on what was written.                                         *)

Handled(m) ==
  \/ m.code = "RSGN" /\ Resign
  \/ m = DRAW("R") /\ DrawReject
  \/ m = DRAW("A") /\ DrawAccept
  \/ m = DRAW("S") /\ DrawSuggest
  \/ m.code = "DRAW" /\ DrawRefused(m.action)
  \/ m.code = "MOVE" /\ (MoveRefused(m.role) \/ Move(m.role, m.cell))
  \/ m.code = "UNPARSED" /\ Unexpected

HandleMessage ==
  /\ pc = "recv" /\ sent[index] # <<>>
  /\ LET m == Head(sent[index])
     IN  \/ Handled(m) /\ error' = "!protocol"
         \/ /\ m.code = "MOVE" /\ MoveOccupied(m.role, m.cell)
            /\ error' = "occupied"
  /\ sent' = [sent EXCEPT ![index] = Tail(@)]
  /\ UNCHANGED <<mail, late>>

LoseMessages ==
  /\ pc = "recv"
  /\ sent[index] # <<>> => peer[index] = "reset" \/ Head(sent[index]) = MALFORMED
  /\ GetMessageFails
  /\ sent' = [sent EXCEPT ![index] = <<>>]
  /\ error' = "!protocol"
  /\ UNCHANGED <<mail, late>>

WriteNext ==
  /\ pc = "send" /\ Send
  /\ LET m == Head(outq)
     IN  mail' = IF peer[m.to] = "up"
                 THEN [mail EXCEPT ![m.to] = Append(@, Written(m.kind))]
                 ELSE mail
  /\ UNCHANGED <<sent, error, late>>

\* A close with unread input resets the connection: the client may then not
\* get what it has not read.
CloseNext ==
  /\ CloseSocket
  /\ LET i == CHOOSE j \in open : j \notin open'
     IN  mail' \in IF inbox[i] > 0 THEN {mail, [mail EXCEPT ![i] = <<>>]}
                                   ELSE {mail}
  /\ UNCHANGED <<sent, error, late>>

ServerStep ==
  \/ (Choose \/ SendFails) /\ UNCHANGED contents
  \/ HandleMessage
  \/ LoseMessages
  \/ WriteNext
  \/ CloseNext
=============================================================================
