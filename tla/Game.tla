-------------------------------- MODULE Game --------------------------------
(***************************************************************************)
(* The thread handle_game of ttts.c, from the moment get_client has        *)
(* returned both sockets to the last close of free_game, together with     *)
(* its two connections and what its clients may do to them.                *)
(*                                                                         *)
(* The thread is sequential; what interleaves with it is each client       *)
(* writing, closing and resetting its connection, between any two system   *)
(* calls of the thread.  So one action is one system call of the thread or *)
(* one handler of a message up to its first write, and every write is a    *)
(* step of its own.  Which message a client wrote is chosen when the       *)
(* thread parses it: until then nothing in the program depends on it.      *)
(*                                                                         *)
(* Definitions that no other definition uses (ChooseByTurn, SendFailsCon-  *)
(* tinues, ...) are faulty variants of the one that follows them.  Put in  *)
(* its place, each makes one of the properties fail.                       *)
(***************************************************************************)
EXTENDS Board, Sequences, FiniteSets

CONSTANTS
  Attempts,    \* the cells that MOVE messages name
  MaxInbox,    \* most messages on one connection that the thread has not read
  MayFail,     \* the clients that may close or reset their connection
  Interrupts   \* whether a signal may be delivered to the thread

ASSUME GameAssumption ==
  /\ Attempts \subseteq Cell
  /\ MaxInbox \in Nat
  /\ MayFail \subseteq {0, 1}
  /\ Interrupts \in BOOLEAN

VARIABLES
  board,                \* char board[10]
  turn,                 \* whose turn it is: 0 for client1, 1 for client2
  is_draw_suggested,    \* 0 or 1
  draw_response_index,  \* the client that has to answer the suggestion
  index,                \* the client whose message is being processed
  msg_buffer,           \* messages of each client read but not yet processed
  pc,                   \* where the thread is
  outq,                 \* the writes the current handler still has to do
  after,                \* what the handler does once they are done
  inbox,                \* messages of each client still in the socket
  peer,                 \* each connection as TCP sees it
  open,                 \* the sockets free_game has not closed
  result,               \* history: how the game was decided
  told,                 \* history: the OVER each client received
  view,                 \* history: the grid each client saw last
  offered               \* history: clients with an unanswered DRAW S

thread  == <<board, turn, is_draw_suggested, draw_response_index, index>>
control == <<pc, outq, after>>
conns   == <<inbox, peer, open>>
history == <<told, view, offered>>
vars    == <<thread, msg_buffer, control, conns, result, history>>

Player  == {0, 1}
Other(i) == 1 - i
role    == [i \in Player |-> IF i = 0 THEN "X" ELSE "O"]

Kinds    == {"BEGN", "MOVD", "INVL", "DRAW_S", "DRAW_R",
             "OVER_W", "OVER_L", "OVER_D"}
Verdict(kind) == CASE kind = "OVER_W" -> "W"
                   [] kind = "OVER_L" -> "L"
                   [] kind = "OVER_D" -> "D"
                   [] OTHER -> "none"
To(i, kind) == [to |-> i, kind |-> kind]

TypeOK ==
  /\ board \in Boards
  /\ turn \in Player
  /\ is_draw_suggested \in {0, 1}
  /\ draw_response_index \in Player
  /\ index \in Player
  /\ msg_buffer \in [Player -> Nat]
  /\ pc \in {"poll", "recv", "send", "free", "done"}
  /\ outq \in Seq([to : Player, kind : Kinds])
  /\ after \in {"loop", "break", "turn", "suggest", "reject"}
  /\ inbox \in [Player -> 0..MaxInbox]
  /\ peer \in [Player -> {"up", "closed", "reset"}]
  /\ open \subseteq Player
  /\ result \in {"none", "X", "O", "full", "agreed"}
  /\ told \in [Player -> {"none", "W", "L", "D"}]
  /\ view \in [Player -> Boards]
  /\ offered \in [Player -> BOOLEAN]

-----------------------------------------------------------------------------
(* The setup of the thread.  The second player has just been told WAIT, the *)
(* first may have waited for hours: either connection may have data on it  *)
(* or be gone, and get_client may have read ahead into the buffers.         *)

Init ==
  /\ board = EmptyBoard
  /\ turn = 0
  /\ is_draw_suggested = 0
  /\ draw_response_index = 0
  /\ index = 0
  /\ msg_buffer \in [Player -> 0..MaxInbox]
  /\ pc = "send"
  /\ outq = <<To(0, "BEGN"), To(1, "BEGN")>>
  /\ after = "loop"
  /\ inbox \in [Player -> 0..MaxInbox]
  /\ peer \in [Player -> {"up", "closed", "reset"}]
  /\ \A i \in Player \ MayFail : peer[i] = "up"
  /\ open = Player
  /\ result = "none"
  /\ told = [i \in Player |-> "none"]
  /\ view = [i \in Player |-> EmptyBoard]
  /\ offered = [i \in Player |-> FALSE]

-----------------------------------------------------------------------------
(* The clients and the network.                                             *)

ClientSend(i) ==
  /\ i \in open /\ peer[i] = "up"
  /\ inbox[i] < MaxInbox
  /\ inbox' = [inbox EXCEPT ![i] = @ + 1]
  /\ UNCHANGED <<thread, msg_buffer, control, peer, open, result, history>>

\* The client closes its end: what it wrote before can still be read.
ClientClose(i) ==
  /\ i \in MayFail /\ i \in open /\ peer[i] = "up"
  /\ peer' = [peer EXCEPT ![i] = "closed"]
  /\ UNCHANGED <<thread, msg_buffer, control, inbox, open, result, history>>

\* A reset: the client's host answers a write to a closed end, or crashed.
ConnectionReset(i) ==
  /\ i \in MayFail /\ i \in open /\ peer[i] # "reset"
  /\ peer' = [peer EXCEPT ![i] = "reset"]
  /\ inbox' \in {inbox, [inbox EXCEPT ![i] = 0]}
  /\ UNCHANGED <<thread, msg_buffer, control, open, result, history>>

-----------------------------------------------------------------------------
(* Top of the loop: which client to listen to.                              *)

Readable(i) == inbox[i] > 0 \/ peer[i] # "up"
Buffered    == \E i \in Player : msg_buffer[i] > 0

ChooseByTurn ==
  /\ pc = "poll"
  /\ msg_buffer[turn] > 0 \/ Readable(turn)
  /\ index' = turn
  /\ pc' = "recv"
  /\ UNCHANGED <<board, turn, is_draw_suggested, draw_response_index>>
  /\ UNCHANGED <<msg_buffer, outq, after, conns, result, history>>

\* A buffered message goes before the sockets, client1 before client2.
Choose ==
  /\ pc = "poll"
  /\ IF Buffered
     THEN index' = IF msg_buffer[0] > 0 THEN 0 ELSE 1
     ELSE /\ \E i \in Player : Readable(i)
          /\ index' = IF Readable(0) THEN 0 ELSE 1
  /\ pc' = "recv"
  /\ UNCHANGED <<board, turn, is_draw_suggested, draw_response_index>>
  /\ UNCHANGED <<msg_buffer, outq, after, conns, result, history>>

\* The signal handlers are installed without SA_RESTART: a signal makes a
\* blocked poll fail, and the loop breaks.
PollInterrupted ==
  /\ Interrupts
  /\ pc = "poll" /\ ~Buffered
  /\ \A i \in Player : ~Readable(i)
  /\ pc' = "free"
  /\ UNCHANGED <<thread, msg_buffer, outq, after, conns, result, history>>

-----------------------------------------------------------------------------
(* get_message on the chosen client.  It takes the next message from the    *)
(* buffer, or, when the buffer holds none or only the start of one, reads   *)
(* everything the socket has.                                               *)

ReceivedUnchecked ==
  /\ pc = "recv"
  /\ msg_buffer' = [msg_buffer EXCEPT ![index] = @ + inbox[index] - 1]
  /\ inbox' = [inbox EXCEPT ![index] = 0]

\* get_message returns a complete message.
Received ==
  /\ pc = "recv"
  /\ \/ /\ msg_buffer[index] > 0
        /\ msg_buffer' = [msg_buffer EXCEPT ![index] = @ - 1]
        /\ inbox' = inbox
     \/ /\ inbox[index] > 0
        /\ msg_buffer' = [msg_buffer EXCEPT ![index] = @ + inbox[index] - 1]
        /\ inbox' = [inbox EXCEPT ![index] = 0]

\* The handler writes `writes`, one at a time, then does `next`.
Reply(writes, next) ==
  /\ pc' = "send"
  /\ outq' = writes
  /\ after' = next

Refuse == Reply(<<To(index, "INVL")>>, "loop")

GetMessageFailsContinues ==
  /\ pc = "recv"
  /\ msg_buffer' = [msg_buffer EXCEPT ![index] = 0]
  /\ inbox' = [inbox EXCEPT ![index] = 0]
  /\ Refuse
  /\ UNCHANGED <<thread, peer, open, result, history>>

\* Malformed or incomplete data, end of file or an error: the client is told
\* and the game ends, both clients with it.
GetMessageFails ==
  /\ pc = "recv"
  /\ msg_buffer' = [msg_buffer EXCEPT ![index] = 0]
  /\ inbox' = [inbox EXCEPT ![index] = 0]
  /\ Reply(<<To(index, "INVL")>>, "break")
  /\ UNCHANGED <<thread, peer, open, result, history>>

-----------------------------------------------------------------------------
(* The handlers, one for each message the thread can have parsed.           *)

\* What parse_draw and parse_move accept: an action, or a role and a cell.
DrawActions == {"S", "A", "R"}
MoveFields  == Mark \X Attempts

\* RSGN: the resigning client hears first.
ResignTellsClient1Lost ==
  /\ Received
  /\ result' = role[Other(index)]
  /\ Reply(<<To(0, "OVER_L"), To(1, "OVER_W")>>, "break")
  /\ UNCHANGED <<thread, peer, open, history>>

Resign ==
  /\ Received
  /\ result' = role[Other(index)]
  /\ Reply(<<To(index, "OVER_L"), To(Other(index), "OVER_W")>>, "break")
  /\ UNCHANGED <<thread, peer, open, history>>

\* DRAW: the message's action is S, A or R.
MustAnswer == is_draw_suggested = 1 /\ index = draw_response_index

DrawRejectTellsSender ==
  /\ Received /\ MustAnswer
  /\ Reply(<<To(index, "DRAW_R")>>, "reject")
  /\ UNCHANGED <<thread, peer, open, result, history>>

DrawReject ==
  /\ Received /\ MustAnswer
  /\ Reply(<<To(Other(index), "DRAW_R")>>, "reject")
  /\ UNCHANGED <<thread, peer, open, result, history>>

DrawAcceptTellsOne ==
  /\ Received /\ MustAnswer
  /\ result' = "agreed"
  /\ Reply(<<To(index, "OVER_D")>>, "break")
  /\ UNCHANGED <<thread, peer, open, history>>

DrawAccept ==
  /\ Received /\ MustAnswer
  /\ result' = "agreed"
  /\ Reply(<<To(0, "OVER_D"), To(1, "OVER_D")>>, "break")
  /\ UNCHANGED <<thread, peer, open, history>>

DrawSuggest ==
  /\ Received /\ is_draw_suggested = 0
  /\ Reply(<<To(Other(index), "DRAW_S")>>, "suggest")
  /\ UNCHANGED <<thread, peer, open, result, history>>

DrawRefused(action) ==
  /\ Received
  /\ IF is_draw_suggested = 1 THEN MustAnswer => action = "S"
                               ELSE action # "S"
  /\ Refuse
  /\ UNCHANGED <<thread, peer, open, result, history>>

\* MOVE: the message names a role and a cell.
MayMoveAnyTime(rol) ==
  /\ is_draw_suggested = 0
  /\ rol = role[index]

MayMove(rol) ==
  /\ is_draw_suggested = 0
  /\ rol = role[index]
  /\ turn = index

MoveRefused(rol) ==
  /\ Received /\ ~MayMove(rol)
  /\ Refuse
  /\ UNCHANGED <<thread, peer, open, result, history>>

MoveOccupied(rol, cell) ==
  /\ Received /\ MayMove(rol)
  /\ ~CanClaim(board, cell)
  /\ Refuse
  /\ UNCHANGED <<thread, peer, open, result, history>>

\* What get_game_status says of the new grid decides who hears what.
Move(rol, cell) ==
  /\ Received /\ MayMove(rol)
  /\ CanClaim(board, cell)
  /\ board' = Claim(board, rol, cell)
  /\ LET winner == IF Winner(board') = role[index] THEN index ELSE Other(index)
     IN  \/ /\ Status(board') = "W"
            /\ result' = Winner(board')
            /\ Reply(<<To(winner, "OVER_W"), To(Other(winner), "OVER_L")>>,
                     "break")
         \/ /\ Status(board') = "D"
            /\ result' = "full"
            /\ Reply(<<To(0, "OVER_D"), To(1, "OVER_D")>>, "break")
         \/ /\ Status(board') = "N"
            /\ result' = result
            /\ Reply(<<To(0, "MOVD"), To(1, "MOVD")>>, "turn")
  /\ UNCHANGED <<turn, is_draw_suggested, draw_response_index, index>>
  /\ UNCHANGED <<peer, open, history>>

\* A complete message that no handler parses: a PLAY, a message only the
\* server sends, a MOVE or a DRAW with a field out of range.
Unexpected ==
  /\ Received
  /\ Refuse
  /\ UNCHANGED <<thread, peer, open, result, history>>

-----------------------------------------------------------------------------
(* send_message, and what follows the last write of a handler.              *)

\* What the client learns from a message, if it is still there to read it.
Deliver(m) ==
  IF peer[m.to] # "up" THEN UNCHANGED history
  ELSE /\ told' = [told EXCEPT ![m.to] = IF Verdict(m.kind) = "none"
                                         THEN @ ELSE Verdict(m.kind)]
       /\ view' = [view EXCEPT ![m.to] = IF m.kind = "MOVD" THEN board ELSE @]
       /\ offered' =
            CASE m.kind = "DRAW_S" -> [offered EXCEPT ![m.to] = TRUE]
              [] m.kind = "DRAW_R" -> [offered EXCEPT ![Other(m.to)] = FALSE]
              [] OTHER -> offered

FinishForgetsReject ==
  /\ pc' = IF after = "break" THEN "free" ELSE "poll"
  /\ turn' = IF after = "turn" THEN Other(turn) ELSE turn
  /\ is_draw_suggested' = IF after = "suggest" THEN 1 ELSE is_draw_suggested
  /\ draw_response_index' = IF after = "suggest" THEN Other(index)
                            ELSE draw_response_index

FinishNeverBreaks ==
  /\ pc' = "poll"
  /\ turn' = IF after = "turn" THEN Other(turn) ELSE turn
  /\ is_draw_suggested' = CASE after = "suggest" -> 1
                            [] after = "reject"  -> 0
                            [] OTHER -> is_draw_suggested
  /\ draw_response_index' = IF after = "suggest" THEN Other(index)
                            ELSE draw_response_index

Finish ==
  /\ pc' = IF after = "break" THEN "free" ELSE "poll"
  /\ turn' = IF after = "turn" THEN Other(turn) ELSE turn
  /\ is_draw_suggested' = CASE after = "suggest" -> 1
                            [] after = "reject"  -> 0
                            [] OTHER -> is_draw_suggested
  /\ draw_response_index' = IF after = "suggest" THEN Other(index)
                            ELSE draw_response_index

Send ==
  /\ pc = "send"
  /\ peer[Head(outq).to] # "reset"
  /\ Deliver(Head(outq))
  /\ outq' = Tail(outq)
  /\ IF outq' = <<>> THEN Finish
     ELSE UNCHANGED <<pc, turn, is_draw_suggested, draw_response_index>>
  /\ UNCHANGED <<board, index, msg_buffer, after, conns, result>>

SendFailsContinues ==
  /\ pc = "send"
  /\ peer[Head(outq).to] = "reset"
  /\ outq' = <<>>
  /\ pc' = "poll"
  /\ UNCHANGED <<thread, msg_buffer, after, conns, result, history>>

\* write fails (EPIPE, ECONNRESET): every handler breaks out of the loop and
\* leaves its remaining writes undone.
SendFails ==
  /\ pc = "send"
  /\ peer[Head(outq).to] = "reset"
  /\ outq' = <<>>
  /\ pc' = "free"
  /\ UNCHANGED <<thread, msg_buffer, after, conns, result, history>>

\* free_game closes client1's socket, then client2's.
CloseSocket ==
  /\ pc = "free"
  /\ open' = IF 0 \in open THEN open \ {0} ELSE open \ {1}
  /\ pc' = IF open' = {} THEN "done" ELSE "free"
  /\ UNCHANGED <<thread, msg_buffer, outq, after, inbox, peer, result, history>>

-----------------------------------------------------------------------------
Handle ==
  \/ Resign
  \/ DrawReject
  \/ DrawAccept
  \/ DrawSuggest
  \/ \E action \in DrawActions : DrawRefused(action)
  \/ \E rol \in Mark : MoveRefused(rol)
  \/ \E m \in MoveFields : MoveOccupied(m[1], m[2]) \/ Move(m[1], m[2])
  \/ Unexpected

\* A step of the thread that it takes by itself.
Thread ==
  \/ Choose
  \/ GetMessageFails
  \/ Handle
  \/ Send
  \/ SendFails
  \/ CloseSocket

Client(i) == ClientSend(i) \/ ClientClose(i) \/ ConnectionReset(i)

\* The thread has exited and its sockets are closed.
Terminated == pc = "done" /\ UNCHANGED vars

Next ==
  \/ Thread
  \/ PollInterrupted
  \/ \E i \in Player : Client(i)
  \/ Terminated

\* The operating system runs the thread; it makes no client write or close.
Fairness == WF_vars(Thread)
Spec     == Init /\ [][Next]_vars /\ Fairness

-----------------------------------------------------------------------------
(* Safety.                                                                  *)

\* Whenever the thread listens, every client still there has been shown the
\* grid the server plays on: a MOVE is never judged against a grid its sender
\* could not know (the two MOVD writes of handle_game and where it breaks).
ViewsAgree ==
  pc = "poll" => \A i \in Player : peer[i] = "up" => view[i] = board

\* A client is never told an outcome other than the one the game had: not two
\* winners, not a win against a draw, whatever write fails in between.
Expected(r, i) == IF r \in Mark THEN (IF role[i] = r THEN "W" ELSE "L")
                  ELSE "D"
VerdictsAgree ==
  \A i \in Player : told[i] # "none" => /\ result # "none"
                                        /\ told[i] = Expected(result, i)

\* The server's record of a draw on offer and what the two clients were shown
\* of it are the same whenever it listens: the one that must answer has seen
\* DRAW S, and a client that may play on has seen DRAW R or no offer.
OffersAgree ==
  (pc = "poll" /\ \A i \in Player : peer[i] = "up")
    => \A i \in Player :
         offered[i] <=> (is_draw_suggested = 1 /\ draw_response_index = i)

\* OVER is the last message a client gets: no write to it is left.
NothingAfterOver ==
  \A k \in DOMAIN outq : told[outq[k].to] = "none"

\* A decided game is not left without OVER to a client still there, unless the
\* other's connection was reset: handle_game breaks at the write that failed,
\* and if that was the first, the second client is not told.  (So what
\* requirements.txt D.5.c says, that the server sends OVER to both clients after
\* DRAW A, is true of connections that are not reset.)
OverReachesBoth ==
  (pc = "done" /\ result # "none")
    => \A i \in Player : (peer[i] = "up" /\ told[i] = "none")
                           => peer[Other(i)] = "reset"

-----------------------------------------------------------------------------
(* Refinement.  The abstract turn passes when the mark is made, the code's  *)
(* after both MOVD are written; so the abstract one is read off the grid.   *)

Marks(m) == {c \in Cell : board[c] = m}

Rules == INSTANCE TicTacToe WITH
  turn  <- IF Cardinality(Marks("X")) = Cardinality(Marks("O")) THEN 0 ELSE 1,
  offer <- IF is_draw_suggested = 1 /\ result = "none"
           THEN {Other(draw_response_index)} ELSE {}

\* The thread plays by the rules of TicTacToe, on every grid and for every
\* order of messages, failed writes and hangups.
PlaysByTheRules == Rules!Spec

-----------------------------------------------------------------------------
(* Liveness.                                                                *)

\* From some time on no client sends anything any more.
EventuallyQuiet == <>[][\A i \in Player : inbox'[i] <= inbox[i]]_vars
OtherQuiet(i)   == <>[][inbox'[Other(i)] <= inbox[Other(i)]]_vars

\* A decided game ends and both sockets are closed, whatever the clients do.
DecidedGameEnds == result # "none" ~> pc = "done"

\* Once the clients fall silent, a connection that is gone ends the game, also
\* while the thread was writing to it or busy with the other client.
DroppedGameEnds ==
  EventuallyQuiet => ((\E i \in Player : peer[i] # "up") ~> pc = "done")

\* A client's message is taken, or the game ends, as long as its opponent does
\* not keep sending: get_readable_socket and the buffer test prefer client1,
\* so an opponent that never stops can keep the thread to itself.
MessageTaken ==
  \A i \in Player :
    OtherQuiet(i) => (inbox[i] > 0 ~> (inbox[i] = 0 \/ pc = "done"))
=============================================================================
