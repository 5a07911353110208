----------------------------- MODULE GameProofs -----------------------------
(***************************************************************************)
(* Proofs about Game, for every choice of the attempted cells, the bounds  *)
(* and the clients that may fail: types, that no client is ever told a     *)
(* wrong outcome, that OVER is the last message to a client, and that      *)
(* whenever the thread listens, the clients that are still there have been *)
(* shown its grid and its draw offer; that the thread implements the rules *)
(* of TicTacToe; and that a decided game reaches both clients but for a    *)
(* reset.                                                                  *)
(***************************************************************************)
EXTENDS Game, FiniteSetTheorems, TLAPS

-----------------------------------------------------------------------------
(* The inductive invariant.  VerdictsAgree alone is not inductive: that the *)
(* writes still queued carry the right verdict, go to clients that have not *)
(* been told yet, and that a decided game can only write and leave, is what *)
(* the handlers establish and the writes preserve.                          *)

QueueOK == pc = "send" <=> outq # <<>>

UndecidedOK ==
  result = "none" =>
    /\ \A i \in Player : told[i] = "none"
    /\ \A k \in DOMAIN outq : Verdict(outq[k].kind) = "none"

DecidedOK ==
  result # "none" =>
    /\ pc \in {"send", "free", "done"}
    /\ pc = "send" => after = "break"
    /\ \A k \in DOMAIN outq : /\ Verdict(outq[k].kind) = Expected(result, outq[k].to)
                              /\ told[outq[k].to] = "none"
    /\ \A k, l \in DOMAIN outq : outq[k].to = outq[l].to => k = l
    /\ \A i \in Player : told[i] # "none" => told[i] = Expected(result, i)

IInv == TypeOK /\ QueueOK /\ UndecidedOK /\ DecidedOK

-----------------------------------------------------------------------------
(* The board.                                                               *)

\* get_game_status names a winner with a line whenever it reports a win.
LEMMA WinnerIsMark ==
  ASSUME NEW b, Won(b)
  PROVE  /\ Winner(b) \in Mark
         /\ \E k \in 1..8 : \A c \in LineOrder[k] : b[c] = Winner(b)
<1> DEFINE first(k) == /\ Completed(b, k)
                       /\ \A j \in 1..(k - 1) : ~Completed(b, j)
<1>1. \E k \in 1..8 : first(k)
  <2> HIDE DEF first
  <2>1. \A k \in 1..8 : k \in {1, 2, 3, 4, 5, 6, 7, 8}
    OBVIOUS
  <2>2. \A k \in 1..8 : \A j \in 1..(k - 1) : j \in 1..8 /\ j < k
    OBVIOUS
  <2>3. \A k \in 1..8 :
          (Completed(b, k) /\ \A j \in 1..8 : j < k => ~Completed(b, j))
            => first(k)
    BY <2>2 DEF first
  <2>4. \E k \in 1..8 :
          Completed(b, k) /\ \A j \in 1..8 : j < k => ~Completed(b, j)
    BY <2>1, Won(b) DEF Won
  <2> QED BY <2>3, <2>4
<1> DEFINE f == CHOOSE k \in 1..8 : first(k)
<1>2. f \in 1..8 /\ first(f)
  BY <1>1
<1>3. \E m \in Mark : \A c \in LineOrder[f] : b[c] = m
  BY <1>2 DEF Completed
<1>4. Winner(b) = CHOOSE m \in Mark : \A c \in LineOrder[f] : b[c] = m
  BY DEF Winner
<1>5. Winner(b) \in Mark /\ \A c \in LineOrder[f] : b[c] = Winner(b)
  BY <1>3, <1>4
<1> HIDE DEF f
<1> QED BY <1>2, <1>5

LEMMA ClaimType ==
  ASSUME NEW b \in Boards, NEW m \in Mark, NEW c \in Cell
  PROVE  Claim(b, m, c) \in Boards
  BY DEF Claim, Boards

LEMMA Players ==
  /\ \A i \in Player : Other(i) \in Player /\ Other(i) # i
  /\ \A i \in Player : role[i] \in Mark
  /\ \A i \in Player : \A m \in Mark : role[i] # m => role[Other(i)] = m
  /\ \A i, j \in Player : i # j => j = Other(i)
  BY DEF Player, Other, role, Mark

LEMMA InQueue ==
  ASSUME NEW S, NEW q \in Seq(S)
  PROVE  \A k \in DOMAIN q : q[k] \in S
  OBVIOUS

\* What is left of the queue after a write.
LEMMA TailOfQueue ==
  ASSUME NEW S, NEW q \in Seq(S), q # <<>>
  PROVE  /\ Head(q) \in S /\ Head(q) = q[1] /\ 1 \in DOMAIN q
         /\ Tail(q) \in Seq(S)
         /\ \A k \in DOMAIN Tail(q) : /\ k + 1 \in DOMAIN q
                                      /\ k + 1 # 1
                                      /\ Tail(q)[k] = q[k + 1]
  OBVIOUS

-----------------------------------------------------------------------------
(* The invariant holds initially and every step preserves it.               *)

LEMMA InitInv == Init => IInv
<1> SUFFICES ASSUME Init PROVE IInv
  OBVIOUS
<1>1. EmptyBoard \in Boards
  BY DEF EmptyBoard, Boards
<1>2. outq \in Seq([to : Player, kind : Kinds]) /\ outq # <<>>
  BY DEF Init, To, Player, Kinds
<1>3. TypeOK
  BY <1>1, <1>2, GameAssumption DEF Init, TypeOK, Player
<1>4. \A k \in DOMAIN outq : Verdict(outq[k].kind) = "none"
  BY DEF Init, To, Verdict
<1> QED
  BY <1>2, <1>3, <1>4 DEF Init, IInv, QueueOK, UndecidedOK, DecidedOK

\* The steps of the clients and of the network change nothing the invariant
\* speaks of but inbox and peer.
LEMMA PeerStep ==
  ASSUME IInv, NEW i \in Player, Client(i)
  PROVE  IInv'
<1>1. inbox' \in [Player -> 0..MaxInbox] /\ peer' \in [Player -> {"up", "closed", "reset"}]
  BY GameAssumption
  DEF IInv, TypeOK, Client, ClientSend, ClientClose, ConnectionReset, Player
<1>2. UNCHANGED <<thread, msg_buffer, control, open, result, history>>
  BY DEF Client, ClientSend, ClientClose, ConnectionReset
<1> QED
  BY <1>1, <1>2
  DEF IInv, TypeOK, QueueOK, UndecidedOK, DecidedOK,
      thread, control, history

LEMMA ChooseStep ==
  ASSUME IInv, Choose \/ PollInterrupted
  PROVE  IInv'
<1>1. index' \in Player /\ pc' \in {"recv", "free"} /\ pc = "poll"
  BY DEF Choose, PollInterrupted, thread, Player, IInv, TypeOK
<1>2. UNCHANGED <<board, turn, is_draw_suggested, draw_response_index>>
  BY DEF Choose, PollInterrupted, thread
<1>3. UNCHANGED <<msg_buffer, outq, after, conns, result, history>>
  BY DEF Choose, PollInterrupted
<1>4. result = "none" /\ outq = <<>>
  BY <1>1 DEF IInv, DecidedOK, QueueOK
<1> QED
  BY <1>1, <1>2, <1>3, <1>4
  DEF IInv, TypeOK, QueueOK, UndecidedOK, DecidedOK, conns, history

-----------------------------------------------------------------------------
(* The handlers.                                                            *)

Writes == Seq([to : Player, kind : Kinds])

LEMMA ReceivedFacts ==
  ASSUME IInv, Received
  PROVE  /\ pc = "recv" /\ result = "none"
         /\ msg_buffer' \in [Player -> Nat]
         /\ inbox' \in [Player -> 0..MaxInbox]
<1>1. pc = "recv" /\ result = "none"
  BY DEF Received, IInv, DecidedOK
<1>2. msg_buffer' \in [Player -> Nat] /\ inbox' \in [Player -> 0..MaxInbox]
  <2> USE GameAssumption DEF IInv, TypeOK
  <2>1. CASE /\ msg_buffer[index] > 0
             /\ msg_buffer' = [msg_buffer EXCEPT ![index] = @ - 1]
             /\ inbox' = inbox
    BY <2>1
  <2>2. CASE /\ inbox[index] > 0
             /\ msg_buffer' = [msg_buffer EXCEPT ![index] = @ + inbox[index] - 1]
             /\ inbox' = [inbox EXCEPT ![index] = 0]
    BY <2>2
  <2> QED BY <2>1, <2>2 DEF Received
<1> QED BY <1>1, <1>2

\* A handler that leaves the game undecided.
LEMMA UndecidedReply ==
  ASSUME IInv, pc = "recv", result = "none",
         NEW w \in Writes, w # <<>>,
         NEW next \in {"loop", "break", "turn", "suggest", "reject"},
         Reply(w, next),
         \A k \in DOMAIN w : Verdict(w[k].kind) = "none",
         board' \in Boards,
         UNCHANGED <<turn, is_draw_suggested, draw_response_index, index>>,
         msg_buffer' \in [Player -> Nat],
         inbox' \in [Player -> 0..MaxInbox],
         UNCHANGED <<peer, open, result, history>>
  PROVE  IInv'
<1>1. TypeOK'
  BY DEF IInv, TypeOK, Reply, Writes, history
<1>2. QueueOK'
  BY DEF QueueOK, Reply
<1>3. UndecidedOK'
  BY DEF IInv, UndecidedOK, Reply, history
<1>4. DecidedOK'
  BY DEF DecidedOK
<1> QED BY <1>1, <1>2, <1>3, <1>4 DEF IInv

\* A handler that decides the game: one OVER for each client, with the
\* verdicts that the result calls for.
LEMMA DecidingReply ==
  ASSUME IInv, pc = "recv", result = "none",
         NEW i \in Player, NEW v \in Kinds, NEW w \in Kinds,
         Reply(<<To(i, v), To(Other(i), w)>>, "break"),
         result' \in {"X", "O", "full", "agreed"},
         Verdict(v) = Expected(result', i),
         Verdict(w) = Expected(result', Other(i)),
         board' \in Boards,
         UNCHANGED <<turn, is_draw_suggested, draw_response_index, index>>,
         msg_buffer' \in [Player -> Nat],
         inbox' \in [Player -> 0..MaxInbox],
         UNCHANGED <<peer, open, history>>
  PROVE  IInv'
<1> DEFINE q == <<To(i, v), To(Other(i), w)>>
<1>1. q \in Writes /\ q # <<>>
  BY Players DEF Writes, To
<1>2. /\ q[1].to = i /\ q[1].kind = v
      /\ q[2].to = Other(i) /\ q[2].kind = w
      /\ DOMAIN q = {1, 2}
  BY DEF To
<1>3. outq' = q /\ pc' = "send" /\ after' = "break"
  BY DEF Reply
<1>4. \A j \in Player : told'[j] = "none"
  BY DEF IInv, UndecidedOK, history
<1> HIDE DEF q
<1>5. TypeOK'
  BY <1>1, <1>3 DEF IInv, TypeOK, Writes, history
<1>6. QueueOK'
  BY <1>1, <1>3 DEF QueueOK
<1>7. UndecidedOK'
  BY DEF UndecidedOK
<1>8. DecidedOK'
  <2>1. \A k \in DOMAIN outq' : /\ Verdict(outq'[k].kind) = Expected(result', outq'[k].to)
                               /\ told'[outq'[k].to] = "none"
    BY <1>2, <1>3, <1>4, Players
  <2>2. \A k, l \in DOMAIN outq' : outq'[k].to = outq'[l].to => k = l
    BY <1>2, <1>3, Players
  <2> QED BY <1>3, <1>4, <2>1, <2>2 DEF DecidedOK
<1> QED BY <1>5, <1>6, <1>7, <1>8 DEF IInv

\* Every handler ends in one of the two replies.
LEMMA HandlerStep ==
  ASSUME IInv, Handle
  PROVE  IInv'
<1> DEFINE rest == UNCHANGED <<turn, is_draw_suggested, draw_response_index, index>>
<1>0. index \in Player /\ board \in Boards
  BY DEF IInv, TypeOK
<1>1. CASE Resign
  <2>1. /\ role[index] \in Mark /\ role[Other(index)] \in Mark
        /\ role[index] # role[Other(index)]
    BY <1>0 DEF Player, Other, role, Mark
  <2>2. result' \in Mark /\ Verdict("OVER_L") = Expected(result', index)
                        /\ Verdict("OVER_W") = Expected(result', Other(index))
    BY <1>1, <2>1 DEF Resign, Expected, Verdict
  <2> QED
    BY <1>0, <1>1, <2>2, ReceivedFacts, DecidingReply
    DEF Resign, Kinds, Mark, thread
<1>2. CASE DrawAccept
  <2>1. \A i \in Player : Verdict("OVER_D") = Expected("agreed", i)
    BY DEF Expected, Verdict, Mark
  <2>2. 0 \in Player /\ Other(0) = 1
    BY DEF Player, Other
  <2>3. Verdict("OVER_D") = Expected(result', 0) /\ Verdict("OVER_D") = Expected(result', Other(0))
    BY <1>2, <2>1, <2>2, Players DEF DrawAccept
  <2>4. Reply(<<To(0, "OVER_D"), To(Other(0), "OVER_D")>>, "break")
    BY <1>2, <2>2 DEF DrawAccept
  <2> QED
    BY <1>0, <1>2, <2>2, <2>3, <2>4, ReceivedFacts, DecidingReply
    DEF DrawAccept, Kinds, thread
<1>3. \A i \in Player : \A k \in {"DRAW_R", "DRAW_S", "INVL"} :
        /\ <<To(i, k)>> \in Writes /\ <<To(i, k)>> # <<>>
        /\ \A n \in DOMAIN <<To(i, k)>> : Verdict(<<To(i, k)>>[n].kind) = "none"
  BY DEF Writes, To, Kinds, Verdict
<1>4. CASE DrawReject
  BY <1>0, <1>3, <1>4, Players, ReceivedFacts, UndecidedReply DEF DrawReject, thread
<1>5. CASE DrawSuggest
  BY <1>0, <1>3, <1>5, Players, ReceivedFacts, UndecidedReply DEF DrawSuggest, thread
<1>6. CASE \/ \E action \in DrawActions : DrawRefused(action)
           \/ \E rol \in Mark : MoveRefused(rol)
           \/ \E m \in MoveFields : MoveOccupied(m[1], m[2])
           \/ Unexpected
  <2>1. Received /\ Refuse /\ UNCHANGED <<thread, peer, open, result, history>>
    BY <1>6 DEF DrawRefused, MoveRefused, MoveOccupied, Unexpected
  <2> QED
    BY <1>0, <1>3, <2>1, ReceivedFacts, UndecidedReply DEF Refuse, thread
<1>7. CASE \E m \in MoveFields : Move(m[1], m[2])
  <2>1. PICK rol \in Mark, cell \in Cell : Move(rol, cell)
    BY <1>7, GameAssumption DEF MoveFields
  <2>2. board' \in Boards
    BY <1>0, <2>1, ClaimType DEF Move
  <2>3. Received /\ rest /\ UNCHANGED <<peer, open, history>>
    BY <2>1 DEF Move
  <2>4. CASE Status(board') = "W"
    <3> DEFINE winner == IF Winner(board') = role[index] THEN index ELSE Other(index)
    <3>1. Winner(board') \in Mark
      BY <2>4, WinnerIsMark DEF Status
    <3>2. result' = Winner(board') /\ Reply(<<To(winner, "OVER_W"), To(Other(winner), "OVER_L")>>, "break")
      BY <2>1, <2>4 DEF Move
    <3>3. winner \in Player /\ role[winner] = result' /\ role[Other(winner)] # result'
      BY <1>0, <3>1, <3>2 DEF Player, Other, role, Mark
    <3> HIDE DEF winner
    <3>4. /\ Verdict("OVER_W") = Expected(result', winner)
          /\ Verdict("OVER_L") = Expected(result', Other(winner))
      BY <3>1, <3>2, <3>3 DEF Expected, Verdict
    <3>5. result' \in {"X", "O", "full", "agreed"}
      BY <3>1, <3>2 DEF Mark
    <3> QED
      BY <2>2, <2>3, <3>2, <3>3, <3>4, <3>5, ReceivedFacts, DecidingReply DEF Kinds
  <2>5. CASE Status(board') = "D"
    <3>1. result' = "full" /\ Reply(<<To(0, "OVER_D"), To(1, "OVER_D")>>, "break")
      BY <2>1, <2>5 DEF Move
    <3>2. 0 \in Player /\ Other(0) = 1
      BY DEF Player, Other
    <3>3. \A i \in Player : Verdict("OVER_D") = Expected("full", i)
      BY DEF Expected, Verdict, Mark
    <3>4. /\ Reply(<<To(0, "OVER_D"), To(Other(0), "OVER_D")>>, "break")
          /\ Verdict("OVER_D") = Expected(result', 0)
          /\ Verdict("OVER_D") = Expected(result', Other(0))
      BY <3>1, <3>2, <3>3, Players
    <3> QED
      BY <2>2, <2>3, <3>1, <3>2, <3>4, ReceivedFacts, DecidingReply DEF Kinds
  <2>6. CASE Status(board') = "N"
    <3> DEFINE q == <<To(0, "MOVD"), To(1, "MOVD")>>
    <3>1. result' = result /\ Reply(q, "turn")
      BY <2>1, <2>6 DEF Move
    <3>2. q \in Writes /\ q # <<>> /\ \A k \in DOMAIN q : Verdict(q[k].kind) = "none"
      BY DEF Writes, To, Kinds, Player, Verdict
    <3> HIDE DEF q
    <3> QED
      BY <2>2, <2>3, <3>1, <3>2, ReceivedFacts, UndecidedReply
  <2> QED BY <2>4, <2>5, <2>6 DEF Status
<1> QED
  BY <1>1, <1>2, <1>4, <1>5, <1>6, <1>7 DEF Handle

LEMMA GetMessageFailsStep ==
  ASSUME IInv, GetMessageFails
  PROVE  IInv'
<1>1. pc = "recv" /\ result = "none" /\ index \in Player /\ board \in Boards
  BY DEF GetMessageFails, IInv, TypeOK, DecidedOK
<1>2. msg_buffer' \in [Player -> Nat] /\ inbox' \in [Player -> 0..MaxInbox]
  BY GameAssumption DEF GetMessageFails, IInv, TypeOK
<1>3. /\ <<To(index, "INVL")>> \in Writes /\ <<To(index, "INVL")>> # <<>>
      /\ \A n \in DOMAIN <<To(index, "INVL")>> : Verdict(<<To(index, "INVL")>>[n].kind) = "none"
  BY <1>1 DEF Writes, To, Kinds, Verdict
<1> QED
  BY <1>1, <1>2, <1>3, UndecidedReply DEF GetMessageFails, thread

-----------------------------------------------------------------------------
(* The writes and the end of the thread.                                    *)

LEMMA SendStep ==
  ASSUME IInv, Send
  PROVE  IInv'
<1> DEFINE m == Head(outq)
<1>1. outq \in Writes /\ outq # <<>>
  BY DEF Send, IInv, TypeOK, QueueOK, Writes
<1>2. /\ m \in [to : Player, kind : Kinds] /\ m = outq[1] /\ 1 \in DOMAIN outq
      /\ outq' \in Writes
      /\ \A k \in DOMAIN outq' : /\ k + 1 \in DOMAIN outq /\ k + 1 # 1
                                 /\ outq'[k] = outq[k + 1]
  BY <1>1, TailOfQueue DEF Writes, Send
<1> HIDE DEF m
<1>3. /\ told' \in [Player -> {"none", "W", "L", "D"}]
      /\ view' \in [Player -> Boards]
      /\ offered' \in [Player -> BOOLEAN]
      /\ \A i \in Player : i # m.to => told'[i] = told[i]
      /\ \/ told'[m.to] = told[m.to]
         \/ told'[m.to] = Verdict(m.kind) /\ Verdict(m.kind) # "none"
  <2>1. Deliver(m)
    BY DEF Send, m
  <2>2. Verdict(m.kind) \in {"none", "W", "L", "D"}
    BY DEF Verdict
  <2>3. m.to \in Player /\ Other(m.to) \in Player
    BY <1>2, Players
  <2> QED
    BY <2>1, <2>2, <2>3 DEF Deliver, IInv, TypeOK, history
<1>4. /\ turn' \in Player
      /\ is_draw_suggested' \in {0, 1}
      /\ draw_response_index' \in Player
      /\ outq' = <<>> => pc' = IF after = "break" THEN "free" ELSE "poll"
      /\ outq' # <<>> => pc' = "send"
  BY Players DEF Send, Finish, IInv, TypeOK
<1>5. UNCHANGED <<board, index, msg_buffer, after, conns, result>>
  BY DEF Send
<1>6. TypeOK'
  BY <1>2, <1>3, <1>4, <1>5 DEF IInv, TypeOK, Writes, conns
<1>7. QueueOK'
  BY <1>4 DEF QueueOK
<1>8. UndecidedOK'
  BY <1>2, <1>3, <1>5 DEF IInv, UndecidedOK
<1>9. DecidedOK'
  <2> SUFFICES ASSUME result' # "none" PROVE DecidedOK'
    BY DEF DecidedOK
  <2>1. result # "none" /\ result' = result /\ DecidedOK /\ after = "break" /\ after' = after
    BY <1>5 DEF IInv, DecidedOK, Send
  <2>2. pc' \in {"send", "free", "done"}
    BY <1>4, <2>1
  <2>3. \A k, l \in DOMAIN outq' : outq'[k].to = outq'[l].to => k = l
    <3> SUFFICES ASSUME NEW k \in DOMAIN outq', NEW l \in DOMAIN outq',
                        outq'[k].to = outq'[l].to
                 PROVE  k = l
      OBVIOUS
    <3>1. k + 1 = l + 1
      BY <1>2, <2>1 DEF DecidedOK
    <3>2. k \in Nat /\ l \in Nat
      BY <1>2 DEF Writes
    <3> QED BY <3>1, <3>2
  <2>4. \A k \in DOMAIN outq' : outq'[k].to # m.to
    BY <1>2, <2>1 DEF DecidedOK
  <2>5. \A k \in DOMAIN outq' : outq'[k].to \in Player
    <3>1. \A k \in DOMAIN outq' : outq'[k] \in [to : Player, kind : Kinds]
      BY <1>2, InQueue DEF Writes
    <3> QED BY <3>1
  <2>6. \A k \in DOMAIN outq' : /\ Verdict(outq'[k].kind) = Expected(result', outq'[k].to)
                               /\ told'[outq'[k].to] = "none"
    BY <1>2, <1>3, <2>1, <2>4, <2>5 DEF DecidedOK
  <2>7. \A i \in Player : told'[i] # "none" => told'[i] = Expected(result', i)
    BY <1>2, <1>3, <2>1 DEF DecidedOK
  <2> QED BY <2>1, <2>2, <2>3, <2>6, <2>7 DEF DecidedOK
<1> QED BY <1>6, <1>7, <1>8, <1>9 DEF IInv

LEMMA EndStep ==
  ASSUME IInv, SendFails \/ CloseSocket
  PROVE  IInv'
<1>1. CASE SendFails
  <2>1. outq' \in Writes
    BY <1>1 DEF SendFails, Writes
  <2> QED
    BY <1>1, <2>1
    DEF SendFails, IInv, TypeOK, QueueOK, UndecidedOK, DecidedOK, Writes,
        thread, conns, history
<1>2. CASE CloseSocket
  BY <1>2
  DEF CloseSocket, IInv, TypeOK, QueueOK, UndecidedOK, DecidedOK,
      thread, history
<1> QED BY <1>1, <1>2

-----------------------------------------------------------------------------
(* The theorems.                                                            *)

LEMMA NextInv == IInv /\ [Next]_vars => IInv'
<1> SUFFICES ASSUME IInv, [Next]_vars PROVE IInv'
  OBVIOUS
<1>1. CASE UNCHANGED vars
  BY <1>1
  DEF vars, thread, control, conns, history,
      IInv, TypeOK, QueueOK, UndecidedOK, DecidedOK
<1>2. CASE Choose \/ PollInterrupted
  BY <1>2, ChooseStep
<1>3. CASE GetMessageFails
  BY <1>3, GetMessageFailsStep
<1>4. CASE Handle
  BY <1>4, HandlerStep
<1>5. CASE Send
  BY <1>5, SendStep
<1>6. CASE SendFails \/ CloseSocket
  BY <1>6, EndStep
<1>7. CASE \E i \in Player : Client(i)
  BY <1>7, PeerStep
<1> QED
  BY <1>1, <1>2, <1>3, <1>4, <1>5, <1>6, <1>7 DEF Next, Thread, Terminated

LEMMA Invariance == Spec => []IInv
<1>1. Init => IInv
  BY InitInv
<1>2. IInv /\ [Next]_vars => IInv'
  BY NextInv
<1> QED BY <1>1, <1>2, PTL DEF Spec

\* Every variable of the game thread keeps its type: no handler, in whatever
\* state a client's message finds it, leaves the values the C code assumes.
THEOREM TypeCorrect == Spec => []TypeOK
<1>1. IInv => TypeOK
  BY DEF IInv
<1> QED BY <1>1, Invariance, PTL

\* handle_game never tells a client an outcome the game did not have, whichever
\* writes fail and whoever hangs up.
THEOREM Verdicts == Spec => []VerdictsAgree
<1>1. IInv => VerdictsAgree
  BY DEF IInv, UndecidedOK, DecidedOK, VerdictsAgree
<1> QED BY <1>1, Invariance, PTL

\* No branch of handle_game writes to a client after its OVER.
THEOREM OverIsLast == Spec => []NothingAfterOver
<1>1. IInv => NothingAfterOver
  <2> SUFFICES ASSUME IInv, NEW k \in DOMAIN outq
               PROVE  told[outq[k].to] = "none"
    BY DEF NothingAfterOver
  <2>1. outq[k] \in [to : Player, kind : Kinds]
    BY InQueue DEF IInv, TypeOK
  <2>2. outq[k].to \in Player
    BY <2>1
  <2> QED BY <2>2 DEF IInv, UndecidedOK, DecidedOK
<1> QED BY <1>1, Invariance, PTL

-----------------------------------------------------------------------------
(* What the clients know.  Between the handler's decision and its last      *)
(* write the clients know less than the server; the invariant says what the *)
(* queue of writes still owes them.  A handler that is going to break owes  *)
(* nothing, as the thread will not listen again.                            *)

GoesOn == pc \in {"poll", "recv"} \/ (pc = "send" /\ after # "break")

ViewsOwed ==
  GoesOn => \A i \in Player : peer[i] = "up" =>
    \/ view[i] = board
    \/ \E k \in DOMAIN outq : outq[k].to = i /\ outq[k].kind = "MOVD"

OnOffer(i) == is_draw_suggested = 1 /\ draw_response_index = i
BothUp     == \A i \in Player : peer[i] = "up"

\* Nothing about a draw is on its way.
OffersSettled ==
  /\ \A i \in Player : offered[i] = OnOffer(i)
  /\ \A k \in DOMAIN outq : outq[k].kind \notin {"DRAW_S", "DRAW_R"}

SuggestionOnItsWay ==
  /\ outq = <<To(Other(index), "DRAW_S")>>
  /\ is_draw_suggested = 0
  /\ \A i \in Player : offered[i] = FALSE

RejectionOnItsWay ==
  /\ outq = <<To(Other(index), "DRAW_R")>>
  /\ MustAnswer
  /\ \A i \in Player : offered[i] = (i = index)

OffersOwed ==
  GoesOn /\ BothUp =>
    CASE pc = "send" /\ after = "suggest" -> SuggestionOnItsWay
      [] pc = "send" /\ after = "reject"  -> RejectionOnItsWay
      [] OTHER -> OffersSettled

Owed == ViewsOwed /\ OffersOwed

-----------------------------------------------------------------------------
(* It holds initially and every step preserves it.                          *)

LEMMA OwedInit == Init => Owed
<1> SUFFICES ASSUME Init PROVE Owed
  OBVIOUS
<1>1. ViewsOwed
  BY DEF Init, ViewsOwed
<1>2. pc = "send" /\ after = "loop" /\ is_draw_suggested = 0
  BY DEF Init
<1>3. OffersSettled
  <2>1. \A i \in Player : offered[i] = FALSE
    BY DEF Init
  <2>2. \A k \in DOMAIN outq : outq[k].kind = "BEGN"
    BY DEF Init, To
  <2>3. \A i \in Player : OnOffer(i) = FALSE
    BY <1>2 DEF OnOffer
  <2> QED BY <2>1, <2>2, <2>3 DEF OffersSettled
<1> QED BY <1>1, <1>2, <1>3 DEF Owed, OffersOwed

\* A client can only stop being up.
LEMMA OwedClient ==
  ASSUME IInv, Owed, NEW c \in Player, Client(c)
  PROVE  Owed'
<1>1. \A i \in Player : peer'[i] = "up" => peer[i] = "up"
  BY DEF Client, ClientSend, ClientClose, ConnectionReset, IInv, TypeOK
<1>2. UNCHANGED <<thread, control, history>>
  BY DEF Client, ClientSend, ClientClose, ConnectionReset
<1>3. UNCHANGED <<board, index, pc, outq, after, view, offered,
                  is_draw_suggested, draw_response_index>>
  BY <1>2 DEF thread, control, history
<1>4. ViewsOwed'
  BY <1>1, <1>3 DEF Owed, ViewsOwed, GoesOn
<1>5. GoesOn' = GoesOn /\ (BothUp' => BothUp)
  BY <1>1, <1>3 DEF GoesOn, BothUp
<1>6. /\ SuggestionOnItsWay => SuggestionOnItsWay'
      /\ RejectionOnItsWay => RejectionOnItsWay'
      /\ OffersSettled => OffersSettled'
  BY <1>3
  DEF SuggestionOnItsWay, RejectionOnItsWay, OffersSettled, MustAnswer, OnOffer
<1>7. OffersOwed'
  BY <1>3, <1>5, <1>6 DEF Owed, OffersOwed
<1> QED BY <1>4, <1>7 DEF Owed

\* The thread leaves the loop: it owes nothing any more.
LEMMA OwedLeaving ==
  ASSUME ~GoesOn'
  PROVE  Owed'
  BY DEF Owed, ViewsOwed, OffersOwed

\* While the thread is not writing, nothing is owed and all is settled.
LEMMA NothingOwed ==
  ASSUME IInv, Owed, pc \in {"poll", "recv"}
  PROVE  /\ outq = <<>>
         /\ \A i \in Player : peer[i] = "up" => view[i] = board
         /\ BothUp => \A i \in Player : offered[i] = OnOffer(i)
<1>1. outq = <<>>
  BY DEF IInv, QueueOK
<1>2. DOMAIN outq = {}
  BY <1>1
<1>3. BothUp => OffersSettled
  BY DEF Owed, OffersOwed, GoesOn
<1> QED
  BY <1>1, <1>2, <1>3 DEF Owed, ViewsOwed, OffersSettled, GoesOn

LEMMA OwedChoose == ASSUME IInv, Owed, Choose PROVE Owed'
<1>1. /\ pc = "poll" /\ pc' = "recv"
      /\ UNCHANGED <<board, is_draw_suggested, draw_response_index>>
      /\ UNCHANGED <<outq, after, conns, history>>
  BY DEF Choose
<1>2. /\ outq' = <<>>
      /\ \A i \in Player : peer'[i] = "up" => view'[i] = board'
      /\ BothUp' => \A i \in Player : offered'[i] = OnOffer(i)'
  BY <1>1, NothingOwed DEF conns, history, BothUp, OnOffer
<1>3. OffersOwed'
  BY <1>1, <1>2 DEF OffersOwed, OffersSettled
<1> QED BY <1>2, <1>3 DEF Owed, ViewsOwed

-----------------------------------------------------------------------------
(* The handlers.                                                            *)

\* A handler that refuses the message.
LEMMA OwedRefuse ==
  ASSUME IInv, Owed, pc = "recv", Refuse,
         UNCHANGED <<thread, peer, history>>
  PROVE  Owed'
<1>1. /\ pc' = "send" /\ after' = "loop" /\ outq' = <<To(index, "INVL")>>
      /\ UNCHANGED <<board, is_draw_suggested, draw_response_index, peer, view,
                     offered>>
  BY DEF Refuse, Reply, thread, history
<1>2. \A k \in DOMAIN outq' : outq'[k].kind = "INVL"
  BY <1>1 DEF To
<1>3. /\ \A i \in Player : peer'[i] = "up" => view'[i] = board'
      /\ BothUp' => \A i \in Player : offered'[i] = OnOffer(i)'
  BY <1>1, NothingOwed DEF BothUp, OnOffer
<1>4. OffersOwed'
  BY <1>1, <1>2, <1>3 DEF OffersOwed, OffersSettled
<1> QED BY <1>3, <1>4 DEF Owed, ViewsOwed

LEMMA OwedDraw ==
  ASSUME IInv, Owed, DrawSuggest \/ DrawReject
  PROVE  Owed'
<1>1. /\ pc = "recv" /\ pc' = "send"
      /\ UNCHANGED <<thread, peer, history>>
  BY DEF DrawSuggest, DrawReject, Received, Reply
<1>2. UNCHANGED <<board, index, is_draw_suggested, draw_response_index, peer,
                  view, offered>>
  BY <1>1 DEF thread, history
<1>3. /\ \A i \in Player : peer'[i] = "up" => view'[i] = board'
      /\ BothUp' => \A i \in Player : offered'[i] = OnOffer(i)
  BY <1>1, <1>2, NothingOwed DEF BothUp
<1>4. CASE DrawSuggest
  <2>1. /\ is_draw_suggested = 0 /\ after' = "suggest"
        /\ outq' = <<To(Other(index), "DRAW_S")>>
    BY <1>4 DEF DrawSuggest, Reply
  <2>2. \A i \in Player : OnOffer(i) = FALSE
    BY <2>1 DEF OnOffer
  <2>3. BothUp' => SuggestionOnItsWay'
    BY <1>2, <1>3, <2>1, <2>2 DEF SuggestionOnItsWay
  <2> QED BY <1>1, <1>3, <2>1, <2>3 DEF Owed, ViewsOwed, OffersOwed
<1>5. CASE DrawReject
  <2>1. /\ MustAnswer /\ after' = "reject"
        /\ outq' = <<To(Other(index), "DRAW_R")>>
    BY <1>5 DEF DrawReject, Reply
  <2>2. \A i \in Player : OnOffer(i) = (i = index)
    BY <2>1 DEF OnOffer, MustAnswer
  <2>3. BothUp' => RejectionOnItsWay'
    BY <1>2, <1>3, <2>1, <2>2 DEF RejectionOnItsWay, MustAnswer
  <2> QED BY <1>1, <1>3, <2>1, <2>3 DEF Owed, ViewsOwed, OffersOwed
<1> QED BY <1>4, <1>5

\* A move that decides nothing owes both clients the new grid.
LEMMA OwedMove ==
  ASSUME IInv, Owed, NEW rol, NEW cell, Move(rol, cell)
  PROVE  Owed'
<1>1. /\ pc = "recv" /\ pc' = "send"
      /\ UNCHANGED <<is_draw_suggested, draw_response_index, peer, history>>
  BY DEF Move, Received, Reply
<1>2. \/ after' = "break"
      \/ after' = "turn" /\ outq' = <<To(0, "MOVD"), To(1, "MOVD")>>
  BY DEF Move, Reply
<1>3. CASE after' = "break"
  BY <1>1, <1>3, OwedLeaving DEF GoesOn
<1>4. CASE after' = "turn" /\ outq' = <<To(0, "MOVD"), To(1, "MOVD")>>
  <2>1. /\ DOMAIN outq' = {1, 2}
        /\ outq'[1].to = 0 /\ outq'[1].kind = "MOVD"
        /\ outq'[2].to = 1 /\ outq'[2].kind = "MOVD"
    BY <1>4 DEF To
  <2>2. ViewsOwed'
    BY <2>1 DEF ViewsOwed, Player
  <2>3. BothUp' => \A i \in Player : offered'[i] = OnOffer(i)'
    BY <1>1, NothingOwed DEF BothUp, OnOffer, history
  <2>4. OffersOwed'
    BY <1>4, <2>1, <2>3 DEF OffersOwed, OffersSettled
  <2> QED BY <2>2, <2>4 DEF Owed
<1> QED BY <1>2, <1>3, <1>4

LEMMA OwedHandle == ASSUME IInv, Owed, Handle PROVE Owed'
<1>1. CASE Resign \/ DrawAccept
  BY <1>1, OwedLeaving DEF Resign, DrawAccept, Reply, GoesOn
<1>2. CASE DrawSuggest \/ DrawReject
  BY <1>2, OwedDraw
<1>3. CASE \E m \in MoveFields : Move(m[1], m[2])
  BY <1>3, OwedMove
<1>4. CASE \/ \E action \in DrawActions : DrawRefused(action)
           \/ \E rol \in Mark : MoveRefused(rol)
           \/ \E m \in MoveFields : MoveOccupied(m[1], m[2])
           \/ Unexpected
  <2>1. pc = "recv" /\ Refuse /\ UNCHANGED <<thread, peer, history>>
    BY <1>4 DEF DrawRefused, MoveRefused, MoveOccupied, Unexpected, Received
  <2> QED BY <2>1, OwedRefuse
<1> QED BY <1>1, <1>2, <1>3, <1>4 DEF Handle

-----------------------------------------------------------------------------
(* A write.                                                                 *)

LEMMA OwedSend == ASSUME IInv, Owed, Send PROVE Owed'
<1> DEFINE m == Head(outq)
<1>1. outq \in Writes /\ outq # <<>> /\ pc = "send"
  BY DEF Send, IInv, TypeOK, QueueOK, Writes
<1>2. /\ m \in [to : Player, kind : Kinds] /\ m = outq[1]
      /\ \A k \in DOMAIN outq' : k + 1 \in DOMAIN outq /\ outq'[k] = outq[k + 1]
  BY <1>1, TailOfQueue DEF Writes, Send
<1>3. \A k \in DOMAIN outq :
        k = 1 \/ (k - 1 \in DOMAIN outq' /\ outq'[k - 1] = outq[k])
  BY <1>1 DEF Send, Writes
<1>4. Deliver(m) /\ UNCHANGED <<board, index, after, peer>>
  BY DEF Send, conns
<1> HIDE DEF m
<1>5. m.to \in Player /\ Other(m.to) \in Player
  BY <1>2, Players
<1>6. CASE ~GoesOn'
  BY <1>6, OwedLeaving
<1>7. CASE GoesOn'
  <2>1. GoesOn /\ after # "break"
    <3>1. outq' = <<>> /\ after = "break" => pc' = "free"
      BY DEF Send, Finish
    <3>2. outq' # <<>> => pc' = pc
      BY DEF Send
    <3> QED BY <1>1, <1>4, <1>7, <3>1, <3>2 DEF GoesOn
  <2>2. ViewsOwed'
    <3> SUFFICES ASSUME NEW i \in Player, peer'[i] = "up"
                 PROVE  \/ view'[i] = board'
                        \/ \E k \in DOMAIN outq' : /\ outq'[k].to = i
                                                  /\ outq'[k].kind = "MOVD"
      BY DEF ViewsOwed
    <3>1. view[i] = board =>  view'[i] = board'
      BY <1>4, <1>5 DEF Deliver, history, IInv, TypeOK
    <3>2. m.to = i /\ m.kind = "MOVD" => view'[i] = board'
      BY <1>4, <1>5 DEF Deliver, IInv, TypeOK
    <3>3. \/ view[i] = board
          \/ \E k \in DOMAIN outq : outq[k].to = i /\ outq[k].kind = "MOVD"
      BY <1>4, <2>1 DEF Owed, ViewsOwed
    <3> QED BY <1>2, <1>3, <3>1, <3>2, <3>3
  <2>3. OffersOwed'
    <3> SUFFICES ASSUME BothUp' PROVE OffersOwed'
      BY DEF OffersOwed
    <3>1. BothUp
      BY <1>4 DEF BothUp
    <3>2. /\ peer[m.to] = "up"
          /\ offered' = CASE m.kind = "DRAW_S" -> [offered EXCEPT ![m.to] = TRUE]
                         [] m.kind = "DRAW_R" -> [offered EXCEPT ![Other(m.to)] = FALSE]
                         [] OTHER -> offered
      BY <1>4, <1>5, <3>1 DEF BothUp, Deliver
    <3>3. CASE after = "suggest"
      <4>1. SuggestionOnItsWay
        BY <1>1, <2>1, <3>1, <3>3 DEF Owed, OffersOwed
      <4>2. m = To(Other(index), "DRAW_S") /\ outq' = <<>>
        BY <1>2, <4>1 DEF SuggestionOnItsWay, Send
      <4>3. pc' = "poll" /\ is_draw_suggested' = 1 /\ draw_response_index' = Other(index)
        BY <3>3, <4>2 DEF Send, Finish
      <4>4. Other(index) \in Player /\ m.to = Other(index) /\ m.kind = "DRAW_S"
        BY <4>2, Players DEF To, IInv, TypeOK
      <4>5. offered' = [offered EXCEPT ![Other(index)] = TRUE]
        BY <3>2, <4>4
      <4>6. \A i \in Player : offered'[i] = (i = Other(index))
        BY <4>1, <4>4, <4>5 DEF SuggestionOnItsWay, IInv, TypeOK
      <4>7. \A i \in Player : OnOffer(i)' = (i = Other(index))
        BY <4>3 DEF OnOffer
      <4> QED BY <4>2, <4>3, <4>6, <4>7 DEF OffersOwed, OffersSettled
    <3>4. CASE after = "reject"
      <4>1. RejectionOnItsWay
        BY <1>1, <2>1, <3>1, <3>4 DEF Owed, OffersOwed
      <4>2. m = To(Other(index), "DRAW_R") /\ outq' = <<>>
        BY <1>2, <4>1 DEF RejectionOnItsWay, Send
      <4>3. pc' = "poll" /\ is_draw_suggested' = 0
        BY <3>4, <4>2 DEF Send, Finish
      <4>4. index \in Player /\ Other(m.to) = index /\ m.kind = "DRAW_R"
        BY <4>2 DEF To, IInv, TypeOK, Player, Other
      <4>5. offered' = [offered EXCEPT ![index] = FALSE]
        BY <3>2, <4>4
      <4>6. \A i \in Player : offered'[i] = FALSE
        BY <4>1, <4>4, <4>5 DEF RejectionOnItsWay, IInv, TypeOK
      <4>7. \A i \in Player : OnOffer(i)' = FALSE
        BY <4>3 DEF OnOffer
      <4>8. DOMAIN outq' = {}
        BY <4>2
      <4>9. OffersSettled'
        BY <4>6, <4>7, <4>8 DEF OffersSettled
      <4> QED BY <4>3, <4>9 DEF OffersOwed
    <3>5. CASE after \notin {"suggest", "reject"}
      <4>1. OffersSettled
        BY <2>1, <3>1, <3>5 DEF Owed, OffersOwed
      <4>2. m.kind \notin {"DRAW_S", "DRAW_R"}
        BY <1>1, <1>2, TailOfQueue, <4>1 DEF OffersSettled, Writes
      <4>3. offered' = offered
        BY <3>2, <4>2
      <4>4. UNCHANGED <<is_draw_suggested, draw_response_index>>
        BY <3>5 DEF Send, Finish
      <4>5. OffersSettled'
        BY <1>2, <4>1, <4>3, <4>4 DEF OffersSettled, OnOffer
      <4> QED BY <1>4, <3>5, <4>5 DEF OffersOwed
    <3> QED BY <3>3, <3>4, <3>5
  <2> QED BY <2>2, <2>3 DEF Owed
<1> QED BY <1>6, <1>7

-----------------------------------------------------------------------------
(* The theorems.                                                            *)

LEMMA OwedNext == IInv /\ Owed /\ [Next]_vars => Owed'
<1> SUFFICES ASSUME IInv, Owed, [Next]_vars PROVE Owed'
  OBVIOUS
<1>1. CASE UNCHANGED vars
  <2>1. UNCHANGED <<board, index, pc, outq, after, peer, view, offered,
                    is_draw_suggested, draw_response_index>>
    BY <1>1 DEF vars, thread, control, conns, history
  <2> QED
    BY <2>1
    DEF Owed, ViewsOwed, OffersOwed, GoesOn, BothUp, OnOffer, MustAnswer,
        OffersSettled, SuggestionOnItsWay, RejectionOnItsWay
<1>2. CASE Choose
  BY <1>2, OwedChoose
<1>3. CASE PollInterrupted \/ SendFails \/ CloseSocket
  BY <1>3, OwedLeaving DEF PollInterrupted, SendFails, CloseSocket, GoesOn
<1>4. CASE GetMessageFails
  BY <1>4, OwedLeaving DEF GetMessageFails, Reply, GoesOn
<1>5. CASE Handle
  BY <1>5, OwedHandle
<1>6. CASE Send
  BY <1>6, OwedSend
<1>7. CASE \E i \in Player : Client(i)
  BY <1>7, OwedClient
<1> QED
  BY <1>1, <1>2, <1>3, <1>4, <1>5, <1>6, <1>7 DEF Next, Thread, Terminated

LEMMA OwedInvariance == Spec => [](IInv /\ Owed)
<1>1. Init => IInv /\ Owed
  BY InitInv, OwedInit
<1>2. (IInv /\ Owed) /\ [Next]_vars => (IInv /\ Owed)'
  BY NextInv, OwedNext
<1> QED BY <1>1, <1>2, PTL DEF Spec

\* Whenever the thread listens, every client still there has seen its grid:
\* the two MOVD writes of handle_game never leave one client behind.
THEOREM Views == Spec => []ViewsAgree
<1>1. IInv /\ Owed => ViewsAgree
  BY NothingOwed DEF ViewsAgree
<1> QED BY <1>1, OwedInvariance, PTL

\* Whenever the thread listens to two clients that are still there, its draw
\* flags say what the clients were shown, although they are set after the
\* write of DRAW S or DRAW R.
THEOREM Offers == Spec => []OffersAgree
<1>1. IInv /\ Owed => OffersAgree
  BY NothingOwed DEF OffersAgree, OnOffer, BothUp
<1> QED BY <1>1, OwedInvariance, PTL

-----------------------------------------------------------------------------
(* The grid.                                                                *)

\* The list of lines of get_game_status is the geometry of the grid.
LEMMA Geometry ==
  ASSUME NEW g, NEW p
  PROVE  Rules!HasLine(g, p)
           <=> \E k \in 1..8 : \A c \in LineOrder[k] : g[c] = Rules!MarkOf(p)
<1> DEFINE m == Rules!MarkOf(p)
           Row(r) == \A k \in 0..2 : g[3 * r + k] = m
           Column(k) == \A r \in 0..2 : g[3 * r + k] = m
           Falling == \A d \in 0..2 : g[3 * d + d] = m
           Rising  == \A d \in 0..2 : g[3 * d + (2 - d)] = m
           Line(k) == \A c \in LineOrder[k] : g[c] = m
<1>1. Rules!HasLine(g, p) <=> \/ \E r \in 0..2 : Row(r)
                              \/ \E k \in 0..2 : Column(k)
                              \/ Falling
                              \/ Rising
  BY DEF Rules!HasLine, Rules!At
<1>2. \A x : x \in 0..2 <=> x = 0 \/ x = 1 \/ x = 2
  OBVIOUS
<1> HIDE DEF m
<1>3. /\ Row(0) <=> Line(1)
      /\ Row(1) <=> Line(2)
      /\ Row(2) <=> Line(3)
  BY <1>2 DEF LineOrder
<1>4. /\ Column(0) <=> Line(4)
      /\ Column(1) <=> Line(5)
      /\ Column(2) <=> Line(6)
  BY <1>2 DEF LineOrder
<1>5. (Falling <=> Line(7)) /\ (Rising <=> Line(8))
  BY <1>2 DEF LineOrder
<1> HIDE DEF Row, Column, Falling, Rising, Line
<1>6. \A x : x \in 1..8 <=> x \in {1, 2, 3, 4, 5, 6, 7, 8}
  OBVIOUS
<1>7. Rules!HasLine(g, p) <=> \E k \in 1..8 : Line(k)
  BY <1>1, <1>2, <1>3, <1>4, <1>5, <1>6
<1> QED BY <1>7 DEF Line, m

\* The first line on the grid is the one of who moved last.
LEMMA MoverWins ==
  ASSUME NEW b \in Boards, NEW c \in Cell, NEW m \in Mark, ~Won(b),
         NEW new, new = Claim(b, m, c), b[c] = Empty
  PROVE  /\ Won(new) => Winner(new) = m
         /\ Won(new) <=> \E k \in 1..8 : \A d \in LineOrder[k] : new[d] = m
<1>1. \A d \in Cell : new[d] = IF d = c THEN m ELSE b[d]
  BY DEF Claim, Boards
<1>2. \A k \in 1..8 : LineOrder[k] \subseteq Cell
  <2>1. \A x : x \in 1..8 <=> x \in {1, 2, 3, 4, 5, 6, 7, 8}
    OBVIOUS
  <2>2. {0, 1, 2, 3, 4, 5, 6, 7, 8} \subseteq Cell
    BY DEF Cell
  <2> QED BY <2>1, <2>2 DEF LineOrder
<1>3. ASSUME NEW k \in 1..8, NEW n \in Mark, \A d \in LineOrder[k] : new[d] = n
      PROVE  n = m
  <2> SUFFICES ASSUME n # m PROVE FALSE
    OBVIOUS
  <2>1. c \notin LineOrder[k]
    BY <1>1, <1>3
  <2>2. ASSUME NEW d \in LineOrder[k] PROVE b[d] = n
    <3>1. d \in Cell /\ d # c
      BY <1>2, <2>1
    <3> QED BY <1>1, <1>3, <3>1
  <2> QED BY <2>2 DEF Won, Completed
<1>4. Won(new) => Winner(new) = m
  BY <1>3, WinnerIsMark
<1>5. Won(new) <=> \E k \in 1..8 : \A d \in LineOrder[k] : new[d] = m
  BY <1>3 DEF Won, Completed
<1> QED BY <1>4, <1>5

CellsOf(b, m) == {c \in Cell : b[c] = m}

LEMMA CountClaim ==
  ASSUME NEW b \in Boards, NEW c \in Cell, NEW m \in Mark, b[c] = Empty,
         NEW new, new = Claim(b, m, c)
  PROVE  /\ \A n \in Mark : Cardinality(CellsOf(b, n)) \in Nat
         /\ Cardinality(CellsOf(new, m)) = Cardinality(CellsOf(b, m)) + 1
         /\ \A n \in Mark : n # m => CellsOf(new, n) = CellsOf(b, n)
<1>1. IsFiniteSet(Cell)
  <2>1. 0 \in Int /\ 8 \in Int
    OBVIOUS
  <2>2. IsFiniteSet(0..8)
    BY <2>1, FS_Interval
  <2> QED BY <2>2 DEF Cell
<1>2. \A n : CellsOf(b, n) \subseteq Cell
  BY DEF CellsOf
<1>3. \A n : IsFiniteSet(CellsOf(b, n)) /\ Cardinality(CellsOf(b, n)) \in Nat
  BY <1>1, <1>2, FS_Subset, FS_CardinalityType
<1>4. \A d \in Cell : new[d] = IF d = c THEN m ELSE b[d]
  BY DEF Claim, Boards
<1>5. m # Empty /\ \A n \in Mark : n # Empty
  BY DEF Mark, Empty
<1>6. CellsOf(new, m) = CellsOf(b, m) \cup {c} /\ c \notin CellsOf(b, m)
  BY <1>4, <1>5 DEF CellsOf
<1>7. \A n \in Mark : n # m => CellsOf(new, n) = CellsOf(b, n)
  BY <1>4, <1>5 DEF CellsOf
<1>8. Cardinality(CellsOf(b, m) \cup {c}) = Cardinality(CellsOf(b, m)) + 1
  BY <1>3, <1>6, FS_AddElement
<1> QED BY <1>3, <1>6, <1>7, <1>8

-----------------------------------------------------------------------------
(* The inductive invariant: the code's turn is the grid's except while the   *)
(* MOVD of the last move are written, and its draw flags wait for the write  *)
(* that goes before them.                                                   *)

Count(m) == Cardinality(Marks(m))
GridTurn == IF Count("X") = Count("O") THEN 0 ELSE 1
Offer    == IF is_draw_suggested = 1 /\ result = "none"
            THEN {Other(draw_response_index)} ELSE {}

Balanced == Count("X") \in {Count("O"), Count("O") + 1}

TurnFollows ==
  GoesOn => turn = IF pc = "send" /\ after = "turn" THEN Other(GridTurn)
                                                    ELSE GridTurn

FlagsFollow ==
  pc = "send" => /\ after = "suggest" => is_draw_suggested = 0
                 /\ after = "reject"  => MustAnswer

NoLineYet == result = "none" => ~Won(board)

RInv == Balanced /\ TurnFollows /\ FlagsFollow /\ NoLineYet

LEMMA RulesInit == Init => RInv /\ Rules!Init
<1> SUFFICES ASSUME Init PROVE RInv /\ Rules!Init
  OBVIOUS
<1>1. \A c \in Cell : board[c] = Empty
  BY DEF Init, EmptyBoard
<1>2. \A m \in Mark : Marks(m) = {}
  BY <1>1 DEF Marks, Mark, Empty
<1>3. Count("X") = 0 /\ Count("O") = 0
  BY <1>2, FS_EmptySet DEF Count, Mark
<1>4. ~Won(board)
  <2> SUFFICES ASSUME NEW k \in 1..8, NEW m \in Mark,
                      \A c \in LineOrder[k] : board[c] = m
               PROVE  FALSE
    BY DEF Won, Completed
  <2>1. \A x : x \in 1..8 <=> x \in {1, 2, 3, 4, 5, 6, 7, 8}
    OBVIOUS
  <2>2. LineOrder[k] \subseteq Cell /\ LineOrder[k] # {}
    <3>1. {0, 1, 2, 3, 4, 5, 6, 7, 8} \subseteq Cell
      BY DEF Cell
    <3> QED BY <2>1, <3>1 DEF LineOrder
  <2>3. PICK c \in LineOrder[k] : c \in Cell
    BY <2>2
  <2> QED BY <1>1, <2>3 DEF Mark, Empty
<1>5. GridTurn = 0 /\ Balanced
  BY <1>3 DEF GridTurn, Balanced
<1>6. RInv
  BY <1>4, <1>5 DEF Init, RInv, TurnFollows, FlagsFollow, NoLineYet
<1>7. Rules!Init
  BY <1>5 DEF Init, Rules!Init, Rules!Cells, EmptyBoard, Cell, Empty, GridTurn, Count
<1> QED BY <1>6, <1>7

\* What the abstract game sees.
LEMMA RulesView ==
  /\ Rules!vars = <<board, GridTurn, Offer, result>>
  /\ Rules!vars' = <<board', GridTurn', Offer', result'>>
BY DEF Rules!vars, GridTurn, Offer, Count

\* A step that leaves the grid, the flags and the result alone is none of the
\* abstract game.
LEMMA Unseen ==
  ASSUME RInv, UNCHANGED <<board, is_draw_suggested, draw_response_index, result>>
  PROVE  /\ UNCHANGED Rules!vars
         /\ GridTurn' = GridTurn /\ Balanced' /\ NoLineYet'
<1>1. GridTurn' = GridTurn /\ Offer' = Offer
  BY DEF GridTurn, Offer, Count, Marks
<1>2. Balanced' /\ NoLineYet'
  BY DEF RInv, Balanced, NoLineYet, Count, Marks
<1> QED BY <1>1, <1>2, RulesView

LEMMA QuietStep ==
  ASSUME IInv, RInv,
         \/ UNCHANGED vars \/ Choose \/ PollInterrupted \/ GetMessageFails
         \/ SendFails \/ CloseSocket \/ \E i \in Player : Client(i)
  PROVE  RInv' /\ UNCHANGED Rules!vars
<1>1. /\ UNCHANGED <<board, turn, is_draw_suggested, draw_response_index, result>>
      /\ \/ UNCHANGED <<pc, after, index>>
         \/ pc = "poll" /\ pc' = "recv"
         \/ pc' \in {"free", "done"}
         \/ pc' = "send" /\ after' = "break"
  BY DEF vars, thread, control, Choose, PollInterrupted, GetMessageFails, Reply,
         SendFails, CloseSocket, Client, ClientSend, ClientClose, ConnectionReset
<1>2. UNCHANGED Rules!vars /\ GridTurn' = GridTurn /\ Balanced' /\ NoLineYet'
  BY <1>1, Unseen
<1>3. TurnFollows'
  BY <1>1, <1>2 DEF RInv, TurnFollows, GoesOn
<1>4. FlagsFollow'
  BY <1>1 DEF RInv, FlagsFollow, MustAnswer
<1> QED BY <1>2, <1>3, <1>4 DEF RInv

\* A message that is refused or passed on.
LEMMA MessageStep ==
  ASSUME IInv, RInv,
         \/ DrawReject \/ DrawSuggest
         \/ \E action \in DrawActions : DrawRefused(action)
         \/ \E rol \in Mark : MoveRefused(rol)
         \/ \E m \in MoveFields : MoveOccupied(m[1], m[2])
         \/ Unexpected
  PROVE  RInv' /\ UNCHANGED Rules!vars
<1>1. /\ UNCHANGED <<board, turn, is_draw_suggested, draw_response_index, index, result>>
      /\ pc = "recv" /\ pc' = "send"
      /\ \/ after' = "loop"
         \/ after' = "suggest" /\ is_draw_suggested = 0
         \/ after' = "reject" /\ MustAnswer
  BY DEF thread, Reply, Refuse, Received, DrawReject, DrawSuggest, DrawRefused,
         MoveRefused, MoveOccupied, Unexpected
<1>2. UNCHANGED Rules!vars /\ GridTurn' = GridTurn /\ Balanced' /\ NoLineYet'
  BY <1>1, Unseen
<1>3. TurnFollows'
  BY <1>1, <1>2 DEF RInv, TurnFollows, GoesOn
<1>4. FlagsFollow'
  BY <1>1 DEF FlagsFollow, MustAnswer
<1> QED BY <1>2, <1>3, <1>4 DEF RInv

LEMMA PlayersOfRules ==
  /\ Rules!Player = Player
  /\ \A i \in Player : Rules!Other(i) = Other(i) /\ Rules!MarkOf(i) = role[i]
  /\ \A i \in Player : Other(Other(i)) = i
BY DEF Rules!Player, Player, Rules!Other, Other, Rules!MarkOf, role

\* RSGN and DRAW A end the game.
LEMMA EndingStep ==
  ASSUME IInv, RInv, Resign \/ DrawAccept
  PROVE  RInv' /\ Rules!Next
<1>1. /\ index \in Player /\ draw_response_index \in Player
      /\ pc = "recv" /\ result = "none"
  BY ReceivedFacts DEF Resign, DrawAccept, IInv, TypeOK
<1>2. /\ UNCHANGED <<board, is_draw_suggested, draw_response_index>>
      /\ pc' = "send" /\ after' = "break"
  BY DEF Resign, DrawAccept, Reply, thread
<1>3. GridTurn' = GridTurn /\ Balanced'
  BY <1>2 DEF RInv, GridTurn, Balanced, Count, Marks
<1>4. result' # "none"
  BY <1>1, Players DEF Resign, DrawAccept, Mark
<1>5. RInv'
  BY <1>2, <1>3, <1>4 DEF RInv, TurnFollows, FlagsFollow, NoLineYet, GoesOn
<1>6. Offer' = {}
  BY <1>4 DEF Offer
<1>7. CASE Resign
  <2>1. result' = Rules!MarkOf(Rules!Other(index))
    BY <1>1, <1>7, Players, PlayersOfRules DEF Resign
  <2>2. Rules!Resign(index)
    BY <1>1, <1>2, <1>3, <1>6, <2>1 DEF Rules!Resign, Offer, GridTurn, Count
  <2> QED BY <1>1, <1>5, <2>2, PlayersOfRules DEF Rules!Next
<1>8. CASE DrawAccept
  <2>1. Offer = {Rules!Other(index)} /\ result' = "agreed"
    BY <1>1, <1>8, PlayersOfRules DEF DrawAccept, MustAnswer, Offer
  <2>2. Rules!Accept(index)
    BY <1>1, <1>2, <1>3, <1>6, <2>1 DEF Rules!Accept, Offer, GridTurn, Count
  <2> QED BY <1>1, <1>5, <2>2, PlayersOfRules DEF Rules!Next
<1> QED BY <1>7, <1>8

\* MOVE: the mark is made and the abstract turn passes at once.
LEMMA MoveStep ==
  ASSUME IInv, RInv, NEW rol \in Mark, NEW cell \in Cell, Move(rol, cell)
  PROVE  RInv' /\ Rules!Next
<1>1. /\ index \in Player /\ pc = "recv" /\ result = "none"
      /\ board \in Boards /\ board[cell] = Empty
      /\ is_draw_suggested = 0 /\ rol = role[index] /\ turn = index
  BY ReceivedFacts DEF Move, MayMove, CanClaim, IInv, TypeOK
<1>2. PICK new : new = board'
  OBVIOUS
<1>3. /\ new = Claim(board, rol, cell)
      /\ UNCHANGED <<turn, is_draw_suggested, draw_response_index, index>>
      /\ pc' = "send"
      /\ \/ Status(new) = "W" /\ result' = Winner(new) /\ after' = "break"
         \/ Status(new) = "D" /\ result' = "full" /\ after' = "break"
         \/ Status(new) = "N" /\ result' = result /\ after' = "turn"
  BY <1>2 DEF Move, Reply
<1>4. GridTurn = index
  BY <1>1 DEF RInv, TurnFollows, GoesOn
<1>5. Balanced' /\ GridTurn' = Other(index)
  <2> DEFINE x == Cardinality(CellsOf(board, "X"))
             o == Cardinality(CellsOf(board, "O"))
             x1 == Cardinality(CellsOf(new, "X"))
             o1 == Cardinality(CellsOf(new, "O"))
  <2>1. Count("X") = x /\ Count("O") = o /\ Count("X")' = x1 /\ Count("O")' = o1
    BY <1>2 DEF Count, Marks, CellsOf
  <2>2. /\ x \in Nat /\ o \in Nat
        /\ rol = "X" => x1 = x + 1 /\ o1 = o
        /\ rol = "O" => o1 = o + 1 /\ x1 = x
    BY <1>1, <1>3, CountClaim DEF Mark
  <2> HIDE DEF x, o, x1, o1
  <2>3. x = o \/ x = o + 1
    BY <2>1 DEF RInv, Balanced
  <2>4. CASE index = 0
    <3>1. rol = "X" /\ x = o
      BY <1>1, <1>4, <2>1, <2>4 DEF role, Player, GridTurn
    <3> QED BY <2>1, <2>2, <2>4, <3>1 DEF Balanced, GridTurn, Other
  <2>5. CASE index = 1
    <3>1. rol = "O" /\ x = o + 1
      BY <1>1, <1>4, <2>1, <2>3, <2>5 DEF role, Player, GridTurn
    <3> QED BY <2>1, <2>2, <2>5, <3>1 DEF Balanced, GridTurn, Other
  <2> QED BY <1>1, <2>4, <2>5 DEF Player
<1>6. /\ Won(new) => Winner(new) = rol
      /\ Won(new) <=> Rules!HasLine(new, index)
  <2>1. rol = Rules!MarkOf(index)
    BY <1>1, PlayersOfRules
  <2>2. ~Won(board)
    BY <1>1 DEF RInv, NoLineYet
  <2>3. /\ Won(new) => Winner(new) = rol
        /\ Won(new) <=> \E k \in 1..8 : \A d \in LineOrder[k] : new[d] = rol
    BY <1>1, <1>3, <2>2, MoverWins
  <2> QED BY <2>1, <2>3, Geometry
<1>7. result' = IF Rules!HasLine(board', index) THEN Rules!MarkOf(index)
                ELSE IF \A d \in Rules!Cells : board'[d] # "." THEN "full"
                ELSE "none"
  <2>1. Full(new) <=> \A d \in Rules!Cells : new[d] # "."
    BY DEF Full, Cell, Rules!Cells, Empty
  <2>2. Rules!MarkOf(index) = rol
    BY <1>1, PlayersOfRules
  <2> QED BY <1>1, <1>2, <1>3, <1>6, <2>1, <2>2 DEF Status
<1>8. Rules!Move(index, cell)
  <2>1. Offer = {} /\ Offer' = {}
    BY <1>1, <1>3 DEF Offer
  <2>2. board' = [board EXCEPT ![cell] = Rules!MarkOf(index)] /\ board[cell] = "."
    BY <1>1, <1>2, <1>3, PlayersOfRules DEF Claim, Empty
  <2> QED
    BY <1>1, <1>4, <1>5, <1>7, <2>1, <2>2, PlayersOfRules
    DEF Rules!Move, Offer, GridTurn, Count
<1>9. NoLineYet'
  <2>1. rol # "none"
    BY DEF Mark
  <2> QED BY <1>2, <1>3, <1>6, <2>1 DEF NoLineYet, Status
<1>10. TurnFollows' /\ FlagsFollow'
  BY <1>1, <1>3, <1>5, PlayersOfRules DEF TurnFollows, FlagsFollow, GoesOn
<1>11. index \in Rules!Player /\ cell \in Rules!Cells
  BY <1>1, PlayersOfRules DEF Cell, Rules!Cells
<1> QED BY <1>5, <1>8, <1>9, <1>10, <1>11 DEF RInv, Rules!Next

\* The last write of a handler: the code's turn and draw flags follow.
LEMMA WriteStep ==
  ASSUME IInv, RInv, Send
  PROVE  RInv' /\ (Rules!Next \/ UNCHANGED Rules!vars)
<1>1. /\ pc = "send" /\ UNCHANGED <<board, index, after, result>>
      /\ index \in Player /\ turn \in Player /\ draw_response_index \in Player
      /\ after \in {"loop", "break", "turn", "suggest", "reject"}
  BY DEF Send, IInv, TypeOK
<1>2. GridTurn' = GridTurn /\ Balanced' /\ NoLineYet'
  BY <1>1 DEF RInv, GridTurn, Balanced, NoLineYet, Count, Marks
<1>3. CASE outq' # <<>>
  <2>1. UNCHANGED <<pc, turn, is_draw_suggested, draw_response_index>>
    BY <1>3 DEF Send
  <2>2. UNCHANGED Rules!vars
    BY <1>1, <2>1, Unseen
  <2>3. TurnFollows' /\ FlagsFollow'
    BY <1>1, <1>2, <2>1 DEF RInv, TurnFollows, FlagsFollow, GoesOn, MustAnswer
  <2> QED BY <1>2, <2>2, <2>3 DEF RInv
<1>4. CASE outq' = <<>>
  <2>1. Finish
    BY <1>4 DEF Send
  <2>2. pc' = IF after = "break" THEN "free" ELSE "poll"
    BY <2>1 DEF Finish
  <2>3. FlagsFollow'
    BY <2>2 DEF FlagsFollow
  <2>4. TurnFollows'
    <3>1. CASE after = "turn"
      <4>1. turn = Other(GridTurn) /\ turn' = Other(turn)
        BY <1>1, <2>1, <3>1 DEF RInv, TurnFollows, GoesOn, Finish
      <4>2. GridTurn \in Player
        BY DEF GridTurn, Player
      <4> QED BY <1>2, <2>2, <3>1, <4>1, <4>2, PlayersOfRules DEF TurnFollows
    <3>2. CASE after # "turn"
      <4>1. turn' = turn /\ (after # "break" => turn = GridTurn)
        BY <1>1, <2>1, <3>2 DEF RInv, TurnFollows, GoesOn, Finish
      <4> QED BY <1>2, <2>2, <3>2, <4>1 DEF TurnFollows, GoesOn
    <3> QED BY <3>1, <3>2
  <2>5. RInv'
    BY <1>2, <2>3, <2>4 DEF RInv
  <2>6. after \in {"suggest", "reject"} => result = "none"
    BY <1>1 DEF IInv, DecidedOK
  <2>7. CASE after = "suggest"
    <3>1. /\ is_draw_suggested = 0 /\ is_draw_suggested' = 1
          /\ draw_response_index' = Other(index)
      BY <1>1, <2>1, <2>7 DEF RInv, FlagsFollow, Finish
    <3>2. Offer = {} /\ Offer' = {index}
      BY <1>1, <2>6, <2>7, <3>1, PlayersOfRules DEF Offer
    <3>3. Rules!Suggest(index)
      BY <1>1, <1>2, <2>6, <2>7, <3>2 DEF Rules!Suggest, Offer, GridTurn, Count
    <3> QED BY <1>1, <2>5, <3>3, PlayersOfRules DEF Rules!Next
  <2>8. CASE after = "reject"
    <3>1. is_draw_suggested' = 0 /\ MustAnswer
      BY <1>1, <2>1, <2>8 DEF RInv, FlagsFollow, Finish
    <3>2. Offer = {Rules!Other(index)} /\ Offer' = {}
      BY <1>1, <2>6, <2>8, <3>1, PlayersOfRules DEF Offer, MustAnswer
    <3>3. Rules!Reject(index)
      BY <1>1, <1>2, <2>6, <2>8, <3>2 DEF Rules!Reject, Offer, GridTurn, Count
    <3> QED BY <1>1, <2>5, <3>3, PlayersOfRules DEF Rules!Next
  <2>9. CASE after \notin {"suggest", "reject"}
    <3>1. UNCHANGED <<is_draw_suggested, draw_response_index>>
      BY <2>1, <2>9 DEF Finish
    <3> QED BY <1>1, <2>5, <3>1, Unseen
  <2> QED BY <2>7, <2>8, <2>9
<1> QED BY <1>3, <1>4

LEMMA RulesNext ==
  IInv /\ RInv /\ [Next]_vars => RInv' /\ [Rules!Next]_(Rules!vars)
<1> SUFFICES ASSUME IInv, RInv, [Next]_vars
             PROVE  RInv' /\ (Rules!Next \/ UNCHANGED Rules!vars)
  OBVIOUS
<1>1. CASE \/ UNCHANGED vars \/ Choose \/ PollInterrupted \/ GetMessageFails
           \/ SendFails \/ CloseSocket \/ \E i \in Player : Client(i)
  BY <1>1, QuietStep
<1>2. CASE Send
  BY <1>2, WriteStep
<1>3. CASE Handle
  <2>1. CASE \E m \in MoveFields : Move(m[1], m[2])
    <3>1. PICK rol \in Mark, cell \in Cell : Move(rol, cell)
      BY <2>1, GameAssumption DEF MoveFields
    <3> QED BY <3>1, MoveStep
  <2>2. CASE Resign \/ DrawAccept
    BY <2>2, EndingStep
  <2>3. CASE \/ DrawReject \/ DrawSuggest
             \/ \E action \in DrawActions : DrawRefused(action)
             \/ \E rol \in Mark : MoveRefused(rol)
             \/ \E m \in MoveFields : MoveOccupied(m[1], m[2])
             \/ Unexpected
    BY <2>3, MessageStep
  <2> QED BY <1>3, <2>1, <2>2, <2>3 DEF Handle
<1> QED BY <1>1, <1>2, <1>3 DEF Next, Thread, Terminated

\* The thread plays by the rules on the whole grid, whatever its clients send,
\* whenever they hang up, and whichever write fails.
THEOREM ImplementsRules == Spec => PlaysByTheRules
<1>1. Init => IInv /\ RInv /\ Rules!Init
  BY InitInv, RulesInit
<1>2. IInv /\ RInv /\ [Next]_vars => (IInv /\ RInv)' /\ [Rules!Next]_(Rules!vars)
  BY NextInv, RulesNext
<1> QED BY <1>1, <1>2, PTL DEF Spec, PlaysByTheRules, Rules!Spec

-----------------------------------------------------------------------------
(* OVER.                                                                    *)

\* What is still owed when a game is decided.
OverOwed ==
  result # "none" =>
    \A i \in Player : (peer[i] = "up" /\ told[i] = "none")
      => \/ peer[Other(i)] = "reset"
         \/ \E k \in DOMAIN outq : outq[k].to = i

LEMMA OverOwedSend == ASSUME IInv, OverOwed, Send PROVE OverOwed'
<1> DEFINE m == Head(outq)
<1>1. outq \in Writes /\ outq # <<>>
  BY DEF Send, IInv, TypeOK, QueueOK, Writes
<1>2. /\ m = outq[1] /\ 1 \in DOMAIN outq
      /\ \A k \in DOMAIN outq :
           k = 1 \/ (k - 1 \in DOMAIN outq' /\ outq'[k - 1] = outq[k])
  BY <1>1 DEF Send, Writes
<1>3. Deliver(m) /\ peer' = peer /\ result' = result
  BY DEF Send, conns
<1>4. m \in [to : Player, kind : Kinds]
  BY <1>1, TailOfQueue DEF Writes
<1> HIDE DEF m
<1> SUFFICES ASSUME result # "none", NEW i \in Player, peer[i] = "up",
                    told'[i] = "none", peer[Other(i)] # "reset"
             PROVE  \E k \in DOMAIN outq' : outq'[k].to = i
  BY <1>3 DEF OverOwed
<1>5. Verdict(m.kind) # "none"
  <2>1. Verdict(m.kind) = Expected(result, m.to)
    BY <1>2 DEF IInv, DecidedOK
  <2> QED BY <2>1 DEF Expected
<1>6. m.to # i /\ told[i] = "none"
  <2>1. m.to = i => told'[i] = Verdict(m.kind)
    BY <1>3, <1>4, <1>5 DEF Deliver, IInv, TypeOK
  <2>2. m.to # i => told'[i] = told[i]
    BY <1>3, <1>4 DEF Deliver, history, IInv, TypeOK
  <2> QED BY <1>5, <2>1, <2>2
<1>7. PICK k \in DOMAIN outq : outq[k].to = i
  BY <1>6 DEF OverOwed
<1> QED BY <1>2, <1>6, <1>7

LEMMA OverOwedNext == IInv /\ OverOwed /\ [Next]_vars => OverOwed'
<1> SUFFICES ASSUME IInv, OverOwed, [Next]_vars PROVE OverOwed'
  OBVIOUS
<1>1. CASE UNCHANGED vars
  BY <1>1 DEF vars, control, conns, history, OverOwed
<1>2. CASE Choose \/ PollInterrupted
  BY <1>2 DEF Choose, PollInterrupted, conns, history, OverOwed
<1>3. CASE GetMessageFails
  BY <1>3 DEF GetMessageFails, OverOwed, IInv, DecidedOK
<1>4. CASE Handle
  <2>1. result' = result => OverOwed'
    <3>1. result = "none"
      BY <1>4, ReceivedFacts
      DEF Handle, Resign, DrawReject, DrawAccept, DrawSuggest, DrawRefused,
          MoveRefused, MoveOccupied, Move, Unexpected
    <3> QED BY <3>1 DEF OverOwed
  <2>2. ASSUME NEW i \in Player, NEW v, NEW w,
               outq' = <<To(i, v), To(Other(i), w)>>
        PROVE  OverOwed'
    <3>1. /\ DOMAIN outq' = {1, 2}
          /\ outq'[1].to = i /\ outq'[2].to = Other(i)
      BY <2>2 DEF To
    <3> QED BY <3>1, Players DEF OverOwed
  <2>3. 0 \in Player /\ 1 = Other(0) /\ index \in Player
    BY DEF Player, Other, IInv, TypeOK
  <2>4. CASE Resign \/ DrawAccept
    BY <2>2, <2>3, <2>4 DEF Resign, DrawAccept, Reply
  <2>5. CASE \E m \in MoveFields : Move(m[1], m[2])
    <3>1. PICK rol, cell : Move(rol, cell)
      BY <2>5
    <3> DEFINE winner == IF Winner(board') = role[index] THEN index ELSE Other(index)
    <3>2. winner \in Player
      BY <2>3, Players
    <3>3. \/ result' = result
          \/ outq' = <<To(winner, "OVER_W"), To(Other(winner), "OVER_L")>>
          \/ outq' = <<To(0, "OVER_D"), To(1, "OVER_D")>>
      BY <3>1 DEF Move, Reply
    <3> HIDE DEF winner
    <3> QED BY <2>1, <2>2, <2>3, <3>2, <3>3
  <2>6. CASE ~(Resign \/ DrawAccept \/ \E m \in MoveFields : Move(m[1], m[2]))
    BY <1>4, <2>1, <2>6
    DEF Handle, DrawReject, DrawSuggest, DrawRefused, MoveRefused, MoveOccupied,
        Unexpected
  <2> QED BY <2>4, <2>5, <2>6
<1>5. CASE Send
  BY <1>5, OverOwedSend
<1>6. CASE SendFails
  <2>1. outq \in Writes /\ outq # <<>>
    BY <1>6 DEF SendFails, IInv, TypeOK, QueueOK, Writes
  <2>2. Head(outq).to \in Player /\ peer[Head(outq).to] = "reset"
    <3>1. Head(outq) \in [to : Player, kind : Kinds]
      BY <2>1, TailOfQueue DEF Writes
    <3> QED BY <1>6, <3>1 DEF SendFails
  <2>3. \A i \in Player : peer[i] = "reset" \/ peer[Other(i)] = "reset"
    BY <2>2, Players
  <2> QED BY <1>6, <2>3 DEF SendFails, conns, OverOwed
<1>7. CASE CloseSocket
  BY <1>7 DEF CloseSocket, history, OverOwed
<1>8. CASE \E i \in Player : Client(i)
  <2>1. \A j \in Player : /\ peer'[j] = "up" => peer[j] = "up"
                          /\ peer[j] = "reset" => peer'[j] = "reset"
    BY <1>8 DEF Client, ClientSend, ClientClose, ConnectionReset, IInv, TypeOK
  <2>2. UNCHANGED <<control, result, history>>
    BY <1>8 DEF Client, ClientSend, ClientClose, ConnectionReset
  <2> QED BY <2>1, <2>2, Players DEF control, history, OverOwed
<1> QED
  BY <1>1, <1>2, <1>3, <1>4, <1>5, <1>6, <1>7, <1>8 DEF Next, Thread, Terminated

\* When the thread is done with a decided game, a client that is still there and
\* was not told lost its OVER to the other's reset, and to nothing else.
THEOREM OverSent == Spec => []OverReachesBoth
<1>1. Init => IInv /\ OverOwed
  BY InitInv DEF Init, OverOwed
<1>2. IInv /\ OverOwed /\ [Next]_vars => (IInv /\ OverOwed)'
  BY NextInv, OverOwedNext
<1>3. IInv /\ OverOwed => OverReachesBoth
  <2> SUFFICES ASSUME IInv, OverOwed, pc = "done" PROVE OverReachesBoth
    BY DEF OverReachesBoth
  <2>1. outq = <<>>
    BY DEF IInv, QueueOK
  <2>2. DOMAIN outq = {}
    BY <2>1
  <2> QED BY <2>2 DEF OverOwed, OverReachesBoth
<1> QED BY <1>1, <1>2, <1>3, PTL DEF Spec
=============================================================================
