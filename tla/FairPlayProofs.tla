---------------------------- MODULE FairPlayProofs ---------------------------
(***************************************************************************)
(* Proofs about Matches, for any cells and any bound on the messages: a    *)
(* client that follows the requirements is told INVL only when its request *)
(* crossed a suggestion, and finds no message that it did not expect.      *)
(***************************************************************************)
EXTENDS Matches, GameProofs

-----------------------------------------------------------------------------
(* Messages under way.                                                      *)

Has(s, S)  == \E k \in DOMAIN s : s[k] \in S
Once(s, S) == \A j, k \in DOMAIN s : s[j] \in S /\ s[k] \in S => j = k

\* What a fair client writes: requests and answers.
MovesOf(i) == {MOVE(role[i], c) : c \in Attempts}
Asked(i)   == {RSGN, DRAW("S")} \cup MovesOf(i)
Answered   == {DRAW("A"), DRAW("R")}

\* What it finds.
Items == [kind : Kinds, board : Boards, error : {"none", "occupied", "!protocol"}]
OfKind(kinds) == {m \in Items : m.kind \in kinds}
Own(i)      == {m \in OfKind({"MOVD"}) : Mine(i, m.board)}
Theirs(i)   == {m \in OfKind({"MOVD"}) : ~Mine(i, m.board)}
ReplyTo(i)  == OfKind({"INVL", "DRAW_R"}) \cup Own(i)
Suggestions == OfKind({"DRAW_S"})
Outcomes    == OfKind({"OVER_W", "OVER_L", "OVER_D"})

-----------------------------------------------------------------------------
(* The inductive invariant.                                                 *)

FairTypes ==
  /\ peer = [i \in Player |-> "up"]
  /\ known \in [Player -> Boards]
  /\ awaiting \in [Player -> {"nothing", "MOVE", "DRAW S", "RSGN"}]
  /\ suggested \subseteq Player
  /\ ended \in [Player -> {"no", "OVER", "drop"}]
  /\ DOMAIN sent = Player /\ DOMAIN mail = Player
  /\ \A i \in Player : /\ sent[i] \in Seq(Asked(i) \cup Answered)
                       /\ mail[i] \in Seq(Items)
  /\ error \in {"none", "occupied", "!protocol"}

\* The messages counted by the thread are those that were written.
Counted ==
  /\ \A i \in Player : Len(sent[i]) = msg_buffer[i] + inbox[i]
  /\ pc = "recv" => sent[index] # <<>>

\* A request is with the thread, is being replied to, is an offer the other
\* has to answer, or its reply has not been read: never two of these.
Queued(i, kind) == \E k \in DOMAIN outq : outq[k] = To(i, kind)
Offering(i) == \/ OnOffer(Other(i))
               \/ pc = "send" /\ after = "suggest" /\ index = i
Replying(i) == Queued(i, "INVL") \/ (Queued(i, "MOVD") /\ Mine(i, board))
OneRequest(i) ==
  /\ Once(sent[i], Asked(i))
  /\ Has(sent[i], Asked(i)) => /\ ~Replying(i) /\ ~Offering(i)
                               /\ ~Has(mail[i], ReplyTo(i))
  /\ Replying(i) => ~Offering(i) /\ ~Has(mail[i], ReplyTo(i))
  /\ Offering(i) => ~Has(mail[i], ReplyTo(i))

\* And the client knows which request it was.
Awaited(i) ==
  /\ Has(sent[i], {RSGN}) => awaiting[i] = "RSGN"
  /\ Has(sent[i], {DRAW("S")}) \/ Offering(i) => awaiting[i] = "DRAW S"
  /\ Has(sent[i], MovesOf(i)) \/ (Queued(i, "MOVD") /\ Mine(i, board))
       => awaiting[i] = "MOVE"
  /\ Queued(i, "INVL") => offered[i] /\ awaiting[i] \in {"MOVE", "DRAW S"}

\* The suggestion that a client has to answer is unread, being thought about
\* or answered.
Rejecting(i) == pc = "send" /\ after = "reject" /\ index = i
OneSuggestion(i) ==
  /\ Once(sent[i], Answered)
  /\ Has(sent[i], Answered) => i \notin suggested /\ ~Has(mail[i], Suggestions)
  /\ Has(sent[i], Answered) \/ i \in suggested \/ Has(mail[i], Suggestions)
       => OnOffer(i) /\ ~Rejecting(i)

\* The grid a client knows is that of the thread but for the MOVD under way.
Grids(i) ==
  /\ Queued(i, "MOVD") \/ Has(mail[i], Own(i) \cup Theirs(i)) \/ known[i] = board
  /\ \A k \in DOMAIN mail[i] : mail[i][k] \in Theirs(i) =>
       mail[i][k].board = board /\ ~Queued(i, "MOVD")
  /\ \A k \in DOMAIN mail[i] : mail[i][k] \in Own(i) =>
       Queued(i, "MOVD") \/ Has(mail[i], Theirs(i)) \/ mail[i][k].board = board
  /\ Queued(i, "MOVD") /\ ~Mine(i, board)
       => Has(mail[i], Own(i)) \/ ~ItsTurn(i, known[i])
  /\ \A c \in Attempts : Has(sent[i], {MOVE(role[i], c)}) => CanClaim(known[i], c)

Round(i) == OneRequest(i) /\ Awaited(i) /\ OneSuggestion(i) /\ Grids(i)

GoingOn == result = "none" => \A i \in Player : Round(i)

\* Also when the game is over and the client has not read so yet: what it
\* finds is one reply to its request and one suggestion, and a client that is
\* behind knows that it may not move.
Mail(i) ==
  /\ Once(mail[i], ReplyTo(i))
  /\ \A k \in DOMAIN mail[i] : mail[i][k] \in ReplyTo(i) => Replies(i, mail[i][k])
  /\ Once(mail[i], Suggestions)
  /\ Has(mail[i], Suggestions) => i \notin suggested
  /\ Once(mail[i], Theirs(i))
  /\ \A j, k \in DOMAIN mail[i] :
       mail[i][j] \in Own(i) /\ mail[i][k] \in Theirs(i) => j < k
  /\ Has(mail[i], Theirs(i)) => Has(mail[i], Own(i)) \/ ~ItsTurn(i, known[i])
  /\ awaiting[i] = "MOVE" => ItsTurn(i, known[i])

Mails == \A i \in Player : ended[i] = "no" => Mail(i)

\* The game ends decided, and a client that was told finds OVER, unless its
\* own last words crossed it and drew a reset.
Endings ==
  /\ pc = "send" /\ after = "break" => result # "none"
  /\ pc \in {"free", "done"} => result # "none"
  /\ open = IF pc = "done" THEN {} ELSE IF pc = "free" THEN open ELSE Player
  /\ pc = "free" => open \in {{0, 1}, {1}}
  /\ \A j, k \in DOMAIN outq : outq[j].to = outq[k].to => j = k
  /\ late \cap open = {}
  /\ \A i \in Player :
       /\ ended[i] # "no" \/ Has(mail[i], Outcomes) => told[i] # "none"
       /\ told[i] # "none" /\ ended[i] = "no" =>
            \/ mail[i] # <<>> /\ mail[i][Len(mail[i])] \in Outcomes
            \/ Crossed(i) /\ mail[i] = <<>>
       /\ ended[i] = "drop" => Crossed(i)

FInv == FairTypes /\ Counted /\ GoingOn /\ Mails /\ Endings

-----------------------------------------------------------------------------
(* Sequences of messages.                                                   *)

LEMMA NoneInEmpty == ASSUME NEW S PROVE ~Has(<<>>, S) /\ Once(<<>>, S)
  BY DEF Has, Once

LEMMA InAppend ==
  ASSUME NEW T, NEW s \in Seq(T), NEW x \in T, NEW S
  PROVE  /\ Has(Append(s, x), S) <=> Has(s, S) \/ x \in S
         /\ Once(Append(s, x), S) <=> Once(s, S) /\ (x \in S => ~Has(s, S))
<1> DEFINE t == Append(s, x)
<1>1. /\ t \in Seq(T) /\ DOMAIN t = 1..(Len(s) + 1) /\ DOMAIN s = 1..Len(s)
      /\ Len(s) \in Nat
      /\ \A k \in DOMAIN s : t[k] = s[k]
      /\ t[Len(s) + 1] = x
  OBVIOUS
<1> HIDE DEF t
<1>2. /\ \A k \in DOMAIN s : k \in DOMAIN t /\ k # Len(s) + 1
      /\ \A k \in DOMAIN t : k \in DOMAIN s \/ k = Len(s) + 1
      /\ Len(s) + 1 \in DOMAIN t
  BY <1>1
<1>3. Has(t, S) <=> Has(s, S) \/ x \in S
  BY <1>1, <1>2 DEF Has
<1>4. Once(t, S) <=> Once(s, S) /\ (x \in S => ~Has(s, S))
  <2>1. ASSUME Once(t, S) PROVE Once(s, S) /\ (x \in S => ~Has(s, S))
    BY <1>1, <1>2, <2>1 DEF Has, Once
  <2>2. ASSUME Once(s, S), x \in S => ~Has(s, S) PROVE Once(t, S)
    BY <1>1, <1>2, <2>2 DEF Has, Once
  <2> QED BY <2>1, <2>2
<1> QED BY <1>3, <1>4 DEF t

LEMMA InTail ==
  ASSUME NEW T, NEW s \in Seq(T), s # <<>>, NEW S
  PROVE  /\ Has(s, S) <=> Head(s) \in S \/ Has(Tail(s), S)
         /\ Once(s, S) => /\ Once(Tail(s), S)
                          /\ Head(s) \in S => ~Has(Tail(s), S)
<1> DEFINE t == Tail(s)
<1>1. /\ \A k \in DOMAIN t : k + 1 \in DOMAIN s /\ t[k] = s[k + 1]
      /\ \A k \in DOMAIN s : k = 1 \/ (k - 1 \in DOMAIN t /\ t[k - 1] = s[k])
      /\ 1 \in DOMAIN s /\ Head(s) = s[1]
      /\ DOMAIN s \subseteq Nat /\ DOMAIN t \subseteq Nat /\ 0 \notin DOMAIN t
  OBVIOUS
<1> HIDE DEF t
<1>2. Has(s, S) <=> Head(s) \in S \/ Has(t, S)
  <2>1. ASSUME NEW k \in DOMAIN s, s[k] \in S PROVE Head(s) \in S \/ Has(t, S)
    BY <1>1, <2>1 DEF Has
  <2>2. ASSUME NEW k \in DOMAIN t, t[k] \in S PROVE Has(s, S)
    BY <1>1, <2>2 DEF Has
  <2> QED BY <1>1, <2>1, <2>2 DEF Has
<1>3. ASSUME Once(s, S)
      PROVE  Once(t, S) /\ (Head(s) \in S => ~Has(t, S))
  <2>1. \A j, k \in DOMAIN t : j + 1 = k + 1 => j = k
    BY <1>1
  <2>2. Once(t, S)
    BY <1>1, <1>3, <2>1 DEF Once
  <2>3. \A k \in DOMAIN t : k + 1 # 1
    BY <1>1
  <2>4. Head(s) \in S => ~Has(t, S)
    BY <1>1, <1>3, <2>3 DEF Once, Has
  <2> QED BY <2>2, <2>4
<1> QED BY <1>2, <1>3 DEF t

LEMMA LastStays ==
  ASSUME NEW T, NEW s \in Seq(T), s # <<>>, Len(s) # 1
  PROVE  Tail(s) # <<>> /\ Tail(s)[Len(Tail(s))] = s[Len(s)]
<1> DEFINE t == Tail(s)
<1>1. /\ \A k \in DOMAIN t : t[k] = s[k + 1]
      /\ DOMAIN t = 1..Len(t) /\ Len(t) \in Nat /\ Len(t) + 1 = Len(s)
      /\ DOMAIN <<>> = {}
  OBVIOUS
<1> HIDE DEF t
<1>2. Len(t) \in DOMAIN t
  BY <1>1
<1> QED BY <1>1, <1>2 DEF t

LEMMA InSubset ==
  ASSUME NEW s, NEW S, NEW R, S \subseteq R
  PROVE  Has(s, S) => Has(s, R)
  BY DEF Has

LEMMA HasOne ==
  ASSUME NEW s, NEW S, NEW k \in DOMAIN s, s[k] \in S
  PROVE  Has(s, S)
  BY DEF Has

-----------------------------------------------------------------------------
(* Kinds of messages.                                                       *)

LEMMA Requesting ==
  ASSUME NEW i \in Player
  PROVE  /\ \A m \in Asked(i) : m \notin Answered
         /\ \A m \in MovesOf(i) : /\ m.code = "MOVE" /\ m.role = role[i]
                                  /\ m.cell \in Attempts /\ m = MOVE(role[i], m.cell)
                                  /\ m # RSGN /\ m # DRAW("S") /\ m \in Asked(i)
         /\ RSGN.code = "RSGN" /\ RSGN \in Asked(i)
         /\ \A a : DRAW(a).code = "DRAW" /\ DRAW(a).action = a
         /\ DRAW("S") \in Asked(i)
         /\ \A c, d : MOVE(role[i], c) = MOVE(role[i], d) => c = d
         /\ RSGN # DRAW("S")
<1>1. /\ RSGN.code = "RSGN"
      /\ \A a : DRAW(a).code = "DRAW" /\ DRAW(a).action = a
      /\ \A c : /\ MOVE(role[i], c).code = "MOVE" /\ MOVE(role[i], c).role = role[i]
                /\ MOVE(role[i], c).cell = c
  BY DEF RSGN, DRAW, MOVE
<1>2. /\ RSGN # DRAW("S") /\ DRAW("S") # DRAW("A") /\ DRAW("S") # DRAW("R")
      /\ RSGN # DRAW("A") /\ RSGN # DRAW("R")
  BY <1>1
<1>3. \A m \in MovesOf(i) : /\ m.code = "MOVE" /\ m.role = role[i]
                           /\ m.cell \in Attempts /\ m = MOVE(role[i], m.cell)
  BY <1>1 DEF MovesOf
<1>4. \A m \in MovesOf(i) : m # RSGN /\ \A a : m # DRAW(a)
  BY <1>1, <1>3
<1>5. \A m \in Asked(i) : m \notin Answered
  BY <1>2, <1>4 DEF Asked, Answered
<1>6. \A c, d : MOVE(role[i], c) = MOVE(role[i], d) => c = d
  BY <1>1
<1> QED BY <1>1, <1>2, <1>3, <1>4, <1>5, <1>6 DEF Asked

LEMMA Finding ==
  ASSUME NEW i \in Player
  PROVE  /\ \A m \in Items : /\ m.kind \in Kinds /\ m.board \in Boards
                             /\ m \in Own(i) => m \notin Theirs(i)
         /\ \A m \in Items : /\ m.kind = "MOVD" <=> m \in Own(i) \cup Theirs(i)
                             /\ m \in Own(i) => m.kind = "MOVD" /\ Mine(i, m.board)
                             /\ m \in Theirs(i) => m.kind = "MOVD" /\ ~Mine(i, m.board)
                             /\ m \in ReplyTo(i) <=> \/ m.kind \in {"INVL", "DRAW_R"}
                                                     \/ m \in Own(i)
                             /\ m \in Suggestions <=> m.kind = "DRAW_S"
                             /\ m \in Outcomes <=> Verdict(m.kind) # "none"
  BY DEF Items, Own, Theirs, OfKind, ReplyTo, Suggestions, Outcomes, Verdict, Kinds

LEMMA Turnwise ==
  ASSUME NEW i \in Player, NEW b \in Boards
  PROVE  /\ Mine(i, b) = ItsTurn(Other(i), b)
         /\ ~(ItsTurn(i, b) /\ Mine(i, b))
<1>1. Other(0) = 1 /\ Other(1) = 0 /\ i \in {0, 1}
  BY DEF Other, Player
<1>2. MarksOn(b, "X") \in Nat /\ MarksOn(b, "O") \in Nat
  <2>1. "X" \in Mark /\ "O" \in Mark
    BY DEF Mark
  <2>2. \A m : MarksOn(b, m) = Cardinality(CellsOf(b, m))
    BY DEF MarksOn, CellsOf
  <2>3. IsFiniteSet(0..8)
    <3>1. 0 \in Int /\ 8 \in Int
      OBVIOUS
    <3> QED BY <3>1, FS_Interval
  <2>4. \A m : CellsOf(b, m) \subseteq 0..8
    BY DEF CellsOf, Cell
  <2> QED BY <2>2, <2>3, <2>4, FS_Subset, FS_CardinalityType
<1> QED BY <1>1, <1>2 DEF Mine, ItsTurn

-----------------------------------------------------------------------------
(* The steps of the thread are those of Game.                               *)

SafeGame == IInv /\ Owed /\ RInv /\ OverOwed

\* Between two handlers the thread and the clients agree.
LEMMA Listening ==
  ASSUME FInv, SafeGame, pc \in {"poll", "recv"}
  PROVE  /\ result = "none" /\ outq = <<>>
         /\ \A i \in Player : /\ offered[i] = OnOffer(i)
                              /\ \A k : ~Queued(i, k)
                              /\ ItsTurn(i, board) <=> turn = i
<1>1. result = "none"
  BY DEF SafeGame, IInv, DecidedOK
<1>2. BothUp
  BY DEF FInv, FairTypes, BothUp
<1>3. outq = <<>> /\ \A i \in Player : offered[i] = OnOffer(i)
  BY <1>2, NothingOwed DEF SafeGame
<1>4. \A i \in Player : \A k : ~Queued(i, k)
  BY <1>3 DEF Queued
<1>5. \A i \in Player : ItsTurn(i, board) <=> turn = i
  <2>1. turn = GridTurn
    BY DEF SafeGame, RInv, TurnFollows, GoesOn
  <2>2. MarksOn(board, "X") = Count("X") /\ MarksOn(board, "O") = Count("O")
    BY DEF MarksOn, Count, Marks
  <2>3. Count("X") \in {Count("O"), Count("O") + 1}
    BY DEF SafeGame, RInv, Balanced
  <2>4. Count("O") \in Nat
    <3>1. board \in Boards /\ 0 \in Cell /\ "X" \in Mark /\ "O" \in Mark
      BY DEF SafeGame, IInv, TypeOK, Cell, Mark
    <3>2. IsFiniteSet(0..8)
      <4>1. 0 \in Int /\ 8 \in Int
        OBVIOUS
      <4> QED BY <4>1, FS_Interval
    <3> QED BY <3>2, FS_Subset, FS_CardinalityType DEF Count, Marks, Cell
  <2> QED BY <2>1, <2>2, <2>3, <2>4 DEF ItsTurn, GridTurn, Player
<1> QED BY <1>1, <1>3, <1>4, <1>5

\* Nobody knows of the end of a game that goes on.
LEMMA Unended ==
  ASSUME FInv, SafeGame, result = "none", NEW i \in Player
  PROVE  /\ ended[i] = "no" /\ told[i] = "none" /\ Mail(i) /\ i \in open
         /\ ~Has(mail[i], Outcomes)
<1>1. told[i] = "none"
  BY DEF SafeGame, IInv, UndecidedOK
<1>2. ended[i] = "no" /\ ~Has(mail[i], Outcomes)
  BY <1>1 DEF FInv, Endings
<1>3. pc \notin {"free", "done"}
  BY DEF FInv, Endings
<1> QED BY <1>1, <1>2, <1>3 DEF FInv, Endings, Mails

LEMMA OneOffer ==
  ASSUME SafeGame, NEW i \in Player
  PROVE  /\ OnOffer(i) => is_draw_suggested = 1 /\ ~OnOffer(Other(i))
         /\ is_draw_suggested = 1 => OnOffer(i) \/ OnOffer(Other(i))
         /\ index = i => MustAnswer = OnOffer(i)
<1>1. /\ draw_response_index \in Player /\ is_draw_suggested \in {0, 1}
      /\ index \in Player
  BY DEF SafeGame, IInv, TypeOK
<1> QED BY <1>1, Players DEF OnOffer, MustAnswer

\* What the thread finds is what a fair client wrote.
LEMMA Decoded ==
  ASSUME FInv, SafeGame, HandleMessage, NEW m, m = Head(sent[index])
  PROVE  /\ pc = "recv" /\ index \in Player /\ result = "none" /\ sent[index] # <<>>
         /\ m \in Asked(index) \cup Answered
         /\ sent' = [sent EXCEPT ![index] = Tail(@)] /\ mail' = mail
         /\ error' \in {"none", "occupied", "!protocol"}
         /\ \/ m = RSGN /\ Resign
            \/ m = DRAW("R") /\ DrawReject
            \/ m = DRAW("A") /\ DrawAccept
            \/ m = DRAW("S") /\ DrawSuggest
            \/ \E a \in DrawActions : m = DRAW(a) /\ DrawRefused(a)
            \/ \E c \in Attempts :
                 /\ m = MOVE(role[index], c)
                 /\ \/ MoveRefused(role[index]) \/ MoveOccupied(role[index], c)
                    \/ Move(role[index], c)
<1>1. /\ pc = "recv" /\ sent[index] # <<>> /\ mail' = mail
      /\ sent' = [sent EXCEPT ![index] = Tail(@)]
      /\ \/ Handled(m) /\ error' = "!protocol"
         \/ m.code = "MOVE" /\ MoveOccupied(m.role, m.cell) /\ error' = "occupied"
  BY DEF HandleMessage
<1>2. index \in Player /\ result = "none"
  BY <1>1, Listening DEF SafeGame, IInv, TypeOK
<1>3. m \in Asked(index) \cup Answered
  <2>1. sent[index] \in Seq(Asked(index) \cup Answered)
    BY <1>2 DEF FInv, FairTypes
  <2> QED BY <1>1, <2>1
<1>4. \/ m = RSGN \/ (\E c \in Attempts : m = MOVE(role[index], c))
      \/ \E a \in DrawActions : m = DRAW(a)
  BY <1>3 DEF Asked, Answered, MovesOf, DrawActions
<1>5. CASE m = RSGN
  <2>1. m.code = "RSGN" /\ \A a : m # DRAW(a)
    BY <1>5 DEF RSGN, DRAW
  <2> QED BY <1>1, <1>2, <1>3, <1>5, <2>1 DEF Handled
<1>6. CASE \E a \in DrawActions : m = DRAW(a)
  <2>1. PICK a \in DrawActions : m = DRAW(a)
    BY <1>6
  <2>2. m.code = "DRAW" /\ m.action = a
    BY <2>1 DEF DRAW
  <2> QED BY <1>1, <1>2, <1>3, <2>1, <2>2 DEF Handled
<1>7. CASE \E c \in Attempts : m = MOVE(role[index], c)
  <2>1. PICK c \in Attempts : m = MOVE(role[index], c)
    BY <1>7
  <2>2. m.code = "MOVE" /\ m.role = role[index] /\ m.cell = c /\ \A a : m # DRAW(a)
    BY <2>1 DEF MOVE, DRAW
  <2> QED BY <1>1, <1>2, <1>3, <2>1, <2>2 DEF Handled
<1> QED BY <1>4, <1>5, <1>6, <1>7

LEMMA FairStepOfGame ==
  ASSUME FInv, SafeGame, FairNext
  PROVE  [Next]_vars
<1>1. \A i \in Player : \A m : WriteAnyway(i, m) => ClientSend(i) \/ UNCHANGED vars
  BY DEF WriteAnyway, Write, WriteLate
<1>2. CASE \E i \in Player : Requests(i) \/ Answers(i)
  BY <1>1, <1>2
  DEF Requests, Answers, AskMove, AskDraw, AskResign, Ask, Answer, Next, Client
<1>3. CASE \E i \in Player : Reads(i)
  BY <1>3 DEF Reads, Read, SeeDrop
<1>4. CASE HandleMessage
  <2>1. PICK m : m = Head(sent[index])
    OBVIOUS
  <2>2. index \in Player /\ role[index] \in Mark
    BY <1>4, <2>1, Decoded, Players
  <2>3. \A c \in Attempts : <<role[index], c>> \in MoveFields
    BY <2>2 DEF MoveFields
  <2>4. ASSUME NEW c \in Attempts,
               MoveOccupied(role[index], c) \/ Move(role[index], c)
        PROVE  Handle
    <3>1. PICK q \in MoveFields : q[1] = role[index] /\ q[2] = c
      BY <2>3
    <3> QED BY <2>4, <3>1 DEF Handle
  <2>5. Handle
    BY <1>4, <2>1, <2>2, <2>4, Decoded DEF Handle
  <2> QED BY <2>5 DEF Next, Thread
<1>5. CASE ServerStep /\ ~HandleMessage
  BY <1>5
  DEF ServerStep, LoseMessages, WriteNext, CloseNext, Next, Thread
<1>6. CASE \E i \in Player : LateReset(i)
  BY <1>6 DEF LateReset
<1> QED BY <1>2, <1>3, <1>4, <1>5, <1>6 DEF FairNext

\* Only a suggestion that crossed the message makes the thread refuse it.
LEMMA Fairly ==
  ASSUME FInv, SafeGame, HandleMessage, NEW m, m = Head(sent[index])
  PROVE  \/ m = RSGN /\ Resign
         \/ m = DRAW("R") /\ DrawReject
         \/ m = DRAW("A") /\ DrawAccept
         \/ m = DRAW("S") /\ DrawSuggest
         \/ /\ m = DRAW("S") \/ m \in MovesOf(index)
            /\ OnOffer(index) /\ Received /\ Refuse
            /\ UNCHANGED <<thread, peer, open, result, history>>
         \/ \E c \in Attempts : m = MOVE(role[index], c) /\ Move(role[index], c)
<1>1. /\ pc = "recv" /\ index \in Player /\ result = "none"
      /\ sent[index] # <<>> /\ m \in Asked(index) \cup Answered
  BY Decoded
<1>2. /\ OneRequest(index) /\ Awaited(index) /\ OneSuggestion(index) /\ Grids(index)
  BY <1>1 DEF FInv, GoingOn, Round
<1>3. \A S : m \in S => Has(sent[index], S)
  <2>1. sent[index] \in Seq(Asked(index) \cup Answered)
    BY <1>1 DEF FInv, FairTypes
  <2> QED BY <1>1, <2>1, InTail
<1>4. m \in Answered => OnOffer(index)
  BY <1>2, <1>3 DEF OneSuggestion
<1>5. m \in Asked(index) => ~OnOffer(Other(index))
  BY <1>2, <1>3 DEF OneRequest, Offering
<1>6. /\ MustAnswer = OnOffer(index)
      /\ is_draw_suggested = 1 => OnOffer(index) \/ OnOffer(Other(index))
      /\ OnOffer(index) => is_draw_suggested = 1
      /\ is_draw_suggested \in {0, 1}
  BY <1>1, OneOffer DEF SafeGame, IInv, TypeOK
<1>7. ASSUME NEW a \in DrawActions, m = DRAW(a), DrawRefused(a)
      PROVE  a = "S" /\ OnOffer(index)
  <2>1. a # "S" => m \in Answered
    BY <1>7 DEF DrawActions, Answered
  <2>2. a = "S" => m \in Asked(index)
    BY <1>7 DEF Asked
  <2> QED BY <1>4, <1>5, <1>6, <1>7, <2>1, <2>2 DEF DrawRefused
<1>8. ASSUME NEW c \in Attempts, m = MOVE(role[index], c), ~OnOffer(index)
      PROVE  MayMove(role[index]) /\ CanClaim(board, c)
  <2>1. m \in MovesOf(index) /\ m \in Asked(index)
    BY <1>8 DEF MovesOf, Asked
  <2>2. is_draw_suggested = 0
    BY <1>5, <1>6, <1>8, <2>1
  <2>3. ItsTurn(index, known[index]) /\ CanClaim(known[index], c)
    <3>1. awaiting[index] = "MOVE"
      BY <1>2, <1>3, <2>1 DEF Awaited
    <3> QED BY <1>1, <1>2, <1>3, <1>8, <3>1, Unended DEF Grids, Mail
  <2>4. ~Has(mail[index], Own(index)) /\ ~Queued(index, "MOVD")
    <3>1. ~Has(mail[index], ReplyTo(index))
      BY <1>2, <1>3, <2>1 DEF OneRequest
    <3> QED BY <1>1, <3>1, Listening, InSubset DEF ReplyTo
  <2>5. ~Has(mail[index], Theirs(index))
    BY <1>1, <2>3, <2>4, Unended DEF Mail
  <2>6. known[index] = board
    BY <1>2, <2>4, <2>5 DEF Grids, Has
  <2> QED BY <1>1, <2>2, <2>3, <2>6, Listening DEF MayMove
<1>9. \A c \in Attempts : MOVE(role[index], c) \in MovesOf(index)
  BY DEF MovesOf
<1> QED
  BY <1>1, <1>7, <1>8, <1>9, Decoded DEF DrawRefused, MoveRefused, MoveOccupied

-----------------------------------------------------------------------------
(* The steps of the clients.                                                *)

\* What the invariant sees of the thread.
LEMMA Still ==
  ASSUME UNCHANGED <<board, is_draw_suggested, draw_response_index, outq>>,
         UNCHANGED <<pc, after, index>> \/ (pc # "send" /\ pc' # "send"),
         NEW i \in Player
  PROVE  /\ OnOffer(i)' = OnOffer(i) /\ Offering(i)' = Offering(i)
         /\ Replying(i)' = Replying(i) /\ Rejecting(i)' = Rejecting(i)
         /\ \A k : Queued(i, k)' = Queued(i, k)
<1>1. \A j : OnOffer(j)' = OnOffer(j)
  BY DEF OnOffer
<1>2. \A k : Queued(i, k)' = Queued(i, k)
  BY DEF Queued
<1>3. (pc = "send" /\ after = "suggest" /\ index = i)'
        = (pc = "send" /\ after = "suggest" /\ index = i)
  OBVIOUS
<1>4. Rejecting(i)' = Rejecting(i)
  BY DEF Rejecting
<1> QED BY <1>1, <1>2, <1>3, <1>4 DEF Offering, Replying

\* A client that had no part in the step.
LEMMA Unaffected ==
  ASSUME UNCHANGED <<board, is_draw_suggested, draw_response_index, outq>>,
         UNCHANGED <<pc, after, index>> \/ (pc # "send" /\ pc' # "send"),
         NEW i \in Player, offered'[i] = offered[i],
         sent'[i] = sent[i], mail'[i] = mail[i], known'[i] = known[i],
         awaiting'[i] = awaiting[i], i \in suggested' <=> i \in suggested,
         Round(i)
  PROVE  Round(i)'
<1>1. OneRequest(i)'
  BY Still DEF Round, OneRequest
<1>2. Awaited(i)'
  BY Still DEF Round, Awaited
<1>3. OneSuggestion(i)'
  BY Still DEF Round, OneSuggestion
<1>4. Grids(i)'
  BY Still DEF Round, Grids
<1> QED BY <1>1, <1>2, <1>3, <1>4 DEF Round

LEMMA SameMail ==
  ASSUME NEW i \in Player, mail'[i] = mail[i], known'[i] = known[i],
         awaiting'[i] = awaiting[i], i \in suggested' => i \in suggested,
         Mail(i)
  PROVE  Mail(i)'
  BY DEF Mail, Replies

\* A client with no request out: none is under way, and no reply.
LEMMA Idle ==
  ASSUME FInv, SafeGame, NEW i \in Player, ended[i] = "no", awaiting[i] = "nothing"
  PROVE  /\ ~Has(mail[i], ReplyTo(i))
         /\ result = "none" => /\ ~Has(sent[i], Asked(i))
                               /\ ~Replying(i) /\ ~Offering(i)
                               /\ ~Queued(i, "INVL")
<1>1. ~Has(mail[i], ReplyTo(i))
  <2>1. Mail(i) /\ mail[i] \in Seq(Items)
    BY DEF FInv, Mails, FairTypes
  <2> SUFFICES ASSUME NEW k \in DOMAIN mail[i], mail[i][k] \in ReplyTo(i)
               PROVE  FALSE
    BY DEF Has
  <2>2. PICK m \in Items : m = mail[i][k]
    BY <2>1
  <2>3. Replies(i, m) /\ m \in ReplyTo(i)
    BY <2>1, <2>2 DEF Mail
  <2>4. m.kind \in {"MOVD", "INVL", "DRAW_R"}
    BY <2>3, Finding
  <2> QED BY <2>3, <2>4 DEF Replies
<1>2. ASSUME result = "none"
      PROVE  ~Has(sent[i], Asked(i)) /\ ~Replying(i) /\ ~Offering(i) /\ ~Queued(i, "INVL")
  <2>1. Awaited(i)
    BY <1>2 DEF FInv, GoingOn, Round
  <2>2. Has(sent[i], Asked(i)) => \/ Has(sent[i], {RSGN}) \/ Has(sent[i], {DRAW("S")})
                                  \/ Has(sent[i], MovesOf(i))
    BY DEF Has, Asked
  <2> QED BY <2>1, <2>2 DEF Awaited, Replying
<1> QED BY <1>1, <1>2

\* A write that the server may never see.
LEMMA Writing ==
  ASSUME FInv, SafeGame, NEW i \in Player, NEW m \in Asked(i) \cup Answered,
         WriteAnyway(i, m)
  PROVE  /\ UNCHANGED <<thread, msg_buffer, control, peer, open, result, history,
                        mail, error>>
         /\ \A j \in Player : j # i => sent'[j] = sent[j]
         /\ i \in open => sent'[i] = Append(sent[i], m)
         /\ i \notin open => sent'[i] = sent[i]
         /\ sent[i] \in Seq(Asked(i) \cup Answered)
         /\ DOMAIN sent' = Player
         /\ \A j \in Player : sent'[j] \in Seq(Asked(j) \cup Answered)
         /\ \A j \in Player : Crossed(j) => Crossed(j)'
         /\ (late \cap open = {})'
         /\ Counted'
<1>1. CASE i \in open
  <2>1. /\ inbox' = [inbox EXCEPT ![i] = @ + 1]
        /\ sent' = [sent EXCEPT ![i] = Append(@, m)]
        /\ UNCHANGED <<thread, msg_buffer, control, peer, open, result, history,
                       mail, error, late>>
    BY <1>1 DEF WriteAnyway, Write, WriteLate, ClientSend
  <2>2. /\ sent'[i] = Append(sent[i], m) /\ DOMAIN sent' = Player
        /\ \A j \in Player : j # i => sent'[j] = sent[j]
        /\ sent[i] \in Seq(Asked(i) \cup Answered)
        /\ \A j \in Player : sent[j] \in Seq(Asked(j) \cup Answered)
    BY <2>1 DEF FInv, FairTypes
  <2>3. /\ sent'[i] \in Seq(Asked(i) \cup Answered) /\ sent'[i] # <<>>
        /\ Len(sent'[i]) = Len(sent[i]) + 1
    BY <2>2
  <2>4. \A j \in Player : sent'[j] \in Seq(Asked(j) \cup Answered)
    BY <2>2, <2>3
  <2>5. \A j \in Player : sent[j] # <<>> => sent'[j] # <<>>
    BY <2>2, <2>3
  <2>6. Counted'
    <3>0. /\ \A j \in Player : msg_buffer[j] \in Nat /\ inbox[j] \in Nat
          /\ inbox'[i] = inbox[i] + 1
          /\ \A j \in Player : j # i => inbox'[j] = inbox[j]
      BY <2>1 DEF SafeGame, IInv, TypeOK
    <3>1. \A j \in Player : Len(sent'[j]) = msg_buffer'[j] + inbox'[j]
      BY <2>1, <2>2, <2>3, <3>0 DEF FInv, Counted
    <3>2. pc' = "recv" => sent'[index'] # <<>>
      BY <2>1, <2>5 DEF FInv, Counted, control, thread, SafeGame, IInv, TypeOK
    <3> QED BY <3>1, <3>2 DEF Counted
  <2>7. \A j \in Player : Crossed(j) => Crossed(j)'
    BY <1>1, <2>1 DEF Crossed, SafeGame, IInv, TypeOK
  <2>8. (late \cap open = {})'
    BY <2>1 DEF FInv, Endings
  <2> QED BY <1>1, <2>1, <2>2, <2>4, <2>6, <2>7, <2>8
<1>2. CASE i \notin open
  <2>1. UNCHANGED <<vars, sent, mail, error>> /\ late' = late \cup {i}
    BY <1>2 DEF WriteAnyway, Write, WriteLate, ClientSend
  <2>2. UNCHANGED <<thread, msg_buffer, control, inbox, peer, open, result, history,
                    sent, mail, error>>
    BY <2>1 DEF vars, conns
  <2>3. Counted'
    BY <2>2 DEF FInv, Counted, control, thread
  <2>4. \A j \in Player : Crossed(j) => Crossed(j)'
    BY <2>1, <2>2 DEF Crossed
  <2>5. (late \cap open = {})'
    BY <1>2, <2>1, <2>2 DEF FInv, Endings
  <2> QED BY <1>2, <2>2, <2>3, <2>4, <2>5 DEF FInv, FairTypes
<1> QED BY <1>1, <1>2

\* What a write leaves to show.
LEMMA Wrote ==
  ASSUME FInv, SafeGame, NEW i \in Player, NEW m \in Asked(i) \cup Answered,
         WriteAnyway(i, m), UNCHANGED <<known, ended>>,
         awaiting' \in [Player -> {"nothing", "MOVE", "DRAW S", "RSGN"}],
         \A j \in Player : j # i => awaiting'[j] = awaiting[j],
         suggested' \in {suggested, suggested \ {i}},
         result = "none" => Round(i)',
         ended[i] = "no" => Mail(i)'
  PROVE  FInv'
<1>1. /\ UNCHANGED <<thread, msg_buffer, control, peer, open, result, history,
                     mail, error>>
      /\ \A j \in Player : j # i => sent'[j] = sent[j]
      /\ DOMAIN sent' = Player
      /\ \A j \in Player : sent'[j] \in Seq(Asked(j) \cup Answered)
      /\ \A j \in Player : Crossed(j) => Crossed(j)'
      /\ (late \cap open = {})'
      /\ Counted'
  BY Writing
<1>2. FairTypes'
  BY <1>1 DEF FInv, FairTypes
<1>3. /\ UNCHANGED <<board, is_draw_suggested, draw_response_index, outq, pc, after,
                     index, told, offered, result, open, mail>>
  BY <1>1 DEF thread, control, history
<1>4. \A j \in Player : j # i => (j \in suggested' <=> j \in suggested)
  OBVIOUS
<1>5. GoingOn'
  <2> SUFFICES ASSUME result = "none", NEW j \in Player, j # i PROVE Round(j)'
    BY <1>3 DEF GoingOn, Round
  <2>1. Round(j)
    BY DEF FInv, GoingOn, Round
  <2> QED BY <1>1, <1>3, <1>4, <2>1, Unaffected
<1>6. Mails'
  <2> SUFFICES ASSUME NEW j \in Player, j # i, ended[j] = "no" PROVE Mail(j)'
    BY DEF Mails
  <2> QED BY <1>3, <1>4, SameMail DEF FInv, Mails
<1>7. Endings'
  BY <1>1, <1>3 DEF FInv, Endings
<1> QED BY <1>1, <1>2, <1>5, <1>6, <1>7 DEF FInv

\* A request: there is no other.
LEMMA AskStep ==
  ASSUME FInv, SafeGame, NEW i \in Player, NEW m \in Asked(i), NEW request,
         Ask(i, m, request), suggested' \in {suggested, suggested \ {i}},
         m \in {RSGN} => request = "RSGN",
         m \in {DRAW("S")} => request = "DRAW S" /\ i \notin suggested,
         m \in MovesOf(i) => /\ request = "MOVE" /\ ItsTurn(i, known[i])
                            /\ CanClaim(known[i], m.cell)
  PROVE  FInv'
<1>1. /\ ended[i] = "no" /\ awaiting[i] = "nothing" /\ WriteAnyway(i, m)
      /\ awaiting' = [awaiting EXCEPT ![i] = request] /\ UNCHANGED <<known, ended>>
  BY DEF Ask
<1>2. request \in {"MOVE", "DRAW S", "RSGN"}
  BY DEF Asked
<1>3. /\ awaiting' \in [Player -> {"nothing", "MOVE", "DRAW S", "RSGN"}]
      /\ \A j \in Player : j # i => awaiting'[j] = awaiting[j]
      /\ awaiting'[i] = request
  BY <1>1, <1>2 DEF FInv, FairTypes
<1>4. /\ UNCHANGED <<thread, control, result, history, mail>>
      /\ i \in open => sent'[i] = Append(sent[i], m)
      /\ sent[i] \in Seq(Asked(i) \cup Answered)
  BY <1>1, Writing
<1>5. UNCHANGED <<board, is_draw_suggested, draw_response_index, outq, pc, after,
                  index, offered>>
  BY <1>4 DEF thread, control, history
<1>6. Mail(i) /\ ~Has(mail[i], ReplyTo(i))
  BY <1>1, Idle DEF FInv, Mails
<1>7. Mail(i)'
  <2>1. request = "MOVE" => m \in MovesOf(i)
    BY DEF Asked
  <2>2. i \in suggested' => i \in suggested
    OBVIOUS
  <2>3. \A k \in DOMAIN mail[i] : mail[i][k] \notin ReplyTo(i)
    BY <1>6 DEF Has
  <2> QED BY <1>1, <1>3, <1>4, <1>6, <2>1, <2>2, <2>3 DEF Mail
<1>8. ASSUME result = "none" PROVE Round(i)'
  <2>1. /\ ~Has(sent[i], Asked(i)) /\ ~Replying(i) /\ ~Offering(i)
        /\ ~Queued(i, "INVL") /\ Round(i) /\ i \in open
    BY <1>1, <1>8, Idle, Unended DEF FInv, GoingOn, Round
  <2>2. /\ \A S : Has(sent'[i], S) <=> Has(sent[i], S) \/ m \in S
        /\ \A S : Once(sent'[i], S) <=> Once(sent[i], S) /\ (m \in S => ~Has(sent[i], S))
    <3>1. sent'[i] = Append(sent[i], m) /\ m \in Asked(i) \cup Answered
      BY <1>4, <2>1
    <3>2. sent[i] \in Seq(Asked(i) \cup Answered)
      BY <1>4
    <3> SUFFICES ASSUME NEW S
                 PROVE  /\ Has(sent'[i], S) <=> Has(sent[i], S) \/ m \in S
                        /\ Once(sent'[i], S)
                             <=> Once(sent[i], S) /\ (m \in S => ~Has(sent[i], S))
      OBVIOUS
    <3>3. PICK T : m \in T /\ sent[i] \in Seq(T)
      BY <3>1, <3>2
    <3>4. /\ Has(Append(sent[i], m), S) <=> Has(sent[i], S) \/ m \in S
          /\ Once(Append(sent[i], m), S)
               <=> Once(sent[i], S) /\ (m \in S => ~Has(sent[i], S))
      BY <3>3, InAppend
    <3> QED BY <3>1, <3>4
  <2>3. /\ ~Replying(i)' /\ ~Offering(i)' /\ Rejecting(i)' = Rejecting(i)
        /\ OnOffer(i)' = OnOffer(i) /\ \A k : Queued(i, k)' = Queued(i, k)
    BY <1>5, <2>1, Still
  <2>4. /\ m \notin Answered
        /\ ~Has(sent[i], {RSGN}) /\ ~Has(sent[i], {DRAW("S")})
        /\ ~Has(sent[i], MovesOf(i))
        /\ \A c \in Attempts : ~Has(sent[i], {MOVE(role[i], c)})
    <3>1. \A c \in Attempts : MOVE(role[i], c) \in Asked(i)
      BY DEF Asked, MovesOf
    <3>2. \A S : S \subseteq Asked(i) => ~Has(sent[i], S)
      BY <2>1 DEF Has
    <3>3. m \notin Answered /\ MovesOf(i) \subseteq Asked(i)
      BY Requesting
    <3>4. {RSGN} \subseteq Asked(i) /\ {DRAW("S")} \subseteq Asked(i)
      BY DEF Asked
    <3> QED BY <3>1, <3>2, <3>3, <3>4
  <2>5. OneRequest(i)'
    BY <1>4, <1>6, <2>1, <2>2, <2>3 DEF Round, OneRequest
  <2>6. Awaited(i)'
    BY <1>3, <2>1, <2>2, <2>3, <2>4 DEF Awaited, Replying
  <2>7. OneSuggestion(i)'
    BY <1>4, <2>1, <2>2, <2>3, <2>4 DEF Round, OneSuggestion
  <2>8. Grids(i)'
    <3>1. ASSUME NEW c \in Attempts, Has(sent'[i], {MOVE(role[i], c)})
          PROVE  CanClaim(known[i], c)
      <4>1. m = MOVE(role[i], c) /\ m \in MovesOf(i)
        BY <2>2, <2>4, <3>1 DEF MovesOf
      <4>2. m.cell = c
        BY <4>1 DEF MOVE
      <4> QED BY <4>1, <4>2
    <3> QED BY <1>1, <1>4, <1>5, <2>1, <2>3, <3>1 DEF Round, Grids
  <2> QED BY <2>5, <2>6, <2>7, <2>8 DEF Round
<1> QED BY <1>1, <1>3, <1>7, <1>8, Wrote

LEMMA RequestStep ==
  ASSUME FInv, SafeGame, NEW i \in Player, Requests(i)
  PROVE  FInv'
<1>1. CASE \E c \in Attempts : AskMove(i, c)
  <2>1. PICK c \in Attempts : AskMove(i, c)
    BY <1>1
  <2>2. PICK m : m = MOVE(role[i], c)
    OBVIOUS
  <2>3. m \in MovesOf(i) /\ m.cell = c
    BY <2>2 DEF MovesOf, MOVE
  <2>4. m \in Asked(i) /\ m \notin {RSGN} /\ m \notin {DRAW("S")}
    BY <2>3, Requesting
  <2>5. /\ Ask(i, m, "MOVE") /\ suggested' = suggested
        /\ ItsTurn(i, known[i]) /\ CanClaim(known[i], m.cell)
    BY <2>1, <2>2, <2>3 DEF AskMove
  <2> QED BY <2>4, <2>5, AskStep
<1>2. CASE AskDraw(i)
  <2>1. /\ Ask(i, DRAW("S"), "DRAW S") /\ suggested' = suggested /\ i \notin suggested
    BY <1>2 DEF AskDraw
  <2>2. DRAW("S") \in Asked(i) /\ DRAW("S") \notin {RSGN} /\ DRAW("S") \notin MovesOf(i)
    BY Requesting
  <2> QED BY <2>1, <2>2, AskStep
<1>3. CASE AskResign(i)
  <2>1. Ask(i, RSGN, "RSGN") /\ suggested' = suggested \ {i}
    BY <1>3 DEF AskResign
  <2>2. RSGN \in Asked(i) /\ RSGN \notin {DRAW("S")} /\ RSGN \notin MovesOf(i)
    BY Requesting
  <2> QED BY <2>1, <2>2, AskStep
<1> QED BY <1>1, <1>2, <1>3 DEF Requests

LEMMA AnswerStep ==
  ASSUME FInv, SafeGame, NEW i \in Player, Answers(i)
  PROVE  FInv'
<1>1. PICK m \in Answered : /\ WriteAnyway(i, m) /\ i \in suggested /\ ended[i] = "no"
                           /\ suggested' = suggested \ {i}
                           /\ UNCHANGED <<known, awaiting, ended>>
  BY DEF Answers, Answer, Answered
<1>2. /\ UNCHANGED <<thread, control, result, history, mail>>
      /\ i \in open => sent'[i] = Append(sent[i], m)
      /\ sent[i] \in Seq(Asked(i) \cup Answered)
  BY <1>1, Writing
<1>3. UNCHANGED <<board, is_draw_suggested, draw_response_index, outq, pc, after,
                  index, offered>>
  BY <1>2 DEF thread, control, history
<1>4. Mail(i)'
  BY <1>1, <1>2, SameMail DEF FInv, Mails
<1>5. ASSUME result = "none" PROVE Round(i)'
  <2>1. Round(i) /\ i \in open /\ Mail(i)
    BY <1>5, Unended DEF FInv, GoingOn, Round
  <2>2. /\ \A S : Has(sent'[i], S) <=> Has(sent[i], S) \/ m \in S
        /\ \A S : Once(sent'[i], S) <=> Once(sent[i], S) /\ (m \in S => ~Has(sent[i], S))
    <3>1. sent'[i] = Append(sent[i], m) /\ m \in Asked(i) \cup Answered
      BY <1>2, <2>1
    <3>2. sent[i] \in Seq(Asked(i) \cup Answered)
      BY <1>2
    <3> SUFFICES ASSUME NEW S
                 PROVE  /\ Has(sent'[i], S) <=> Has(sent[i], S) \/ m \in S
                        /\ Once(sent'[i], S)
                             <=> Once(sent[i], S) /\ (m \in S => ~Has(sent[i], S))
      OBVIOUS
    <3>3. PICK T : m \in T /\ sent[i] \in Seq(T)
      BY <3>1, <3>2
    <3>4. /\ Has(Append(sent[i], m), S) <=> Has(sent[i], S) \/ m \in S
          /\ Once(Append(sent[i], m), S)
               <=> Once(sent[i], S) /\ (m \in S => ~Has(sent[i], S))
      BY <3>3, InAppend
    <3> QED BY <3>1, <3>4
  <2>3. /\ Replying(i)' = Replying(i) /\ Offering(i)' = Offering(i)
        /\ Rejecting(i)' = Rejecting(i)
        /\ OnOffer(i)' = OnOffer(i) /\ \A k : Queued(i, k)' = Queued(i, k)
    BY <1>3, Still
  <2>4. /\ m \notin Asked(i) /\ m \notin {RSGN} /\ m \notin {DRAW("S")}
        /\ m \notin MovesOf(i)
        /\ \A c \in Attempts : m \notin {MOVE(role[i], c)}
    <3>1. m \notin Asked(i)
      BY Requesting
    <3> QED BY <3>1 DEF Asked, MovesOf
  <2>5. OneRequest(i)'
    BY <1>2, <2>1, <2>2, <2>3, <2>4 DEF Round, OneRequest
  <2>6. Awaited(i)'
    BY <1>1, <1>3, <2>1, <2>2, <2>3, <2>4 DEF Round, Awaited
  <2>7. OneSuggestion(i)'
    BY <1>1, <1>2, <2>1, <2>2, <2>3 DEF Round, OneSuggestion, Mail
  <2>8. Grids(i)'
    BY <1>1, <1>2, <1>3, <2>1, <2>2, <2>3, <2>4 DEF Round, Grids
  <2> QED BY <2>5, <2>6, <2>7, <2>8 DEF Round
<1> QED BY <1>1, <1>4, <1>5, Wrote DEF FInv, FairTypes

\* A client reads; nothing else happens.
LEMMA ReadStep ==
  ASSUME FInv, SafeGame, NEW i \in Player, Read(i)
  PROVE  FInv'
<1>1. PICK m : m = Head(mail[i])
  OBVIOUS
<1>2. /\ ended[i] = "no" /\ mail[i] # <<>>
      /\ known' = IF m.kind = "MOVD" THEN [known EXCEPT ![i] = m.board] ELSE known
      /\ awaiting' = IF Replies(i, m) THEN [awaiting EXCEPT ![i] = "nothing"]
                     ELSE awaiting
      /\ suggested' = IF m.kind = "DRAW_S" THEN suggested \cup {i} ELSE suggested
      /\ ended' = IF Verdict(m.kind) = "none" THEN ended
                  ELSE [ended EXCEPT ![i] = "OVER"]
      /\ mail' = [mail EXCEPT ![i] = Tail(@)]
      /\ UNCHANGED <<vars, sent, error, late>>
  BY <1>1 DEF Read, Hear
<1>3. UNCHANGED <<board, is_draw_suggested, draw_response_index, outq, pc, after,
                  index, offered, result, open, told, msg_buffer, inbox, peer>>
  BY <1>2 DEF vars, thread, control, conns, history
<1>4. /\ mail[i] \in Seq(Items) /\ m \in Items /\ Mail(i)
      /\ mail'[i] = Tail(mail[i]) /\ mail'[i] \in Seq(Items)
      /\ \A j \in Player : j # i => mail'[j] = mail[j]
      /\ DOMAIN mail' = Player
  <2>1. mail[i] \in Seq(Items) /\ DOMAIN mail = Player /\ Mail(i)
    BY <1>2 DEF FInv, FairTypes, Mails
  <2> QED BY <1>1, <1>2, <2>1
<1>5. /\ m.kind \in Kinds /\ m.board \in Boards
      /\ m.kind = "MOVD" <=> m \in Own(i) \cup Theirs(i)
      /\ m \in Own(i) => m \notin Theirs(i) /\ Mine(i, m.board)
      /\ m \in Theirs(i) => ~Mine(i, m.board)
      /\ m \in ReplyTo(i) <=> m.kind \in {"INVL", "DRAW_R"} \/ m \in Own(i)
      /\ m \in Suggestions <=> m.kind = "DRAW_S"
      /\ m \in Outcomes <=> Verdict(m.kind) # "none"
  BY <1>4, Finding
<1>6. \A S : /\ Has(mail[i], S) <=> m \in S \/ Has(mail'[i], S)
             /\ Once(mail[i], S) => /\ Once(mail'[i], S)
                                    /\ m \in S => ~Has(mail'[i], S)
  BY <1>1, <1>2, <1>4, InTail
<1>7. \A k \in DOMAIN mail'[i] : /\ k + 1 \in DOMAIN mail[i] /\ k \in Nat
                                 /\ mail'[i][k] = mail[i][k + 1]
  BY <1>2, <1>4
<1>8. /\ known' \in [Player -> Boards]
      /\ awaiting' \in [Player -> {"nothing", "MOVE", "DRAW S", "RSGN"}]
      /\ suggested' \subseteq Player
      /\ ended' \in [Player -> {"no", "OVER", "drop"}]
      /\ \A j \in Player : j # i => /\ known'[j] = known[j]
                                    /\ awaiting'[j] = awaiting[j]
                                    /\ j \in suggested' <=> j \in suggested
                                    /\ ended'[j] = ended[j]
      /\ m.kind = "MOVD" => known'[i] = m.board
      /\ m.kind # "MOVD" => known'[i] = known[i]
      /\ Replies(i, m) => awaiting'[i] = "nothing"
      /\ ~Replies(i, m) => awaiting'[i] = awaiting[i]
      /\ i \in suggested' <=> i \in suggested \/ m \in Suggestions
      /\ m \notin Outcomes => ended'[i] = "no"
      /\ m \in Outcomes => ended'[i] = "OVER"
  BY <1>2, <1>5 DEF FInv, FairTypes
<1>9. FairTypes'
  <2>1. \A j \in Player : mail'[j] \in Seq(Items)
    BY <1>4 DEF FInv, FairTypes
  <2> QED BY <1>2, <1>3, <1>4, <1>8, <2>1 DEF FInv, FairTypes
<1>10. Counted'
  BY <1>2, <1>3 DEF FInv, Counted
<1>11. ASSUME m \notin Outcomes
       PROVE  /\ m \in Theirs(i) => /\ ~Has(mail'[i], Own(i)) /\ ~Has(mail'[i], Theirs(i))
                                    /\ ~ItsTurn(i, known[i]) /\ awaiting[i] # "MOVE"
              /\ Replies(i, m) <=> m \in ReplyTo(i)
  <2>1. ASSUME m \in Theirs(i)
        PROVE  /\ ~Has(mail'[i], Own(i)) /\ ~Has(mail'[i], Theirs(i))
               /\ ~ItsTurn(i, known[i]) /\ awaiting[i] # "MOVE"
    <3>1. ~Has(mail'[i], Own(i))
      <4>1. ASSUME NEW k \in DOMAIN mail'[i], mail'[i][k] \in Own(i) PROVE FALSE
        <5>1. k + 1 \in DOMAIN mail[i] /\ mail[i][k + 1] \in Own(i) /\ k \in Nat
          BY <1>7, <4>1
        <5>2. 1 \in DOMAIN mail[i] /\ mail[i][1] = m
          BY <1>1, <1>2, <1>4
        <5>3. k + 1 < 1
          BY <1>4, <2>1, <5>1, <5>2 DEF Mail
        <5> QED BY <5>1, <5>3
      <4> QED BY <4>1 DEF Has
    <3>2. ~Has(mail'[i], Theirs(i))
      BY <1>4, <1>6, <2>1 DEF Mail
    <3>3. ~Has(mail[i], Own(i)) /\ Has(mail[i], Theirs(i))
      BY <1>5, <1>6, <2>1, <3>1
    <3>4. ~ItsTurn(i, known[i])
      BY <1>4, <3>3 DEF Mail
    <3>5. awaiting[i] # "MOVE"
      BY <1>4, <3>4 DEF Mail
    <3> QED BY <3>1, <3>2, <3>4, <3>5
  <2>2. m \in ReplyTo(i) => Replies(i, m)
    <3>1. 1 \in DOMAIN mail[i] /\ mail[i][1] = m
      BY <1>1, <1>2, <1>4
    <3> QED BY <1>4, <3>1 DEF Mail
  <2>3. Replies(i, m) => m \in ReplyTo(i)
    <3>1. m.kind = "MOVD" /\ Replies(i, m) => awaiting[i] = "MOVE"
      BY DEF Replies
    <3>2. m.kind \notin {"MOVD", "INVL", "DRAW_R"} /\ Replies(i, m) => Verdict(m.kind) # "none"
      BY DEF Replies
    <3> QED BY <1>5, <1>11, <2>1, <3>1, <3>2
  <2> QED BY <2>1, <2>2, <2>3
<1>12. Mails'
  <2>1. ASSUME NEW j \in Player, j # i, ended[j] = "no" PROVE Mail(j)'
    BY <1>4, <1>8, <2>1, SameMail DEF FInv, Mails
  <2>2. ASSUME m \notin Outcomes PROVE Mail(i)'
    <3>1. /\ Once(mail'[i], ReplyTo(i)) /\ Once(mail'[i], Suggestions)
          /\ Once(mail'[i], Theirs(i))
      BY <1>4, <1>6 DEF Mail
    <3>2. (\A k \in DOMAIN mail[i] :
             mail[i][k] \in ReplyTo(i) => Replies(i, mail[i][k]))'
      <4> SUFFICES ASSUME NEW k \in DOMAIN mail'[i], mail'[i][k] \in ReplyTo(i)
                   PROVE  Replies(i, mail[i][k])'
        OBVIOUS
      <4>1. m \notin ReplyTo(i)
        <5>1. Has(mail'[i], ReplyTo(i))
          BY DEF Has
        <5> QED BY <1>4, <1>6, <5>1 DEF Mail
      <4>2. awaiting'[i] = awaiting[i]
        BY <1>8, <1>11, <2>2, <4>1
      <4>3. PICK q : q = mail'[i][k]
        OBVIOUS
      <4>4. Replies(i, q)
        BY <1>4, <1>7, <4>3 DEF Mail
      <4>5. Replies(i, q)'
        BY <4>2, <4>4 DEF Replies
      <4> QED BY <4>3, <4>5 DEF Replies
    <3>3. Has(mail'[i], Suggestions) => i \notin suggested'
      BY <1>4, <1>6, <1>8 DEF Mail
    <3>4. ASSUME NEW j \in DOMAIN mail'[i], NEW k \in DOMAIN mail'[i],
                 mail'[i][j] \in Own(i), mail'[i][k] \in Theirs(i)
          PROVE  j < k
      <4>1. j + 1 < k + 1 /\ j \in Nat /\ k \in Nat
        BY <1>4, <1>7, <3>4 DEF Mail
      <4> QED BY <4>1
    <3>5. ASSUME Has(mail'[i], Theirs(i)), ~Has(mail'[i], Own(i))
          PROVE  ~ItsTurn(i, known'[i])
      <4>1. m \notin Theirs(i)
        BY <1>4, <1>6, <3>5 DEF Mail
      <4>2. CASE m \in Own(i)
        BY <1>5, <1>8, <4>2, Turnwise
      <4>3. CASE m \notin Own(i)
        BY <1>4, <1>5, <1>6, <1>8, <3>5, <4>1, <4>3 DEF Mail
      <4> QED BY <4>2, <4>3
    <3>6. awaiting'[i] = "MOVE" => ItsTurn(i, known'[i])
      BY <1>4, <1>5, <1>8, <1>11, <2>2 DEF Mail
    <3> QED BY <3>1, <3>2, <3>3, <3>4, <3>5, <3>6 DEF Mail
  <2> QED BY <1>8, <2>1, <2>2 DEF Mails
<1>13. GoingOn'
  <2> SUFFICES ASSUME result = "none", NEW j \in Player PROVE Round(j)'
    BY <1>3 DEF GoingOn, Round
  <2>1. Round(j)
    BY DEF FInv, GoingOn, Round
  <2>2. CASE j # i
    BY <1>2, <1>3, <1>4, <1>8, <2>1, <2>2, Unaffected
  <2>3. CASE j = i
    <3>1. m \notin Outcomes
      BY <1>6, Unended
    <3>2. Round(i)
      BY <2>1, <2>3
    <3>3. /\ Replying(i)' = Replying(i) /\ Offering(i)' = Offering(i)
          /\ Rejecting(i)' = Rejecting(i)
          /\ OnOffer(i)' = OnOffer(i) /\ \A k : Queued(i, k)' = Queued(i, k)
      BY <1>3, Still
    <3>4. sent'[i] = sent[i] /\ \A S : Has(mail'[i], S) => Has(mail[i], S)
      BY <1>2, <1>6
    <3>5. OneRequest(i)'
      BY <3>2, <3>3, <3>4 DEF Round, OneRequest
    <3>6. Awaited(i)'
      <4>1. CASE m \in ReplyTo(i)
        <5>1. Has(mail[i], ReplyTo(i))
          BY <1>6, <4>1
        <5>2. ~Has(sent[i], Asked(i)) /\ ~Replying(i) /\ ~Offering(i)
          BY <3>2, <5>1 DEF Round, OneRequest
        <5>3. \A S : S \subseteq Asked(i) => ~Has(sent[i], S)
          BY <5>2 DEF Has
        <5>4. {RSGN} \subseteq Asked(i) /\ {DRAW("S")} \subseteq Asked(i)
              /\ MovesOf(i) \subseteq Asked(i)
          BY DEF Asked
        <5>5. /\ ~Has(sent[i], {RSGN}) /\ ~Has(sent[i], {DRAW("S")})
              /\ ~Has(sent[i], MovesOf(i))
          BY <5>3, <5>4
        <5> QED BY <3>3, <3>4, <5>2, <5>5 DEF Awaited, Replying
      <4>2. CASE m \notin ReplyTo(i)
        <5>1. awaiting'[i] = awaiting[i]
          BY <1>8, <1>11, <3>1, <4>2
        <5> QED BY <1>3, <3>2, <3>3, <3>4, <5>1 DEF Round, Awaited
      <4> QED BY <4>1, <4>2
    <3>7. OneSuggestion(i)'
      BY <1>4, <1>6, <1>8, <3>2, <3>3, <3>4 DEF Round, OneSuggestion, Mail
    <3>8. Grids(i)'
      <4>0. 1 \in DOMAIN mail[i] /\ mail[i][1] = m
        BY <1>1, <1>2, <1>4
      <4>a. /\ \A k \in DOMAIN mail'[i] : mail'[i][k] \in Theirs(i) =>
                 mail'[i][k].board = board /\ ~Queued(i, "MOVD")
            /\ Has(mail'[i], Theirs(i)) => ~Queued(i, "MOVD")
        BY <1>7, <3>2 DEF Round, Grids, Has
      <4>1. CASE m \in Own(i)
        <5>1. ~Has(mail'[i], Own(i))
          <6>1. ~Has(mail'[i], ReplyTo(i))
            BY <1>4, <1>5, <1>6, <4>1 DEF Mail
          <6> QED BY <6>1 DEF Has, ReplyTo
        <5>2. known'[i] = m.board /\ ~ItsTurn(i, m.board)
          BY <1>5, <1>8, <4>1, Turnwise
        <5>3. \A S : Has(sent[i], S) /\ S \subseteq MovesOf(i) => FALSE
          <6>1. Has(mail[i], ReplyTo(i))
            BY <1>5, <1>6, <4>1
          <6>2. ~Has(sent[i], Asked(i))
            BY <3>2, <6>1 DEF Round, OneRequest
          <6> QED BY <6>2 DEF Has, Asked
        <5>4. Queued(i, "MOVD") \/ Has(mail'[i], Own(i) \cup Theirs(i)) \/ m.board = board
          <6>1. \/ Queued(i, "MOVD") \/ Has(mail[i], Theirs(i)) \/ m.board = board
            BY <3>2, <4>0, <4>1 DEF Round, Grids
          <6>2. Has(mail[i], Theirs(i)) => Has(mail'[i], Own(i) \cup Theirs(i))
            BY <1>5, <1>6, <4>1 DEF Has
          <6> QED BY <6>1, <6>2
        <5>5. \A c \in Attempts : ~Has(sent'[i], {MOVE(role[i], c)})
          BY <3>4, <5>3 DEF MovesOf
        <5> QED BY <1>3, <3>3, <4>a, <5>1, <5>2, <5>4, <5>5 DEF Grids, Has
      <4>2. CASE m \in Theirs(i)
        <5>1. /\ ~Has(mail'[i], Own(i)) /\ ~Has(mail'[i], Theirs(i))
              /\ awaiting[i] # "MOVE"
          BY <1>11, <3>1, <4>2
        <5>2. known'[i] = board /\ ~Queued(i, "MOVD")
          BY <1>5, <1>8, <3>2, <4>0, <4>2 DEF Round, Grids
        <5>3. ~Has(sent[i], MovesOf(i))
          BY <3>2, <5>1 DEF Round, Awaited
        <5>4. \A c \in Attempts : ~Has(sent'[i], {MOVE(role[i], c)})
          BY <3>4, <5>3 DEF MovesOf, Has
        <5> QED BY <1>3, <3>3, <5>1, <5>2, <5>4 DEF Grids, Has
      <4>3. CASE m \notin Own(i) \cup Theirs(i)
        <5>1. known'[i] = known[i]
          BY <1>5, <1>8, <4>3
        <5>2. /\ Has(mail'[i], Own(i)) <=> Has(mail[i], Own(i))
              /\ Has(mail'[i], Theirs(i)) <=> Has(mail[i], Theirs(i))
              /\ Has(mail'[i], Own(i) \cup Theirs(i))
                   <=> Has(mail[i], Own(i) \cup Theirs(i))
          BY <1>6, <4>3
        <5>3. \A k \in DOMAIN mail'[i] : mail'[i][k] \in Own(i) =>
                Queued(i, "MOVD") \/ Has(mail[i], Theirs(i)) \/ mail'[i][k].board = board
          BY <1>7, <3>2 DEF Round, Grids
        <5> QED BY <1>3, <3>2, <3>3, <3>4, <4>a, <5>1, <5>2, <5>3 DEF Round, Grids
      <4> QED BY <4>1, <4>2, <4>3
    <3> QED BY <2>3, <3>5, <3>6, <3>7, <3>8 DEF Round
  <2> QED BY <2>2, <2>3
<1>14. Endings'
  <2>1. ASSUME told[i] # "none", ended'[i] = "no"
        PROVE  mail'[i] # <<>> /\ mail'[i][Len(mail'[i])] \in Outcomes
    <3>1. m \notin Outcomes /\ mail[i][Len(mail[i])] \in Outcomes
      BY <1>2, <1>8, <2>1 DEF FInv, Endings
    <3>2. Len(mail[i]) # 1
      BY <1>1, <1>2, <1>4, <3>1
    <3>3. PICK s \in Seq(Items) : s = mail[i] /\ s # <<>>
      BY <1>2, <1>4
    <3>4. Tail(s) # <<>> /\ Tail(s)[Len(Tail(s))] = s[Len(s)]
      BY <3>2, <3>3, LastStays
    <3> QED BY <1>4, <3>1, <3>3, <3>4
  <2>2. m \in Outcomes => told[i] # "none"
    BY <1>6 DEF FInv, Endings
  <2>3. Has(mail'[i], Outcomes) => told[i] # "none"
    BY <1>6 DEF FInv, Endings
  <2>4. \A j \in Player :
          /\ ended'[j] # "no" \/ Has(mail'[j], Outcomes) => told[j] # "none"
          /\ told[j] # "none" /\ ended'[j] = "no" =>
               \/ mail'[j] # <<>> /\ mail'[j][Len(mail'[j])] \in Outcomes
               \/ Crossed(j) /\ mail'[j] = <<>>
          /\ ended'[j] = "drop" => Crossed(j)
    <3>1. ASSUME NEW j \in Player, j # i
          PROVE  mail'[j] = mail[j] /\ ended'[j] = ended[j]
      BY <1>4, <1>8, <3>1
    <3>2. CASE m \in Outcomes
      BY <1>8, <2>2, <2>3, <3>1, <3>2 DEF FInv, Endings
    <3>3. CASE m \notin Outcomes
      BY <1>8, <2>1, <2>3, <3>1, <3>3 DEF FInv, Endings
    <3> QED BY <3>2, <3>3
  <2>5. \A j \in Player : Crossed(j)' = Crossed(j)
    BY <1>2, <1>3 DEF Crossed
  <2> QED BY <1>2, <1>3, <2>4, <2>5 DEF FInv, Endings
<1> QED BY <1>9, <1>10, <1>12, <1>13, <1>14 DEF FInv

\* When the thread has left its loop, both clients have been told.
LEMMA BothTold ==
  ASSUME FInv, SafeGame, pc \in {"free", "done"}
  PROVE  result # "none" /\ \A i \in Player : told[i] # "none"
<1>1. result # "none"
  BY DEF FInv, Endings
<1>2. outq = <<>>
  BY DEF SafeGame, IInv, QueueOK
<1>3. \A i \in Player : peer[i] = "up" /\ Other(i) \in Player
  BY Players DEF FInv, FairTypes
<1> QED BY <1>1, <1>2, <1>3 DEF SafeGame, OverOwed

LEMMA SeeDropStep ==
  ASSUME FInv, SafeGame, NEW i \in Player, SeeDrop(i)
  PROVE  FInv'
<1>1. /\ ended[i] = "no" /\ mail[i] = <<>> /\ i \notin open
      /\ ended' = [ended EXCEPT ![i] = "drop"]
      /\ awaiting' = [awaiting EXCEPT ![i] = "nothing"]
      /\ UNCHANGED <<vars, contents, known, suggested>>
  BY DEF SeeDrop
<1>2. UNCHANGED <<board, is_draw_suggested, draw_response_index, outq, pc, after,
                  index, offered, result, open, told, msg_buffer, inbox, peer,
                  sent, mail, error, late>>
  BY <1>1 DEF vars, thread, control, conns, history, contents
<1>3. pc \in {"free", "done"}
  BY <1>1 DEF FInv, Endings
<1>4. result # "none" /\ told[i] # "none"
  BY <1>3, BothTold
<1>5. Crossed(i) /\ \A j \in Player : Crossed(j)' = Crossed(j)
  BY <1>1, <1>2, <1>4 DEF FInv, Endings, Crossed
<1>6. /\ ended' \in [Player -> {"no", "OVER", "drop"}]
      /\ awaiting' \in [Player -> {"nothing", "MOVE", "DRAW S", "RSGN"}]
      /\ \A j \in Player : j # i => ended'[j] = ended[j] /\ awaiting'[j] = awaiting[j]
      /\ ended'[i] = "drop"
  BY <1>1 DEF FInv, FairTypes
<1>7. FairTypes' /\ Counted'
  BY <1>1, <1>2, <1>6 DEF FInv, FairTypes, Counted
<1>8. GoingOn'
  BY <1>2, <1>4 DEF GoingOn, Round
<1>9. Mails'
  <2> SUFFICES ASSUME NEW j \in Player, ended'[j] = "no" PROVE Mail(j)'
    BY DEF Mails
  <2> QED BY <1>1, <1>2, <1>6, SameMail DEF FInv, Mails
<1>10. Endings'
  BY <1>2, <1>4, <1>5, <1>6 DEF FInv, Endings
<1> QED BY <1>7, <1>8, <1>9, <1>10 DEF FInv

-----------------------------------------------------------------------------
(* The steps of the thread.                                                 *)

LEMMA ChooseFair ==
  ASSUME FInv, SafeGame, Choose, UNCHANGED <<contents, fair>>
  PROVE  FInv'
<1>1. /\ pc = "poll" /\ pc' = "recv"
      /\ UNCHANGED <<board, is_draw_suggested, draw_response_index, outq, after,
                     offered, result, open, told, msg_buffer, inbox, peer,
                     sent, mail, error, late, known, awaiting, suggested, ended>>
  BY DEF Choose, conns, history, contents, fair
<1>2. sent[index'] # <<>>
  <2>1. \A i \in Player : /\ peer[i] = "up" /\ Len(sent[i]) = msg_buffer[i] + inbox[i]
                          /\ msg_buffer[i] \in Nat /\ inbox[i] \in Nat
    <3>1. peer = [i \in Player |-> "up"]
      BY DEF FInv, FairTypes
    <3>2. \A i \in Player : Len(sent[i]) = msg_buffer[i] + inbox[i]
      BY DEF FInv, Counted
    <3>3. \A i \in Player : msg_buffer[i] \in Nat /\ inbox[i] \in Nat
      BY DEF SafeGame, IInv, TypeOK
    <3> QED BY <3>1, <3>2, <3>3
  <2>2. index' \in Player /\ (msg_buffer[index'] > 0 \/ inbox[index'] > 0)
    BY <2>1 DEF Choose, Buffered, Readable, Player
  <2> QED BY <2>1, <2>2
<1>3. FairTypes' /\ Counted'
  BY <1>1, <1>2 DEF FInv, FairTypes, Counted
<1>4. GoingOn'
  <2> SUFFICES ASSUME result = "none", NEW i \in Player PROVE Round(i)'
    BY <1>1 DEF GoingOn, Round
  <2> QED BY <1>1, Unaffected DEF FInv, GoingOn, Round
<1>5. Mails'
  BY <1>1, SameMail DEF FInv, Mails
<1>6. Endings'
  BY <1>1 DEF FInv, Endings, Crossed
<1> QED BY <1>3, <1>4, <1>5, <1>6 DEF FInv

LEMMA MoveTurn ==
  ASSUME NEW b \in Boards, NEW c \in Cell, NEW i \in Player, ItsTurn(i, b), b[c] = Empty,
         NEW new, new = Claim(b, role[i], c)
  PROVE  new \in Boards /\ Mine(i, new) /\ ~Mine(Other(i), new)
<1>1. new \in Boards
  BY Players, ClaimType
<1>2. Mine(i, new)
  <2> DEFINE x  == Cardinality(CellsOf(b, "X"))
             o  == Cardinality(CellsOf(b, "O"))
             x1 == Cardinality(CellsOf(new, "X"))
             o1 == Cardinality(CellsOf(new, "O"))
  <2>1. /\ MarksOn(b, "X") = x /\ MarksOn(b, "O") = o
        /\ MarksOn(new, "X") = x1 /\ MarksOn(new, "O") = o1
    BY DEF MarksOn, CellsOf
  <2>2. /\ x \in Nat /\ o \in Nat
        /\ role[i] = "X" => x1 = x + 1 /\ o1 = o
        /\ role[i] = "O" => o1 = o + 1 /\ x1 = x
    <3>1. role[i] \in Mark
      BY Players
    <3> QED BY <3>1, CountClaim DEF Mark
  <2> HIDE DEF x, o, x1, o1
  <2>3. CASE i = 0
    BY <2>1, <2>2, <2>3 DEF ItsTurn, Mine, Other, role, Player
  <2>4. CASE i = 1
    BY <2>1, <2>2, <2>4 DEF ItsTurn, Mine, Other, role, Player
  <2> QED BY <2>3, <2>4 DEF Player
<1>3. ~Mine(Other(i), new)
  BY <1>1, <1>2, Players, Turnwise
<1> QED BY <1>1, <1>2, <1>3

\* What all handlers do.
LEMMA Handling ==
  ASSUME FInv, SafeGame, HandleMessage, UNCHANGED fair
  PROVE  /\ FairTypes' /\ Counted' /\ Mails' /\ Endings'
         /\ pc = "recv" /\ pc' = "send" /\ result = "none"
         /\ UNCHANGED <<turn, is_draw_suggested, draw_response_index, index, offered,
                        mail, known, awaiting, suggested>>
<1>1. PICK m : m = Head(sent[index])
  OBVIOUS
<1>2. /\ pc = "recv" /\ index \in Player /\ result = "none" /\ sent[index] # <<>>
      /\ sent' = [sent EXCEPT ![index] = Tail(@)] /\ mail' = mail
      /\ error' \in {"none", "occupied", "!protocol"}
  BY <1>1, Decoded
<1>3. /\ Received /\ pc' = "send"
      /\ UNCHANGED <<turn, is_draw_suggested, draw_response_index, index, peer, open,
                     told, offered>>
      /\ after' = "break" => result' # "none"
  <2>1. CASE Resign
    BY <2>1, <1>2, Players DEF Resign, Reply, thread, history, Mark
  <2>2. CASE DrawReject \/ DrawSuggest
    BY <2>2 DEF DrawReject, DrawSuggest, Reply, thread, history
  <2>3. CASE DrawAccept
    BY <2>3 DEF DrawAccept, Reply, thread, history
  <2>4. CASE Received /\ Refuse /\ UNCHANGED <<thread, peer, open, result, history>>
    BY <2>4 DEF Refuse, Reply, thread, history
  <2>5. CASE \E c \in Attempts : Move(role[index], c)
    <3>1. PICK c \in Attempts : Move(role[index], c)
      BY <2>5
    <3>2. Status(board') = "W" => Winner(board') \in Mark
      BY WinnerIsMark DEF Status
    <3> QED BY <3>1, <3>2 DEF Move, Reply, history, Mark
  <2> QED BY <1>1, <2>1, <2>2, <2>3, <2>4, <2>5, Fairly
<1>4. \A j, k \in DOMAIN outq' : outq'[j].to = outq'[k].to => j = k
  <2>1. ASSUME NEW a \in Player, NEW k, outq' = <<To(a, k)>>
        PROVE  \A j, l \in DOMAIN outq' : j = l
    BY <2>1
  <2>2. ASSUME NEW a \in Player, NEW k, NEW l, outq' = <<To(a, k), To(Other(a), l)>>
        PROVE  \A n, p \in DOMAIN outq' : outq'[n].to = outq'[p].to => n = p
    <3>1. DOMAIN outq' = {1, 2} /\ outq'[1].to = a /\ outq'[2].to = Other(a)
      BY <2>2 DEF To
    <3> QED BY <3>1, Players
  <2>3. 0 \in Player /\ 1 = Other(0) /\ Other(index) \in Player
    BY <1>2, Players DEF Player, Other
  <2>4. CASE Resign \/ DrawAccept
    BY <1>2, <2>2, <2>3, <2>4 DEF Resign, DrawAccept, Reply
  <2>5. CASE DrawReject \/ DrawSuggest \/ Refuse
    BY <1>2, <2>1, <2>3, <2>5 DEF DrawReject, DrawSuggest, Refuse, Reply
  <2>6. CASE \E c \in Attempts : Move(role[index], c)
    <3>1. PICK c \in Attempts : Move(role[index], c)
      BY <2>6
    <3>2. PICK w \in Player : w = IF Winner(board') = role[index] THEN index ELSE Other(index)
      BY <1>2, <2>3
    <3>3. \/ outq' = <<To(w, "OVER_W"), To(Other(w), "OVER_L")>>
          \/ outq' = <<To(0, "OVER_D"), To(1, "OVER_D")>>
          \/ outq' = <<To(0, "MOVD"), To(1, "MOVD")>>
      BY <3>1, <3>2 DEF Move, Reply
    <3> QED BY <2>2, <2>3, <3>3
  <2> QED BY <1>1, <2>4, <2>5, <2>6, Fairly
<1>5. /\ sent[index] \in Seq(Asked(index) \cup Answered)
      /\ \A i \in Player : i # index => sent'[i] = sent[i]
      /\ sent'[index] = Tail(sent[index]) /\ DOMAIN sent' = Player
  BY <1>2 DEF FInv, FairTypes
<1>6. FairTypes'
  <2>1. \A i \in Player : sent'[i] \in Seq(Asked(i) \cup Answered)
    <3>1. sent'[index] \in Seq(Asked(index) \cup Answered)
      BY <1>2, <1>5
    <3> QED BY <1>5, <3>1 DEF FInv, FairTypes
  <2> QED BY <1>2, <1>3, <1>5, <2>1 DEF FInv, FairTypes, fair
<1>7. Counted'
  <2>1. /\ \A i \in Player : msg_buffer[i] \in Nat /\ inbox[i] \in Nat
        /\ DOMAIN msg_buffer = Player /\ DOMAIN inbox = Player
    BY DEF SafeGame, IInv, TypeOK
  <2>2. /\ \A i \in Player : i # index =>
             msg_buffer'[i] = msg_buffer[i] /\ inbox'[i] = inbox[i]
        /\ msg_buffer'[index] + inbox'[index] = msg_buffer[index] + inbox[index] - 1
    <3>1. CASE /\ msg_buffer[index] > 0
               /\ msg_buffer' = [msg_buffer EXCEPT ![index] = @ - 1]
               /\ inbox' = inbox
      BY <1>2, <2>1, <3>1
    <3>2. CASE /\ inbox[index] > 0
               /\ msg_buffer' = [msg_buffer EXCEPT ![index] = @ + inbox[index] - 1]
               /\ inbox' = [inbox EXCEPT ![index] = 0]
      BY <1>2, <2>1, <3>2
    <3> QED BY <1>3, <3>1, <3>2 DEF Received
  <2>3. Len(sent'[index]) = Len(sent[index]) - 1
    BY <1>2, <1>5
  <2>4. \A i \in Player : Len(sent[i]) = msg_buffer[i] + inbox[i]
    BY DEF FInv, Counted
  <2>5. \A i \in Player : i # index => Len(sent'[i]) = msg_buffer'[i] + inbox'[i]
    BY <1>5, <2>2, <2>4
  <2>6. Len(sent'[index]) = msg_buffer'[index] + inbox'[index]
    BY <1>2, <2>1, <2>2, <2>3, <2>4
  <2> QED BY <1>3, <2>5, <2>6 DEF Counted
<1>8. Mails'
  BY <1>2, SameMail DEF FInv, Mails, fair
<1>9. Endings'
  <2>1. \A i \in Player : ended[i] = "no" /\ told[i] = "none" /\ ~Has(mail[i], Outcomes)
    BY <1>2, Unended
  <2>2. open = Player /\ late \cap open = {} /\ late' = late
    BY <1>2 DEF FInv, Endings, HandleMessage
  <2> QED BY <1>2, <1>3, <1>4, <2>1, <2>2 DEF Endings, fair
<1> QED BY <1>2, <1>3, <1>6, <1>7, <1>8, <1>9 DEF fair

\* What is left with the thread, and what it has just taken.
LEMMA Taken ==
  ASSUME FInv, SafeGame, HandleMessage, UNCHANGED fair, NEW i \in Player
  PROVE  /\ Round(i) /\ offered[i] = OnOffer(i) /\ OnOffer(i)' = OnOffer(i)
         /\ Offering(i) <=> OnOffer(Other(i))
         /\ \A S : /\ Has(sent'[i], S) => Has(sent[i], S)
                   /\ Once(sent[i], S) => Once(sent'[i], S)
                   /\ i = index /\ Head(sent[i]) \in S =>
                        Has(sent[i], S) /\ (Once(sent[i], S) => ~Has(sent'[i], S))
<1>1. /\ pc = "recv" /\ result = "none"
      /\ UNCHANGED <<is_draw_suggested, draw_response_index>>
  BY Handling
<1>2. Round(i) /\ offered[i] = OnOffer(i)
  BY <1>1, Listening DEF FInv, GoingOn, Round
<1>3. OnOffer(i)' = OnOffer(i) /\ (Offering(i) <=> OnOffer(Other(i)))
  BY <1>1 DEF OnOffer, Offering
<1>4. CASE i = index
  <2>1. /\ sent[i] # <<>> /\ sent' = [sent EXCEPT ![index] = Tail(@)]
        /\ index \in Player
    BY <1>4, Decoded
  <2>2. sent[i] \in Seq(Asked(i) \cup Answered) /\ sent'[i] = Tail(sent[i])
    BY <1>4, <2>1 DEF FInv, FairTypes
  <2> QED BY <1>2, <1>3, <2>1, <2>2, InTail
<1>5. CASE i # index
  <2>1. sent' = [sent EXCEPT ![index] = Tail(@)]
    BY Decoded
  <2>2. sent'[i] = sent[i]
    BY <1>5, <2>1 DEF FInv, FairTypes
  <2> QED BY <1>2, <1>3, <1>5, <2>2
<1> QED BY <1>4, <1>5

\* A client to which the handler does not reply.
LEMMA NoReply ==
  ASSUME FInv, SafeGame, HandleMessage, UNCHANGED fair, NEW i \in Player,
         board' = board, ~Queued(i, "INVL")', ~Queued(i, "MOVD")',
         Offering(i)' <=> Offering(i),
         Rejecting(i)' => /\ ~Has(sent'[i], Answered) /\ i \notin suggested
                          /\ ~Has(mail[i], Suggestions)
  PROVE  Round(i)'
<1>1. /\ Round(i) /\ OnOffer(i)' = OnOffer(i)
      /\ \A S : /\ Has(sent'[i], S) => Has(sent[i], S)
                /\ Once(sent[i], S) => Once(sent'[i], S)
  BY Taken
<1>2. UNCHANGED <<mail, known, awaiting, suggested, offered>> /\ pc = "recv"
  BY Handling
<1>3. result = "none" /\ \A k : ~Queued(i, k)
  BY <1>2, Listening
<1>4. OneRequest(i)'
  BY <1>1, <1>2 DEF Round, OneRequest, Replying
<1>5. Awaited(i)'
  BY <1>1, <1>2 DEF Round, Awaited
<1>6. OneSuggestion(i)'
  BY <1>1, <1>2 DEF Round, OneSuggestion
<1>7. Grids(i)'
  BY <1>1, <1>2, <1>3 DEF Round, Grids
<1> QED BY <1>4, <1>5, <1>6, <1>7 DEF Round

LEMMA RefuseRound ==
  ASSUME FInv, SafeGame, HandleMessage, UNCHANGED fair,
         NEW m, m = Head(sent[index]), m = DRAW("S") \/ m \in MovesOf(index),
         OnOffer(index), Refuse, UNCHANGED <<thread, result>>, NEW i \in Player
  PROVE  Round(i)'
<1>1. /\ outq' = <<To(index, "INVL")>> /\ after' = "loop" /\ board' = board
      /\ index' = index /\ index \in Player /\ pc = "recv"
      /\ UNCHANGED <<mail, known, awaiting, suggested, offered>>
  BY Handling DEF Refuse, Reply, thread, SafeGame, IInv, TypeOK
<1>2. /\ \A k : Queued(i, k)' <=> i = index /\ k = "INVL"
      /\ ~Rejecting(i)'
      /\ Offering(i)' <=> Offering(i)
  <2>1. OnOffer(Other(i))' = OnOffer(Other(i)) /\ (Offering(i) <=> OnOffer(Other(i)))
    BY Taken, Players
  <2>2. ~(pc = "send" /\ after = "suggest" /\ index = i)'
    BY <1>1
  <2>3. \A k : Queued(i, k)' <=> i = index /\ k = "INVL"
    BY <1>1 DEF Queued, To
  <2> QED BY <1>1, <2>1, <2>2, <2>3 DEF Offering, Rejecting
<1>3. CASE i # index
  BY <1>1, <1>2, <1>3, NoReply
<1>4. CASE i = index
  <2>1. /\ Round(i) /\ offered[i] /\ OnOffer(i)' /\ ~Offering(i)'
        /\ \A S : /\ Has(sent'[i], S) => Has(sent[i], S)
                  /\ Once(sent[i], S) => Once(sent'[i], S)
                  /\ m \in S =>
                       Has(sent[i], S) /\ (Once(sent[i], S) => ~Has(sent'[i], S))
    BY <1>2, <1>4, Taken, OneOffer
  <2>2. m \in Asked(i)
    BY <1>4 DEF Asked
  <2>3. ~Has(sent'[i], Asked(i)) /\ ~Has(mail[i], ReplyTo(i)) /\ Once(sent'[i], Asked(i))
    BY <2>1, <2>2 DEF Round, OneRequest
  <2>4. awaiting[i] \in {"MOVE", "DRAW S"}
    <3>1. Has(sent[i], {DRAW("S")}) \/ Has(sent[i], MovesOf(i))
      BY <1>4, <2>1
    <3> QED BY <2>1, <3>1 DEF Round, Awaited
  <2>5. OneRequest(i)'
    BY <1>1, <2>1, <2>3 DEF OneRequest
  <2>6. Awaited(i)'
    <3>1. /\ Has(sent'[i], {RSGN}) => awaiting[i] = "RSGN"
          /\ Has(sent'[i], {DRAW("S")}) => awaiting[i] = "DRAW S"
          /\ Has(sent'[i], MovesOf(i)) => awaiting[i] = "MOVE"
      BY <2>1 DEF Round, Awaited
    <3>2. ~Queued(i, "MOVD")' /\ offered'[i]
      BY <1>1, <1>2, <2>1
    <3> QED BY <1>1, <2>1, <2>4, <3>1, <3>2 DEF Awaited
  <2>7. OneSuggestion(i)'
    BY <1>1, <1>2, <2>1 DEF Round, OneSuggestion
  <2>8. Grids(i)'
    <3>1. result = "none" /\ \A k : ~Queued(i, k)
      BY <1>1, Listening
    <3> QED BY <1>1, <1>2, <2>1, <3>1 DEF Round, Grids
  <2> QED BY <2>5, <2>6, <2>7, <2>8 DEF Round
<1> QED BY <1>3, <1>4

LEMMA SuggestRound ==
  ASSUME FInv, SafeGame, HandleMessage, UNCHANGED fair,
         DRAW("S") = Head(sent[index]), DrawSuggest, NEW i \in Player
  PROVE  Round(i)'
<1>1. /\ outq' = <<To(Other(index), "DRAW_S")>> /\ after' = "suggest"
      /\ board' = board /\ index' = index /\ index \in Player /\ pc = "recv"
      /\ pc' = "send"
      /\ UNCHANGED <<mail, known, awaiting, suggested, offered>>
  BY Handling DEF DrawSuggest, Reply, thread, SafeGame, IInv, TypeOK
<1>2. /\ ~Queued(i, "INVL")' /\ ~Queued(i, "MOVD")' /\ ~Rejecting(i)'
      /\ ~Replying(i)'
  BY <1>1 DEF Queued, To, Rejecting, Replying
<1>3. CASE i # index
  <2>1. OnOffer(Other(i))' = OnOffer(Other(i)) /\ (Offering(i) <=> OnOffer(Other(i)))
    BY Taken, Players
  <2>2. ~(pc = "send" /\ after = "suggest" /\ index = i)'
    BY <1>1, <1>3
  <2>3. Offering(i)' <=> Offering(i)
    BY <2>1, <2>2 DEF Offering
  <2> QED BY <1>1, <1>2, <2>3, NoReply
<1>4. CASE i = index
  <2>1. /\ Round(i) /\ OnOffer(i)' = OnOffer(i)
        /\ \A S : /\ Has(sent'[i], S) => Has(sent[i], S)
                  /\ Once(sent[i], S) => Once(sent'[i], S)
                  /\ DRAW("S") \in S =>
                       Has(sent[i], S) /\ (Once(sent[i], S) => ~Has(sent'[i], S))
    BY <1>4, Taken
  <2>2. DRAW("S") \in Asked(i)
    BY DEF Asked
  <2>3. ~Has(sent'[i], Asked(i)) /\ ~Has(mail[i], ReplyTo(i)) /\ Once(sent'[i], Asked(i))
    BY <2>1, <2>2 DEF Round, OneRequest
  <2>4. awaiting[i] = "DRAW S"
    <3>1. Has(sent[i], {DRAW("S")})
      BY <2>1
    <3> QED BY <2>1, <3>1 DEF Round, Awaited
  <2>5. OneRequest(i)'
    BY <1>1, <1>2, <2>1, <2>3 DEF OneRequest
  <2>6. Awaited(i)'
    <3>1. /\ Has(sent[i], {RSGN}) => awaiting[i] = "RSGN"
          /\ Has(sent[i], MovesOf(i)) => awaiting[i] = "MOVE"
      BY <2>1 DEF Round, Awaited
    <3>2. /\ Has(sent'[i], {RSGN}) => awaiting[i] = "RSGN"
          /\ Has(sent'[i], MovesOf(i)) => awaiting[i] = "MOVE"
      BY <2>1, <3>1
    <3> QED BY <1>1, <1>2, <2>4, <3>2 DEF Awaited
  <2>7. OneSuggestion(i)'
    BY <1>1, <1>2, <2>1 DEF Round, OneSuggestion
  <2>8. Grids(i)'
    <3>1. result = "none" /\ \A k : ~Queued(i, k)
      BY <1>1, Listening
    <3> QED BY <1>1, <1>2, <2>1, <3>1 DEF Round, Grids
  <2> QED BY <2>5, <2>6, <2>7, <2>8 DEF Round
<1> QED BY <1>3, <1>4

LEMMA RejectRound ==
  ASSUME FInv, SafeGame, HandleMessage, UNCHANGED fair,
         DRAW("R") = Head(sent[index]), DrawReject, NEW i \in Player
  PROVE  Round(i)'
<1>1. /\ outq' = <<To(Other(index), "DRAW_R")>> /\ after' = "reject"
      /\ board' = board /\ index' = index
  BY DEF DrawReject, Reply, thread
<1>2. ~Queued(i, "INVL")' /\ ~Queued(i, "MOVD")'
  BY <1>1 DEF Queued, To
<1>3. Offering(i)' <=> Offering(i)
  <2>1. OnOffer(Other(i))' = OnOffer(Other(i)) /\ (Offering(i) <=> OnOffer(Other(i)))
    BY Taken, Players
  <2>2. ~(pc = "send" /\ after = "suggest" /\ index = i)'
    BY <1>1
  <2> QED BY <2>1, <2>2 DEF Offering
<1>4. ASSUME i = index
      PROVE  /\ ~Has(sent'[i], Answered) /\ i \notin suggested
             /\ ~Has(mail[i], Suggestions)
  <2>1. DRAW("R") \in Answered
    BY DEF Answered
  <2> QED BY <1>4, <2>1, Taken DEF Round, OneSuggestion
<1>5. Rejecting(i)' => i = index
  BY <1>1 DEF Rejecting
<1> QED BY <1>1, <1>2, <1>3, <1>4, <1>5, NoReply

LEMMA MoveRound ==
  ASSUME FInv, SafeGame, HandleMessage, UNCHANGED fair,
         NEW c \in Attempts, MOVE(role[index], c) = Head(sent[index]),
         Move(role[index], c), result' = "none", NEW i \in Player
  PROVE  Round(i)'
<1>1. /\ outq' = <<To(0, "MOVD"), To(1, "MOVD")>> /\ after' = "turn"
      /\ board' = Claim(board, role[index], c) /\ CanClaim(board, c)
      /\ is_draw_suggested = 0 /\ turn = index
  <2>1. Status(board') = "W" => Winner(board') \in Mark
    BY WinnerIsMark DEF Status
  <2> QED BY <2>1 DEF Move, MayMove, Reply, Mark
<1>2. /\ pc = "recv" /\ pc' = "send" /\ index' = index /\ index \in Player
      /\ UNCHANGED <<mail, known, awaiting, suggested, offered, is_draw_suggested>>
      /\ result = "none"
  BY Handling DEF SafeGame, IInv, TypeOK
<1>3. ItsTurn(index, board) /\ \A k : ~Queued(i, k)
  BY <1>1, <1>2, Listening
<1>4. Mine(index, board') /\ ~Mine(Other(index), board')
  <2>1. c \in Cell /\ board \in Boards /\ board[c] = Empty
    BY <1>1, GameAssumption DEF CanClaim, SafeGame, IInv, TypeOK
  <2> QED BY <1>1, <1>2, <1>3, <2>1, MoveTurn
<1>5. /\ Queued(i, "MOVD")' /\ ~Queued(i, "INVL")' /\ ~Rejecting(i)' /\ ~Offering(i)'
  <2>1. Queued(i, "MOVD")'
    <3>1. \E k \in DOMAIN outq' : outq'[k] = To(i, "MOVD")
      BY <1>1 DEF Player
    <3> QED BY <3>1 DEF Queued
  <2>2. ~Queued(i, "INVL")'
    BY <1>1 DEF Queued, To
  <2> QED BY <1>1, <1>2, <2>1, <2>2 DEF Rejecting, Offering, OnOffer
<1>6. /\ Round(i) /\ OnOffer(i)' = OnOffer(i)
      /\ \A S : /\ Has(sent'[i], S) => Has(sent[i], S)
                /\ Once(sent[i], S) => Once(sent'[i], S)
  BY Taken
<1>7. Mail(i) /\ mail[i] \in Seq(Items)
  BY <1>2, Unended DEF FInv, FairTypes
<1>8. OneSuggestion(i)'
  BY <1>2, <1>5, <1>6 DEF Round, OneSuggestion
<1>9. CASE i = index
  <2>1. /\ Has(sent[i], Asked(i)) /\ Has(sent[i], MovesOf(i)) /\ ~Has(sent'[i], Asked(i))
    <3>1. MOVE(role[i], c) \in Asked(i) /\ MOVE(role[i], c) \in MovesOf(i)
      BY DEF MovesOf, Asked
    <3> QED BY <1>9, <3>1, Taken DEF Round, OneRequest
  <2>2. ~Has(mail[i], ReplyTo(i)) /\ awaiting[i] = "MOVE"
    BY <1>6, <2>1 DEF Round, OneRequest, Awaited
  <2>3. OneRequest(i)'
    BY <1>2, <1>5, <1>6, <2>1, <2>2 DEF Round, OneRequest
  <2>4. Awaited(i)'
    BY <1>2, <1>5, <1>6, <2>2 DEF Round, Awaited
  <2>5. ~Has(mail[i], Theirs(i))
    <3>1. ~Has(mail[i], Own(i))
      BY <2>2, InSubset DEF ReplyTo
    <3> QED BY <1>7, <2>2, <3>1 DEF Mail
  <2>6. Grids(i)'
    <3>1. \A k \in DOMAIN mail[i] : mail[i][k] \notin Theirs(i)
      BY <2>5 DEF Has
    <3> QED BY <1>2, <1>4, <1>5, <1>6, <1>9, <3>1 DEF Round, Grids
  <2> QED BY <1>8, <2>3, <2>4, <2>6 DEF Round
<1>10. CASE i # index
  <2>1. i = Other(index) /\ ~Mine(i, board') /\ Other(i) = index
    BY <1>2, <1>4, <1>10, Players DEF Player, Other
  <2>2. Mine(i, board) /\ ~ItsTurn(i, board)
    <3>1. Mine(i, board)
      BY <1>3, <2>1 DEF Mine
    <3> QED BY <3>1, Turnwise DEF SafeGame, IInv, TypeOK
  <2>3. \A k \in DOMAIN mail[i] : mail[i][k] \notin Theirs(i)
    <3> SUFFICES ASSUME NEW k \in DOMAIN mail[i], mail[i][k] \in Theirs(i)
                 PROVE  FALSE
      OBVIOUS
    <3>1. mail[i][k].board = board
      BY <1>6 DEF Round, Grids
    <3> QED BY <2>2, <3>1 DEF Theirs
  <2>4. Has(mail[i], Own(i)) \/ ~ItsTurn(i, known[i])
    <3>1. Has(mail[i], Own(i) \cup Theirs(i)) \/ known[i] = board
      BY <1>3, <1>6 DEF Round, Grids
    <3> QED BY <2>2, <2>3, <3>1 DEF Has
  <2>5. ~(Queued(i, "MOVD") /\ Mine(i, board))'
    BY <2>1
  <2>6. OneRequest(i)'
    BY <1>2, <1>5, <1>6, <2>5 DEF Round, OneRequest, Replying
  <2>7. Awaited(i)'
    BY <1>2, <1>5, <1>6, <2>5 DEF Round, Awaited
  <2>8. Grids(i)'
    BY <1>2, <1>5, <1>6, <2>3, <2>4 DEF Round, Grids
  <2> QED BY <1>8, <2>6, <2>7, <2>8 DEF Round
<1> QED BY <1>9, <1>10

LEMMA HandleFair ==
  ASSUME FInv, SafeGame, HandleMessage, UNCHANGED fair
  PROVE  FInv'
<1>1. GoingOn'
  <2> SUFFICES ASSUME result' = "none", NEW i \in Player PROVE Round(i)'
    BY DEF GoingOn, Round
  <2>1. PICK m : m = Head(sent[index])
    OBVIOUS
  <2>2. ~Resign /\ ~DrawAccept
    <3>1. index \in Player
      BY DEF SafeGame, IInv, TypeOK
    <3> QED BY <3>1, Players DEF Resign, DrawAccept, Mark
  <2>3. CASE DrawReject /\ m = DRAW("R")
    BY <2>1, <2>3, RejectRound
  <2>4. CASE DrawSuggest /\ m = DRAW("S")
    BY <2>1, <2>4, SuggestRound
  <2>5. CASE /\ m = DRAW("S") \/ m \in MovesOf(index)
             /\ OnOffer(index) /\ Received /\ Refuse
             /\ UNCHANGED <<thread, peer, open, result, history>>
    BY <2>1, <2>5, RefuseRound
  <2>6. CASE \E c \in Attempts : m = MOVE(role[index], c) /\ Move(role[index], c)
    BY <2>1, <2>6, MoveRound
  <2> QED BY <2>1, <2>2, <2>3, <2>4, <2>5, <2>6, Fairly
<1> QED BY <1>1, Handling DEF FInv

\* What a write does, and what it leaves to be written.
LEMMA Sending ==
  ASSUME FInv, SafeGame, WriteNext, UNCHANGED fair, NEW m, m = Head(outq)
  PROVE  /\ pc = "send" /\ m.to \in Player /\ m.kind \in Kinds
         /\ Deliver(m) /\ 1 \in DOMAIN outq /\ outq[1] = m
         /\ outq' = Tail(outq) /\ outq \in Seq([to : Player, kind : Kinds])
         /\ IF outq' = <<>> THEN Finish
            ELSE UNCHANGED <<pc, turn, is_draw_suggested, draw_response_index>>
         /\ UNCHANGED <<board, index, after, result, open, sent, error, late,
                        msg_buffer, inbox, peer, known, awaiting, suggested, ended>>
         /\ mail' = [mail EXCEPT ![m.to] = Append(@, Written(m.kind))]
         /\ \A j, k \in DOMAIN outq' : outq'[j].to = outq'[k].to => j = k
         /\ \A i \in Player : \A k :
              /\ Queued(i, k) <=> Queued(i, k)' \/ (i = m.to /\ k = m.kind)
              /\ i = m.to => ~Queued(i, k)'
<1>1. /\ pc = "send" /\ Send /\ UNCHANGED <<sent, error, late>>
      /\ mail' = IF peer[m.to] = "up"
                 THEN [mail EXCEPT ![m.to] = Append(@, Written(m.kind))]
                 ELSE mail
  BY DEF WriteNext
<1>2. /\ Deliver(m) /\ outq' = Tail(outq)
      /\ IF outq' = <<>> THEN Finish
         ELSE UNCHANGED <<pc, turn, is_draw_suggested, draw_response_index>>
      /\ UNCHANGED <<board, index, after, result, open, msg_buffer, inbox, peer>>
  BY <1>1 DEF Send, conns
<1>3. outq \in Seq([to : Player, kind : Kinds]) /\ outq # <<>>
  BY <1>1 DEF SafeGame, IInv, TypeOK, QueueOK
<1>4. /\ m \in [to : Player, kind : Kinds] /\ 1 \in DOMAIN outq /\ outq[1] = m
      /\ \A k \in DOMAIN Tail(outq) : /\ k + 1 \in DOMAIN outq /\ k \in Nat /\ k # 0
                                      /\ Tail(outq)[k] = outq[k + 1]
      /\ \A k \in DOMAIN outq : \/ k = 1
                                \/ /\ k - 1 \in DOMAIN Tail(outq)
                                   /\ Tail(outq)[k - 1] = outq[k]
  <2>1. /\ m \in [to : Player, kind : Kinds] /\ 1 \in DOMAIN outq /\ outq[1] = m
        /\ \A k \in DOMAIN Tail(outq) : k + 1 \in DOMAIN outq /\ Tail(outq)[k] = outq[k + 1]
    BY <1>3, TailOfQueue
  <2>2. \A k \in DOMAIN Tail(outq) : k \in Nat /\ k # 0
    BY <1>3
  <2>3. \A k \in DOMAIN outq : \/ k = 1
                                \/ /\ k - 1 \in DOMAIN Tail(outq)
                                   /\ Tail(outq)[k - 1] = outq[k]
    BY <1>3
  <2> QED BY <2>1, <2>2, <2>3
<1>5. peer[m.to] = "up"
  BY <1>4 DEF FInv, FairTypes
<1>6. \A j, k \in DOMAIN outq : outq[j].to = outq[k].to => j = k
  BY DEF FInv, Endings
<1>7. \A j, k \in DOMAIN outq' : outq'[j].to = outq'[k].to => j = k
  <2> SUFFICES ASSUME NEW j \in DOMAIN outq', NEW k \in DOMAIN outq',
                      outq'[j].to = outq'[k].to
               PROVE  j = k
    OBVIOUS
  <2>1. j + 1 = k + 1
    BY <1>2, <1>4, <1>6
  <2> QED BY <1>2, <1>4, <2>1
<1>8. ASSUME NEW i \in Player, NEW k
      PROVE  /\ Queued(i, k) <=> Queued(i, k)' \/ (i = m.to /\ k = m.kind)
             /\ i = m.to => ~Queued(i, k)'
  <2>1. To(i, k).to = i /\ To(i, k).kind = k /\ (m = To(i, k) <=> i = m.to /\ k = m.kind)
    BY <1>4 DEF To
  <2>2. Queued(i, k)' => Queued(i, k)
    BY <1>2, <1>4 DEF Queued
  <2>3. Queued(i, k) => m = To(i, k) \/ Queued(i, k)'
    BY <1>2, <1>4 DEF Queued
  <2>4. m = To(i, k) => Queued(i, k)
    BY <1>4 DEF Queued
  <2>5. ASSUME i = m.to, Queued(i, k)' PROVE FALSE
    <3>1. PICK l \in DOMAIN outq' : outq'[l] = To(i, k)
      BY <2>5 DEF Queued
    <3>2. l + 1 \in DOMAIN outq /\ outq[l + 1].to = outq[1].to /\ l \in Nat /\ l # 0
      BY <1>2, <1>4, <2>1, <2>5, <3>1
    <3>3. l + 1 = 1
      BY <1>4, <1>6, <3>2
    <3> QED BY <3>2, <3>3
  <2> QED BY <2>1, <2>2, <2>3, <2>4, <2>5
<1> QED BY <1>1, <1>2, <1>3, <1>4, <1>5, <1>7, <1>8 DEF fair

\* What the client will find.
LEMMA Arriving ==
  ASSUME FInv, SafeGame, WriteNext, UNCHANGED fair,
         NEW m, m = Head(outq), NEW item, item = Written(m.kind)
  PROVE  /\ item \in Items /\ item.kind = m.kind
         /\ m.kind = "MOVD" => item.board = board
         /\ DOMAIN mail' = Player /\ \A i \in Player : mail'[i] \in Seq(Items)
         /\ \A i \in Player :
              /\ i # m.to => mail'[i] = mail[i]
              /\ i = m.to => /\ mail'[i] # <<>>
                             /\ mail'[i][Len(mail'[i])] = item
              /\ item \in Own(i) <=> m.kind = "MOVD" /\ Mine(i, board)
              /\ item \in Theirs(i) <=> m.kind = "MOVD" /\ ~Mine(i, board)
              /\ item \in ReplyTo(i) <=> \/ m.kind \in {"INVL", "DRAW_R"}
                                         \/ m.kind = "MOVD" /\ Mine(i, board)
              /\ \A S : /\ Has(mail'[i], S) <=> \/ Has(mail[i], S)
                                                \/ i = m.to /\ item \in S
                        /\ Once(mail'[i], S)
                             <=> /\ Once(mail[i], S)
                                 /\ i = m.to /\ item \in S => ~Has(mail[i], S)
              /\ \A k \in DOMAIN mail'[i] :
                   \/ k \in DOMAIN mail[i] /\ mail'[i][k] = mail[i][k]
                   \/ /\ i = m.to /\ mail'[i][k] = item
                      /\ \A j \in DOMAIN mail[i] : j < k
         /\ item \in Suggestions <=> m.kind = "DRAW_S"
         /\ item \in Outcomes <=> Verdict(m.kind) # "none"
<1>1. /\ m.to \in Player /\ m.kind \in Kinds
      /\ mail' = [mail EXCEPT ![m.to] = Append(@, item)]
  BY Sending
<1>2. item \in Items /\ item.kind = m.kind /\ (m.kind = "MOVD" => item.board = board)
  <2>1. board \in Boards /\ EmptyBoard \in Boards
    BY DEF SafeGame, IInv, TypeOK, EmptyBoard, Boards
  <2>2. error \in {"none", "occupied", "!protocol"}
    BY DEF FInv, FairTypes
  <2>3. CASE m.kind = "MOVD"
    BY <1>1, <2>1, <2>3 DEF Written, MOVD, Item, Items
  <2>4. CASE m.kind = "INVL"
    <3>1. item = INVL(error)
      BY <2>4 DEF Written
    <3> QED BY <1>1, <2>1, <2>2, <2>4, <3>1 DEF INVL, Item, Items
  <2>5. CASE m.kind \notin {"MOVD", "INVL"}
    <3>1. item = Plain(m.kind)
      BY <2>5 DEF Written
    <3> QED BY <1>1, <2>1, <2>5, <3>1 DEF Plain, Item, Items
  <2> QED BY <2>3, <2>4, <2>5
<1>3. /\ DOMAIN mail' = Player /\ mail[m.to] \in Seq(Items)
      /\ \A i \in Player : i # m.to => mail'[i] = mail[i]
      /\ mail'[m.to] = Append(mail[m.to], item)
      /\ \A i \in Player : mail[i] \in Seq(Items)
  BY <1>1 DEF FInv, FairTypes
<1>4. mail'[m.to] \in Seq(Items)
  BY <1>2, <1>3
<1>5. /\ item \in Suggestions <=> m.kind = "DRAW_S"
      /\ item \in Outcomes <=> Verdict(m.kind) # "none"
  BY <1>1, <1>2, Finding
<1>6. ASSUME NEW i \in Player
      PROVE  /\ item \in Own(i) <=> m.kind = "MOVD" /\ Mine(i, board)
             /\ item \in Theirs(i) <=> m.kind = "MOVD" /\ ~Mine(i, board)
             /\ item \in ReplyTo(i) <=> \/ m.kind \in {"INVL", "DRAW_R"}
                                        \/ m.kind = "MOVD" /\ Mine(i, board)
  <2>1. /\ item \in Own(i) <=> m.kind = "MOVD" /\ Mine(i, item.board)
        /\ item \in Theirs(i) <=> m.kind = "MOVD" /\ ~Mine(i, item.board)
    BY <1>2 DEF Own, Theirs, OfKind
  <2>2. item \in ReplyTo(i) <=> item.kind \in {"INVL", "DRAW_R"} \/ item \in Own(i)
    BY <1>2, Finding
  <2> QED BY <1>2, <2>1, <2>2
<1>7. ASSUME NEW i \in Player
      PROVE  /\ \A S : /\ Has(mail'[i], S) <=> \/ Has(mail[i], S)
                                               \/ i = m.to /\ item \in S
                       /\ Once(mail'[i], S)
                            <=> /\ Once(mail[i], S)
                                /\ i = m.to /\ item \in S => ~Has(mail[i], S)
             /\ \A k \in DOMAIN mail'[i] :
                  \/ k \in DOMAIN mail[i] /\ mail'[i][k] = mail[i][k]
                  \/ /\ i = m.to /\ mail'[i][k] = item
                     /\ \A j \in DOMAIN mail[i] : j < k
             /\ i = m.to => mail'[i] # <<>> /\ mail'[i][Len(mail'[i])] = item
  <2>1. CASE i # m.to
    BY <1>3, <2>1
  <2>2. CASE i = m.to
    <3>1. mail'[i] = Append(mail[i], item) /\ mail[i] \in Seq(Items)
      BY <1>3, <2>2
    <3>2. ASSUME NEW S
          PROVE  /\ Has(mail'[i], S) <=> Has(mail[i], S) \/ item \in S
                 /\ Once(mail'[i], S)
                      <=> Once(mail[i], S) /\ (item \in S => ~Has(mail[i], S))
      <4>1. /\ Has(Append(mail[i], item), S) <=> Has(mail[i], S) \/ item \in S
            /\ Once(Append(mail[i], item), S)
                 <=> Once(mail[i], S) /\ (item \in S => ~Has(mail[i], S))
        BY <1>2, <3>1, InAppend
      <4> QED BY <3>1, <4>1
    <3>3. \A k \in DOMAIN mail'[i] :
            \/ k \in DOMAIN mail[i] /\ mail'[i][k] = mail[i][k]
            \/ mail'[i][k] = item /\ \A j \in DOMAIN mail[i] : j < k
      BY <1>2, <3>1
    <3>4. mail'[i] # <<>> /\ mail'[i][Len(mail'[i])] = item
      BY <1>2, <3>1
    <3> QED BY <2>2, <3>2, <3>3, <3>4
  <2> QED BY <2>1, <2>2
<1>8. \A i \in Player : mail'[i] \in Seq(Items)
  BY <1>3, <1>4
<1> QED BY <1>2, <1>3, <1>5, <1>6, <1>7, <1>8

\* The thread and a client that is written to agree on what is under way.
LEMMA Sent ==
  ASSUME FInv, SafeGame, WriteNext, NEW m, m = Head(outq), result = "none"
  PROVE  /\ Verdict(m.kind) = "none" /\ after \in {"loop", "turn", "suggest", "reject"}
         /\ after = "suggest" => /\ outq = <<To(Other(index), "DRAW_S")>>
                                 /\ m = To(Other(index), "DRAW_S")
                                 /\ is_draw_suggested = 0
         /\ after = "reject" => /\ outq = <<To(Other(index), "DRAW_R")>>
                                /\ m = To(Other(index), "DRAW_R") /\ OnOffer(index)
         /\ after \notin {"suggest", "reject"} =>
              m.kind \notin {"DRAW_S", "DRAW_R"}
<1>1. pc = "send" /\ 1 \in DOMAIN outq /\ outq[1] = m
  <2>1. pc = "send" /\ outq \in Seq([to : Player, kind : Kinds]) /\ outq # <<>>
    BY DEF WriteNext, SafeGame, IInv, TypeOK, QueueOK
  <2> QED BY <2>1, TailOfQueue
<1>2. BothUp
  BY DEF FInv, FairTypes, BothUp
<1>3. /\ Verdict(m.kind) = "none" /\ after # "break"
      /\ after \in {"loop", "break", "turn", "suggest", "reject"}
  BY <1>1 DEF SafeGame, IInv, TypeOK, UndecidedOK, FInv, Endings
<1>4. /\ after = "suggest" => SuggestionOnItsWay
      /\ after = "reject" => RejectionOnItsWay
      /\ after \notin {"suggest", "reject"} => OffersSettled
  BY <1>1, <1>2, <1>3 DEF SafeGame, Owed, OffersOwed, GoesOn
<1>5. CASE after = "suggest"
  BY <1>1, <1>3, <1>4, <1>5 DEF SuggestionOnItsWay
<1>6. CASE after = "reject"
  <2>1. RejectionOnItsWay
    BY <1>1, <1>4, <1>6
  <2> QED BY <1>1, <1>3, <1>6, <2>1 DEF RejectionOnItsWay, OnOffer, MustAnswer
<1>7. CASE after \notin {"suggest", "reject"}
  BY <1>1, <1>3, <1>4, <1>7 DEF OffersSettled
<1> QED BY <1>3, <1>5, <1>6, <1>7

\* Before the write: what a client may be sent.
LEMMA Welcome ==
  ASSUME FInv, SafeGame, WriteNext, UNCHANGED fair,
         NEW m, m = Head(outq), result = "none", NEW i \in Player, i = m.to
  PROVE  /\ Round(i) /\ Mail(i)
         /\ m.kind = "INVL" => /\ ~Has(mail[i], ReplyTo(i))
                               /\ awaiting[i] \in {"MOVE", "DRAW S"}
         /\ m.kind = "MOVD" => /\ ~Has(mail[i], Theirs(i))
                               /\ Mine(i, board) => /\ ~Has(mail[i], ReplyTo(i))
                                                    /\ awaiting[i] = "MOVE"
                               /\ ~Mine(i, board) => \/ Has(mail[i], Own(i))
                                                     \/ ~ItsTurn(i, known[i])
         /\ m.kind = "DRAW_S" => i \notin suggested /\ ~Has(mail[i], Suggestions)
         /\ m.kind = "DRAW_R" => ~Has(mail[i], ReplyTo(i)) /\ awaiting[i] = "DRAW S"
<1>1. Round(i) /\ Mail(i)
  BY Unended DEF FInv, GoingOn, Round
<1>2. Queued(i, m.kind)
  BY Sending
<1>3. CASE m.kind = "INVL"
  BY <1>1, <1>2, <1>3 DEF Round, OneRequest, Replying, Awaited
<1>4. CASE m.kind = "MOVD"
  <2>1. CASE Mine(i, board)
    <3>1. ~Has(mail[i], ReplyTo(i)) /\ awaiting[i] = "MOVE"
      BY <1>1, <1>2, <1>4, <2>1 DEF Round, OneRequest, Replying, Awaited
    <3>2. ~Has(mail[i], Own(i))
      BY <3>1, InSubset DEF ReplyTo
    <3>3. ~Has(mail[i], Theirs(i))
      BY <1>1, <3>1, <3>2 DEF Mail
    <3> QED BY <1>1, <1>4, <2>1, <3>1, <3>3
  <2>2. CASE ~Mine(i, board)
    <3>1. ~Has(mail[i], Theirs(i))
      BY <1>1, <1>2, <1>4 DEF Round, Grids, Has
    <3>2. Has(mail[i], Own(i)) \/ ~ItsTurn(i, known[i])
      BY <1>1, <1>2, <1>4, <2>2 DEF Round, Grids
    <3> QED BY <1>1, <1>4, <2>2, <3>1, <3>2
  <2> QED BY <2>1, <2>2
<1>5. CASE m.kind = "DRAW_S"
  <2>1. is_draw_suggested = 0
    <3>1. after = "suggest"
      BY <1>5, Sent DEF To
    <3> QED BY <3>1, Sent
  <2>2. ~OnOffer(i)
    BY <2>1 DEF OnOffer
  <2>3. i \notin suggested /\ ~Has(mail[i], Suggestions)
    BY <1>1, <2>2 DEF Round, OneSuggestion
  <2> QED BY <1>1, <1>5, <2>3
<1>6. CASE m.kind = "DRAW_R"
  <2>1. after = "reject"
    BY <1>6, Sent DEF To
  <2>2. m = To(Other(index), "DRAW_R") /\ OnOffer(index)
    BY <2>1, Sent
  <2>3. index = Other(i)
    <3>1. i = Other(index) /\ index \in Player
      BY <2>2 DEF To, SafeGame, IInv, TypeOK
    <3> QED BY <3>1 DEF Other, Player
  <2>4. Offering(i)
    BY <2>2, <2>3 DEF Offering
  <2> QED BY <1>1, <1>6, <2>4 DEF Round, OneRequest, Awaited
<1> QED BY <1>1, <1>3, <1>4, <1>5, <1>6

LEMMA WriteMail ==
  ASSUME FInv, SafeGame, WriteNext, UNCHANGED fair, NEW i \in Player, ended'[i] = "no"
  PROVE  Mail(i)'
<1>1. PICK m : m = Head(outq)
  OBVIOUS
<1>2. PICK item : item = Written(m.kind)
  OBVIOUS
<1>3. UNCHANGED <<known, awaiting, suggested, ended>>
  BY DEF fair
<1>4. Mail(i)
  BY <1>3 DEF FInv, Mails
<1>5. CASE i # m.to
  <2>1. mail'[i] = mail[i]
    BY <1>1, <1>2, <1>5, Arriving
  <2> QED BY <1>3, <1>4, <2>1, SameMail
<1>6. CASE i = m.to
  <2>1. /\ \A S : /\ Has(mail'[i], S) <=> Has(mail[i], S) \/ item \in S
                  /\ Once(mail'[i], S)
                       <=> Once(mail[i], S) /\ (item \in S => ~Has(mail[i], S))
        /\ \A k \in DOMAIN mail'[i] :
             \/ k \in DOMAIN mail[i] /\ mail'[i][k] = mail[i][k]
             \/ /\ mail'[i][k] = item
                /\ \A j \in DOMAIN mail[i] : j < k
        /\ item \in Own(i) <=> m.kind = "MOVD" /\ Mine(i, board)
        /\ item \in Theirs(i) <=> m.kind = "MOVD" /\ ~Mine(i, board)
        /\ item \in ReplyTo(i) <=> \/ m.kind \in {"INVL", "DRAW_R"}
                                   \/ m.kind = "MOVD" /\ Mine(i, board)
        /\ item \in Suggestions <=> m.kind = "DRAW_S"
        /\ item.kind = m.kind
    BY <1>1, <1>2, <1>6, Arriving
  <2>2. result # "none" => m.kind \in {"OVER_W", "OVER_L", "OVER_D"}
    <3>1. result # "none" => Verdict(m.kind) # "none"
      <4>1. 1 \in DOMAIN outq /\ outq[1] = m
        BY <1>1, Sending
      <4> QED BY <4>1 DEF SafeGame, IInv, DecidedOK, Expected
    <3> QED BY <3>1 DEF Verdict
  <2>3. /\ m.kind = "INVL" => /\ ~Has(mail[i], ReplyTo(i))
                              /\ awaiting[i] \in {"MOVE", "DRAW S"}
        /\ m.kind = "MOVD" => /\ ~Has(mail[i], Theirs(i))
                              /\ Mine(i, board) => /\ ~Has(mail[i], ReplyTo(i))
                                                   /\ awaiting[i] = "MOVE"
                              /\ ~Mine(i, board) => \/ Has(mail[i], Own(i))
                                                    \/ ~ItsTurn(i, known[i])
        /\ m.kind = "DRAW_S" => i \notin suggested /\ ~Has(mail[i], Suggestions)
        /\ m.kind = "DRAW_R" => ~Has(mail[i], ReplyTo(i)) /\ awaiting[i] = "DRAW S"
    BY <1>1, <1>6, <2>2, Welcome
  <2>4. Once(mail'[i], ReplyTo(i)) /\ Once(mail'[i], Suggestions) /\ Once(mail'[i], Theirs(i))
    BY <1>4, <2>1, <2>3 DEF Mail
  <2>5. item \in ReplyTo(i) => Replies(i, item)
    BY <2>1, <2>3 DEF Replies
  <2>6. \A k \in DOMAIN mail'[i] :
          mail'[i][k] \in ReplyTo(i) => Replies(i, mail'[i][k])
    BY <1>4, <2>1, <2>5 DEF Mail
  <2>7. Has(mail'[i], Suggestions) => i \notin suggested
    BY <1>4, <2>1, <2>3 DEF Mail
  <2>8. ASSUME NEW j \in DOMAIN mail'[i], NEW k \in DOMAIN mail'[i],
               mail'[i][j] \in Own(i), mail'[i][k] \in Theirs(i)
        PROVE  j < k
    <3>1. Has(mail[i], Theirs(i)) => ~(item \in Own(i))
      BY <2>1, <2>3
    <3>2. ~(item \in Own(i) /\ item \in Theirs(i))
      BY <2>1
    <3>3. CASE k \in DOMAIN mail[i] /\ mail'[i][k] = mail[i][k]
      <4>1. Has(mail[i], Theirs(i))
        BY <2>8, <3>3, HasOne
      <4>2. j \in DOMAIN mail[i] /\ mail'[i][j] = mail[i][j]
        BY <2>1, <2>8, <3>1, <4>1
      <4> QED BY <1>4, <2>8, <3>3, <4>2 DEF Mail
    <3>4. CASE mail'[i][k] = item /\ \A l \in DOMAIN mail[i] : l < k
      <4>1. j \in DOMAIN mail[i]
        BY <2>1, <2>8, <3>2, <3>4
      <4> QED BY <3>4, <4>1
    <3> QED BY <2>1, <3>3, <3>4
  <2>9. Has(mail'[i], Theirs(i)) => Has(mail'[i], Own(i)) \/ ~ItsTurn(i, known[i])
    BY <1>4, <2>1, <2>3 DEF Mail
  <2> QED BY <1>3, <1>4, <2>4, <2>6, <2>7, <2>8, <2>9 DEF Mail, Replies
<1> QED BY <1>5, <1>6

LEMMA WriteEndings ==
  ASSUME FInv, SafeGame, WriteNext, UNCHANGED fair
  PROVE  FairTypes' /\ Counted' /\ Endings'
<1>1. PICK m : m = Head(outq)
  OBVIOUS
<1>2. PICK item : item = Written(m.kind)
  OBVIOUS
<1>3. /\ pc = "send" /\ m.to \in Player /\ Deliver(m)
      /\ 1 \in DOMAIN outq /\ outq[1] = m
      /\ IF outq' = <<>> THEN Finish
         ELSE UNCHANGED <<pc, turn, is_draw_suggested, draw_response_index>>
      /\ UNCHANGED <<board, index, after, result, open, sent, error, late,
                     msg_buffer, inbox, peer, known, awaiting, suggested, ended>>
      /\ \A j, k \in DOMAIN outq' : outq'[j].to = outq'[k].to => j = k
  BY <1>1, Sending
<1>4. /\ DOMAIN mail' = Player /\ \A i \in Player : mail'[i] \in Seq(Items)
      /\ \A i \in Player : /\ i # m.to => mail'[i] = mail[i]
                           /\ i = m.to => /\ mail'[i] # <<>>
                                          /\ mail'[i][Len(mail'[i])] = item
                           /\ Has(mail'[i], Outcomes)
                                <=> \/ Has(mail[i], Outcomes)
                                    \/ i = m.to /\ item \in Outcomes
      /\ item \in Outcomes <=> Verdict(m.kind) # "none"
  BY <1>1, <1>2, Arriving
<1>5. FairTypes'
  BY <1>3, <1>4 DEF FInv, FairTypes
<1>6. pc' \in {"send", "poll", "free"} /\ (pc' = "free" => after = "break")
  BY <1>3 DEF Finish
<1>7. Counted'
  BY <1>3, <1>6 DEF FInv, Counted
<1>8. open = Player
  BY <1>3 DEF FInv, Endings
<1>9. \A i \in Player : told'[i] = IF i = m.to /\ Verdict(m.kind) # "none"
                                   THEN Verdict(m.kind) ELSE told[i]
  <2>1. peer[m.to] = "up" /\ told \in [Player -> {"none", "W", "L", "D"}]
    BY <1>3 DEF FInv, FairTypes, SafeGame, IInv, TypeOK
  <2> QED BY <1>3, <2>1 DEF Deliver
<1>10. told'[m.to] # "none" => Verdict(m.kind) # "none"
  <2>1. CASE result = "none"
    BY <1>3, <1>9, <2>1 DEF SafeGame, IInv, UndecidedOK
  <2>2. CASE result # "none"
    BY <1>3, <2>2 DEF SafeGame, IInv, DecidedOK, Expected
  <2> QED BY <2>1, <2>2
<1>11. ASSUME NEW i \in Player
       PROVE  (/\ ended[i] # "no" \/ Has(mail[i], Outcomes) => told[i] # "none"
               /\ told[i] # "none" /\ ended[i] = "no" =>
                    \/ mail[i] # <<>> /\ mail[i][Len(mail[i])] \in Outcomes
                    \/ Crossed(i) /\ mail[i] = <<>>
               /\ ended[i] = "drop" => Crossed(i))'
  <2>1. /\ ended[i] # "no" \/ Has(mail[i], Outcomes) => told[i] # "none"
        /\ told[i] # "none" /\ ended[i] = "no" =>
             \/ mail[i] # <<>> /\ mail[i][Len(mail[i])] \in Outcomes
             \/ Crossed(i) /\ mail[i] = <<>>
        /\ ended[i] = "drop" => Crossed(i)
        /\ Crossed(i)' = Crossed(i)
    BY <1>3 DEF FInv, Endings, Crossed
  <2>2. CASE i # m.to
    BY <1>3, <1>4, <1>9, <2>1, <2>2
  <2>3. CASE i = m.to
    BY <1>3, <1>4, <1>9, <1>10, <2>1, <2>3
  <2> QED BY <2>2, <2>3
<1>12. Endings'
  <2>1. after = "break" => result # "none"
    BY <1>3 DEF FInv, Endings
  <2>2. (late \cap open = {})'
    BY <1>3 DEF FInv, Endings
  <2> QED BY <1>3, <1>6, <1>8, <1>11, <2>1, <2>2 DEF Endings, Player
<1> QED BY <1>5, <1>7, <1>12

\* A client that is not written to, or is sent what does not concern it.
LEMMA OtherMail ==
  ASSUME FInv, SafeGame, WriteNext, UNCHANGED fair, result = "none",
         NEW i \in Player, Round(i),
         NEW m, m = Head(outq), NEW item, item = Written(m.kind),
         i = m.to => m.kind \notin {"MOVD", "INVL"},
         i = m.to /\ m.kind = "DRAW_S" => OnOffer(i)',
         i = m.to /\ m.kind = "DRAW_R" => ~Offering(i)' /\ ~Has(sent[i], Asked(i)),
         offered'[i] = offered[i] \/ ~Queued(i, "INVL"),
         Offering(i)' => Offering(i),
         OnOffer(i) /\ ~Rejecting(i) => OnOffer(i)',
         ~Rejecting(i)'
  PROVE  Round(i)'
<1>1. /\ UNCHANGED <<board, sent, known, awaiting, suggested>>
      /\ \A k : /\ Queued(i, k) <=> Queued(i, k)' \/ (i = m.to /\ k = m.kind)
                /\ i = m.to => ~Queued(i, k)'
  BY Sending
<1>2. /\ \A S : Has(mail'[i], S) <=> Has(mail[i], S) \/ (i = m.to /\ item \in S)
      /\ \A k \in DOMAIN mail'[i] :
           \/ k \in DOMAIN mail[i] /\ mail'[i][k] = mail[i][k]
           \/ i = m.to /\ mail'[i][k] = item
      /\ item \in Own(i) => m.kind = "MOVD"
      /\ item \in Theirs(i) => m.kind = "MOVD"
      /\ item \in ReplyTo(i) => m.kind \in {"INVL", "DRAW_R", "MOVD"}
      /\ item \in Suggestions <=> m.kind = "DRAW_S"
  BY Arriving
<1>3. /\ Queued(i, "MOVD")' <=> Queued(i, "MOVD")
      /\ Queued(i, "INVL")' <=> Queued(i, "INVL")
      /\ Replying(i)' <=> Replying(i)
  BY <1>1 DEF Replying
<1>4. /\ Has(mail'[i], ReplyTo(i)) =>
           Has(mail[i], ReplyTo(i)) \/ (i = m.to /\ m.kind = "DRAW_R")
      /\ Has(mail'[i], Suggestions) =>
           Has(mail[i], Suggestions) \/ (i = m.to /\ m.kind = "DRAW_S")
      /\ \A S : Has(mail[i], S) => Has(mail'[i], S)
      /\ \A k \in DOMAIN mail'[i] : mail'[i][k] \in Own(i) \cup Theirs(i) =>
           k \in DOMAIN mail[i] /\ mail'[i][k] = mail[i][k]
  BY <1>2
<1>5. i = m.to /\ m.kind = "DRAW_R" => ~Replying(i)
  BY <1>1, <1>3 DEF Replying
<1>6. OneRequest(i)'
  BY <1>1, <1>3, <1>4, <1>5 DEF Round, OneRequest
<1>7. Awaited(i)'
  BY <1>1, <1>3 DEF Round, Awaited
<1>8. OneSuggestion(i)'
  <2>1. i = m.to /\ m.kind = "DRAW_S" => ~Has(sent[i], Answered)
    <3> SUFFICES ASSUME m.kind = "DRAW_S" PROVE ~Has(sent[i], Answered)
      OBVIOUS
    <3>1. after = "suggest"
      BY Sent DEF To
    <3>2. ~OnOffer(i)
      BY <3>1, Sent DEF OnOffer
    <3> QED BY <3>2 DEF Round, OneSuggestion
  <2> QED BY <1>1, <1>4, <2>1 DEF Round, OneSuggestion
<1>9. Grids(i)'
  <2>1. Has(mail[i], Own(i) \cup Theirs(i)) => Has(mail'[i], Own(i) \cup Theirs(i))
    BY <1>4
  <2>2. \A k \in DOMAIN mail'[i] : mail'[i][k] \in Theirs(i) =>
          k \in DOMAIN mail[i] /\ mail'[i][k] = mail[i][k]
    BY <1>4
  <2>3. \A k \in DOMAIN mail'[i] : mail'[i][k] \in Own(i) =>
          k \in DOMAIN mail[i] /\ mail'[i][k] = mail[i][k]
    BY <1>4
  <2>4. /\ Has(mail[i], Own(i)) => Has(mail'[i], Own(i))
        /\ Has(mail[i], Theirs(i)) => Has(mail'[i], Theirs(i))
    BY <1>4
  <2> QED BY <1>1, <1>3, <2>1, <2>2, <2>3, <2>4 DEF Round, Grids
<1> QED BY <1>6, <1>7, <1>8, <1>9 DEF Round

\* The reply to a request that does not end the game: INVL or the new grid.
LEMMA ReplyRound ==
  ASSUME FInv, SafeGame, WriteNext, UNCHANGED fair, result = "none",
         NEW i \in Player, NEW m, m = Head(outq), NEW item, item = Written(m.kind),
         i = m.to, m.kind \in {"INVL", "MOVD"},
         Offering(i)' <=> Offering(i), OnOffer(i)' = OnOffer(i), ~Rejecting(i)'
  PROVE  Round(i)'
<1>1. /\ UNCHANGED <<board, sent, known, awaiting, suggested>>
      /\ \A k : ~Queued(i, k)' /\ (Queued(i, k) <=> k = m.kind)
  BY Sending
<1>2. /\ \A S : Has(mail'[i], S) <=> Has(mail[i], S) \/ item \in S
      /\ \A k \in DOMAIN mail'[i] :
           \/ k \in DOMAIN mail[i] /\ mail'[i][k] = mail[i][k]
           \/ mail'[i][k] = item
      /\ item \in Own(i) <=> m.kind = "MOVD" /\ Mine(i, board)
      /\ item \in Theirs(i) <=> m.kind = "MOVD" /\ ~Mine(i, board)
      /\ item \in ReplyTo(i) <=> \/ m.kind \in {"INVL", "DRAW_R"}
                                 \/ m.kind = "MOVD" /\ Mine(i, board)
      /\ item \notin Suggestions
      /\ m.kind = "MOVD" => item.board = board
  <2>1. /\ \A S : Has(mail'[i], S) <=> Has(mail[i], S) \/ (i = m.to /\ item \in S)
        /\ \A k \in DOMAIN mail'[i] :
             \/ k \in DOMAIN mail[i] /\ mail'[i][k] = mail[i][k]
             \/ i = m.to /\ mail'[i][k] = item
    <3>1. \A j \in Player :
            /\ \A S : Has(mail'[j], S) <=> Has(mail[j], S) \/ (j = m.to /\ item \in S)
            /\ \A k \in DOMAIN mail'[j] :
                 \/ k \in DOMAIN mail[j] /\ mail'[j][k] = mail[j][k]
                 \/ j = m.to /\ mail'[j][k] = item
      BY Arriving
    <3> QED BY <3>1
  <2>2. /\ item \in Own(i) <=> m.kind = "MOVD" /\ Mine(i, board)
        /\ item \in Theirs(i) <=> m.kind = "MOVD" /\ ~Mine(i, board)
        /\ item \in ReplyTo(i) <=> \/ m.kind \in {"INVL", "DRAW_R"}
                                   \/ m.kind = "MOVD" /\ Mine(i, board)
        /\ item \in Suggestions <=> m.kind = "DRAW_S"
        /\ m.kind = "MOVD" => item.board = board
    BY Arriving
  <2>3. \A S : Has(mail'[i], S) <=> Has(mail[i], S) \/ item \in S
    BY <2>1
  <2>4. item \notin Suggestions
    BY <2>2
  <2> QED BY <2>1, <2>2, <2>3, <2>4
<1>3. /\ Round(i) /\ Mail(i)
      /\ m.kind = "MOVD" => ~Has(mail[i], Theirs(i))
  BY Welcome
<1>4. ~Replying(i)' /\ (Replying(i) <=> item \in ReplyTo(i))
  BY <1>1, <1>2 DEF Replying
<1>5. OneRequest(i)'
  BY <1>1, <1>2, <1>3, <1>4 DEF Round, OneRequest
<1>6. Awaited(i)'
  BY <1>1, <1>3 DEF Round, Awaited
<1>7. OneSuggestion(i)'
  BY <1>1, <1>2, <1>3 DEF Round, OneSuggestion
<1>8. Grids(i)'
  <2>1. \A c \in Attempts : Has(sent'[i], {MOVE(role[i], c)}) => CanClaim(known[i], c)
    BY <1>1, <1>3 DEF Round, Grids
  <2>2. CASE m.kind = "INVL"
    <3>1. /\ Has(mail[i], Own(i) \cup Theirs(i)) \/ known[i] = board
          /\ \A k \in DOMAIN mail[i] : mail[i][k] \in Theirs(i) => mail[i][k].board = board
          /\ \A k \in DOMAIN mail[i] : mail[i][k] \in Own(i) =>
               Has(mail[i], Theirs(i)) \/ mail[i][k].board = board
      BY <1>1, <1>3, <2>2 DEF Round, Grids
    <3>2. item \notin Own(i) /\ item \notin Theirs(i)
      BY <1>2, <2>2
    <3>3. /\ Has(mail'[i], Own(i) \cup Theirs(i)) \/ known[i] = board
          /\ \A k \in DOMAIN mail'[i] : mail'[i][k] \in Theirs(i) => mail'[i][k].board = board
          /\ \A k \in DOMAIN mail'[i] : mail'[i][k] \in Own(i) =>
               Has(mail'[i], Theirs(i)) \/ mail'[i][k].board = board
      BY <1>2, <3>1, <3>2
    <3> QED BY <1>1, <2>1, <3>3 DEF Grids
  <2>3. CASE m.kind = "MOVD"
    <3>1. \A k \in DOMAIN mail[i] : mail[i][k] \notin Theirs(i)
      BY <1>3, <2>3 DEF Has
    <3>2. Mine(i, board) => \A k \in DOMAIN mail[i] : mail[i][k] \notin Own(i)
      <4>1. Mine(i, board) => ~Has(mail[i], ReplyTo(i))
        BY <2>3, Welcome
      <4> QED BY <4>1 DEF Has, ReplyTo
    <3>3. /\ Has(mail'[i], Own(i) \cup Theirs(i))
          /\ \A k \in DOMAIN mail'[i] : mail'[i][k] \in Theirs(i) => mail'[i][k].board = board
          /\ \A k \in DOMAIN mail'[i] : mail'[i][k] \in Own(i) =>
               Has(mail'[i], Theirs(i)) \/ mail'[i][k].board = board
      BY <1>2, <2>3, <3>1, <3>2
    <3> QED BY <1>1, <2>1, <3>3 DEF Grids
  <2> QED BY <2>2, <2>3
<1> QED BY <1>5, <1>6, <1>7, <1>8 DEF Round

LEMMA WriteRound ==
  ASSUME FInv, SafeGame, WriteNext, UNCHANGED fair, result = "none", NEW i \in Player
  PROVE  Round(i)'
<1>1. PICK m : m = Head(outq)
  OBVIOUS
<1>2. PICK item : item = Written(m.kind)
  OBVIOUS
<1>3. Round(i)
  BY DEF FInv, GoingOn, Round
<1>4. /\ pc = "send" /\ m.to \in Player /\ m.kind \in Kinds /\ Deliver(m)
      /\ outq' = Tail(outq)
      /\ IF outq' = <<>> THEN Finish
         ELSE UNCHANGED <<pc, turn, is_draw_suggested, draw_response_index>>
      /\ index' = index /\ after' = after /\ index \in Player
  BY <1>1, Sending DEF SafeGame, IInv, TypeOK
<1>5. /\ Verdict(m.kind) = "none" /\ after \in {"loop", "turn", "suggest", "reject"}
      /\ after = "suggest" => /\ outq = <<To(Other(index), "DRAW_S")>>
                              /\ m = To(Other(index), "DRAW_S")
                              /\ is_draw_suggested = 0
      /\ after = "reject" => /\ outq = <<To(Other(index), "DRAW_R")>>
                             /\ m = To(Other(index), "DRAW_R") /\ OnOffer(index)
      /\ after \notin {"suggest", "reject"} =>
           m.kind \notin {"DRAW_S", "DRAW_R"}
  BY <1>1, Sent
<1>6. CASE after = "suggest"
  <2>1. /\ m.to = Other(index) /\ m.kind = "DRAW_S" /\ outq' = <<>>
        /\ pc' = "poll" /\ is_draw_suggested' = 1
        /\ draw_response_index' = Other(index)
    BY <1>4, <1>5, <1>6 DEF Finish, To
  <2>2. ~Queued(i, "INVL") /\ ~OnOffer(i)
    BY <1>5, <1>6 DEF Queued, To, OnOffer
  <2>3. /\ i = m.to => OnOffer(i)'
        /\ OnOffer(Other(i))' => i = index
    BY <1>4, <2>1 DEF OnOffer, Other, Player
  <2>4. ~Rejecting(i)' /\ (Offering(i)' => Offering(i))
    BY <1>4, <1>6, <2>1, <2>3 DEF Rejecting, Offering
  <2> QED BY <1>1, <1>2, <1>3, <2>1, <2>2, <2>3, <2>4, OtherMail
<1>7. CASE after = "reject"
  <2>1. /\ m.to = Other(index) /\ m.kind = "DRAW_R" /\ outq' = <<>>
        /\ pc' = "poll" /\ is_draw_suggested' = 0
    <3>1. m.to = Other(index) /\ m.kind = "DRAW_R" /\ outq' = <<>>
      <4>1. /\ m = To(Other(index), "DRAW_R") /\ outq = <<To(Other(index), "DRAW_R")>>
            /\ outq' = Tail(outq)
        BY <1>4, <1>5, <1>7
      <4>2. outq' = <<>>
        BY <4>1
      <4>3. m.to = Other(index) /\ m.kind = "DRAW_R"
        BY <4>1 DEF To
      <4> QED BY <4>2, <4>3
    <3>2. Finish
      BY <1>4, <3>1
    <3> QED BY <1>7, <3>1, <3>2 DEF Finish
  <2>2. ~Queued(i, "INVL") /\ ~Offering(i)' /\ ~Rejecting(i)'
    BY <1>5, <1>7, <2>1 DEF Queued, To, Offering, OnOffer, Rejecting
  <2>3. OnOffer(i) => Rejecting(i)
    BY <1>4, <1>5, <1>7 DEF OnOffer, Rejecting
  <2>4. i = m.to => ~Has(sent[i], Asked(i))
    <3>1. i = m.to => Other(i) = index
      BY <1>4, <2>1 DEF Other, Player
    <3>2. i = m.to => Offering(i)
      BY <1>5, <1>7, <3>1 DEF Offering
    <3> QED BY <1>3, <3>2 DEF Round, OneRequest
  <2> QED BY <1>1, <1>2, <1>3, <2>1, <2>2, <2>3, <2>4, OtherMail
<1>8. CASE after \notin {"suggest", "reject"}
  <2>1. UNCHANGED <<is_draw_suggested, draw_response_index>>
    BY <1>4, <1>8 DEF Finish
  <2>2. /\ OnOffer(i)' = OnOffer(i) /\ (Offering(i)' <=> Offering(i)) /\ ~Rejecting(i)'
    BY <1>4, <1>8, <2>1 DEF OnOffer, Offering, Rejecting
  <2>3. m.kind \notin {"DRAW_S", "DRAW_R"}
    BY <1>5, <1>8
  <2>4. offered' = offered
    BY <1>4, <2>3 DEF Deliver, history
  <2>5. CASE i = m.to /\ m.kind \in {"INVL", "MOVD"}
    BY <1>1, <1>2, <2>2, <2>5, ReplyRound
  <2>6. CASE i # m.to \/ m.kind \notin {"INVL", "MOVD"}
    BY <1>1, <1>2, <1>3, <2>2, <2>3, <2>4, <2>6, OtherMail
  <2> QED BY <2>5, <2>6
<1> QED BY <1>5, <1>6, <1>7, <1>8

LEMMA WriteFair ==
  ASSUME FInv, SafeGame, WriteNext, UNCHANGED fair
  PROVE  FInv'
<1>1. GoingOn'
  <2>1. result' = result
    BY Sending
  <2>2. result = "none" => \A i \in Player : Round(i)'
    BY WriteRound
  <2> QED BY <2>1, <2>2 DEF GoingOn, Round
<1>2. Mails'
  BY WriteMail DEF Mails
<1> QED BY <1>1, <1>2, WriteEndings DEF FInv

\* free_game: the thread has told both clients how the game ended.
LEMMA CloseFair ==
  ASSUME FInv, SafeGame, CloseNext, UNCHANGED fair
  PROVE  FInv'
<1>1. PICK i : i = CHOOSE j \in open : j \notin open'
  OBVIOUS
<1>2. /\ pc = "free"
      /\ open' = IF 0 \in open THEN open \ {0} ELSE open \ {1}
      /\ pc' = IF open' = {} THEN "done" ELSE "free"
      /\ mail' \in IF inbox[i] > 0 THEN {mail, [mail EXCEPT ![i] = <<>>]} ELSE {mail}
      /\ UNCHANGED <<board, msg_buffer, outq, after, inbox, peer, result, told,
                     offered, sent, error, late, known, awaiting, suggested, ended>>
  BY <1>1 DEF CloseNext, CloseSocket, thread, history, fair
<1>3. /\ result # "none" /\ \A j \in Player : told[j] # "none"
      /\ open \in {{0, 1}, {1}}
  BY <1>2, BothTold DEF FInv, Endings
<1>4. i \in Player /\ i \in open /\ i \notin open'
  <2>1. \E j \in open : j \notin open'
    BY <1>2, <1>3
  <2> QED BY <1>1, <1>3, <2>1 DEF Player
<1>5. /\ mail'[i] # mail[i] => Crossed(i)' /\ mail'[i] = <<>>
      /\ \A j \in Player : Crossed(j) => Crossed(j)'
  <2>1. DOMAIN mail = Player
    BY DEF FInv, FairTypes
  <2> QED BY <1>2, <1>4, <2>1 DEF Crossed
<1>6. /\ DOMAIN mail' = Player
      /\ \A j \in Player : mail'[j] = mail[j] \/ (j = i /\ mail'[j] = <<>>)
  <2>1. DOMAIN mail = Player
    BY DEF FInv, FairTypes
  <2> QED BY <1>2, <1>4, <2>1
<1>7. FairTypes' /\ Counted'
  <2>1. \A j \in Player : mail'[j] \in Seq(Items)
    <3>1. \A j \in Player : mail[j] \in Seq(Items)
      BY DEF FInv, FairTypes
    <3>2. <<>> \in Seq(Items)
      OBVIOUS
    <3> QED BY <1>6, <3>1, <3>2
  <2>2. FairTypes'
    BY <1>2, <1>6, <2>1 DEF FInv, FairTypes
  <2>3. Counted'
    BY <1>2 DEF FInv, Counted
  <2> QED BY <2>2, <2>3
<1>8. GoingOn'
  BY <1>2, <1>3 DEF GoingOn, Round
<1>9. Mails'
  <2> SUFFICES ASSUME NEW j \in Player, ended'[j] = "no" PROVE Mail(j)'
    BY DEF Mails
  <2>1. Mail(j)
    BY <1>2 DEF FInv, Mails
  <2>2. CASE mail'[j] = mail[j]
    BY <1>2, <2>1, <2>2, SameMail
  <2>3. CASE mail'[j] = <<>>
    <3>1. /\ \A S : ~Has(mail'[j], S) /\ Once(mail'[j], S)
          /\ DOMAIN mail'[j] = {}
      BY <2>3, NoneInEmpty
    <3> QED BY <1>2, <2>1, <3>1 DEF Mail
  <2> QED BY <1>6, <2>2, <2>3
<1>10. Endings'
  <2>1. /\ pc' \in {"free", "done"}
        /\ open' = IF pc' = "done" THEN {} ELSE open'
        /\ pc' = "free" => open' \in {{0, 1}, {1}}
    <3>1. open' = {} \/ open' = {1}
      BY <1>2, <1>3
    <3> QED BY <1>2, <3>1
  <2>2. ASSUME NEW j \in Player
        PROVE  (/\ ended[j] # "no" \/ Has(mail[j], Outcomes) => told[j] # "none"
                /\ told[j] # "none" /\ ended[j] = "no" =>
                     \/ mail[j] # <<>> /\ mail[j][Len(mail[j])] \in Outcomes
                     \/ Crossed(j) /\ mail[j] = <<>>
                /\ ended[j] = "drop" => Crossed(j))'
    <3>1. /\ told[j] # "none" /\ ended[j] = "no" =>
               \/ mail[j] # <<>> /\ mail[j][Len(mail[j])] \in Outcomes
               \/ Crossed(j) /\ mail[j] = <<>>
          /\ ended[j] = "drop" => Crossed(j)
      BY DEF FInv, Endings
    <3>2. Crossed(j) => Crossed(j)'
      BY <1>5
    <3>3. CASE mail'[j] = mail[j]
      BY <1>2, <1>3, <3>1, <3>2, <3>3
    <3>4. CASE mail'[j] # mail[j]
      BY <1>2, <1>3, <1>4, <1>5, <1>6, <3>1, <3>4
    <3> QED BY <3>3, <3>4
  <2>3. \A j, k \in DOMAIN outq' : outq'[j].to = outq'[k].to => j = k
    BY <1>2 DEF FInv, Endings
  <2>4. (late \cap open = {})'
    BY <1>2 DEF FInv, Endings
  <2> QED BY <1>2, <1>3, <2>1, <2>2, <2>3, <2>4 DEF Endings
<1> QED BY <1>7, <1>8, <1>9, <1>10 DEF FInv

\* A reset that answers a late write takes what the client has not read.
LEMMA LateResetFair ==
  ASSUME FInv, SafeGame, NEW i \in Player, LateReset(i), UNCHANGED fair
  PROVE  FInv'
<1>1. /\ i \in late /\ mail' = [mail EXCEPT ![i] = <<>>]
      /\ UNCHANGED <<board, is_draw_suggested, draw_response_index, outq, pc, after,
                     index, offered, result, open, told, msg_buffer, inbox, peer,
                     sent, error, late, known, awaiting, suggested, ended>>
  BY DEF LateReset, vars, thread, control, conns, history, fair
<1>2. i \notin open
  BY <1>1 DEF FInv, Endings
<1>3. pc \in {"free", "done"}
  BY <1>2 DEF FInv, Endings
<1>4. result # "none" /\ \A j \in Player : told[j] # "none"
  BY <1>3, BothTold
<1>5. /\ DOMAIN mail' = Player /\ mail'[i] = <<>>
      /\ \A j \in Player : j # i => mail'[j] = mail[j]
      /\ \A j \in Player : mail'[j] \in Seq(Items)
  <2>1. DOMAIN mail = Player /\ \A j \in Player : mail[j] \in Seq(Items)
    BY DEF FInv, FairTypes
  <2> QED BY <1>1, <2>1
<1>6. FairTypes' /\ Counted'
  BY <1>1, <1>5 DEF FInv, FairTypes, Counted
<1>7. GoingOn'
  BY <1>1, <1>4 DEF GoingOn, Round
<1>8. Mails'
  <2> SUFFICES ASSUME NEW j \in Player, ended'[j] = "no" PROVE Mail(j)'
    BY DEF Mails
  <2>1. Mail(j)
    BY <1>1 DEF FInv, Mails
  <2>2. CASE j # i
    BY <1>1, <1>5, <2>1, <2>2, SameMail
  <2>3. CASE j = i
    <3>1. /\ \A S : ~Has(mail'[j], S) /\ Once(mail'[j], S)
          /\ DOMAIN mail'[j] = {}
      BY <1>5, <2>3, NoneInEmpty
    <3> QED BY <1>1, <2>1, <3>1 DEF Mail
  <2> QED BY <2>2, <2>3
<1>9. Endings'
  <2>1. Crossed(i)' /\ \A j \in Player : Crossed(j)' = Crossed(j)
    BY <1>1, <1>2 DEF Crossed
  <2> QED BY <1>1, <1>4, <1>5, <2>1 DEF FInv, Endings
<1> QED BY <1>6, <1>7, <1>8, <1>9 DEF FInv

LEMMA ThreadFair ==
  ASSUME FInv, SafeGame, ServerStep, UNCHANGED fair
  PROVE  FInv'
<1>1. \A i \in Player : peer[i] = "up"
  BY DEF FInv, FairTypes
<1>2. ~SendFails
  <2> SUFFICES ASSUME SendFails PROVE FALSE
    OBVIOUS
  <2>1. outq \in Seq([to : Player, kind : Kinds]) /\ outq # <<>>
    BY DEF SendFails, SafeGame, IInv, TypeOK, QueueOK
  <2>2. Head(outq).to \in Player
    <3>1. Head(outq) \in [to : Player, kind : Kinds]
      BY <2>1, TailOfQueue
    <3> QED BY <3>1
  <2> QED BY <1>1, <2>2 DEF SendFails
<1>3. ~LoseMessages
  <2> SUFFICES ASSUME LoseMessages PROVE FALSE
    OBVIOUS
  <2>1. pc = "recv" /\ sent[index] # <<>> /\ index \in Player
    BY DEF LoseMessages, FInv, Counted, SafeGame, IInv, TypeOK
  <2>2. Head(sent[index]) = MALFORMED
    BY <1>1, <2>1 DEF LoseMessages
  <2>3. Head(sent[index]) \in Asked(index) \cup Answered
    <3>1. sent[index] \in Seq(Asked(index) \cup Answered)
      BY <2>1 DEF FInv, FairTypes
    <3> QED BY <2>1, <3>1
  <2>4. MALFORMED.code = "MALFORMED"
    BY DEF MALFORMED
  <2>5. \A x \in Asked(index) \cup Answered : x.code \in {"RSGN", "DRAW", "MOVE"}
    BY <2>1, Requesting DEF Asked, Answered
  <2> QED BY <2>2, <2>3, <2>4, <2>5
<1> QED
  BY <1>2, <1>3, ChooseFair, HandleFair, WriteFair, CloseFair DEF ServerStep

LEMMA FairNextInv ==
  ASSUME FInv, SafeGame, FairNext
  PROVE  FInv' /\ SafeGame'
<1>1. FInv'
  <2>1. ASSUME NEW i \in Player, Reads(i) PROVE FInv'
    BY <2>1, ReadStep, SeeDropStep DEF Reads
  <2> QED BY <2>1, RequestStep, AnswerStep, ThreadFair, LateResetFair DEF FairNext
<1>2. [Next]_vars
  BY FairStepOfGame
<1>3. SafeGame'
  BY <1>2, NextInv, OwedNext, RulesNext, OverOwedNext DEF SafeGame
<1> QED BY <1>1, <1>3

-----------------------------------------------------------------------------
(* The invariant of Matches.                                                *)

LEMMA FairStart ==
  ASSUME MatchInit, AreFair
  PROVE  FInv /\ SafeGame
<1>1. /\ Init /\ msg_buffer = [i \in Player |-> 0] /\ inbox = [i \in Player |-> 0]
      /\ peer = [i \in Player |-> "up"]
      /\ sent = [i \in Player |-> <<>>] /\ mail = [i \in Player |-> <<>>]
      /\ error = "none" /\ late = {} /\ known = [i \in Player |-> EmptyBoard]
      /\ awaiting = [i \in Player |-> "nothing"] /\ suggested = {}
      /\ ended = [i \in Player |-> "no"]
  BY DEF MatchInit, FairInit, ExchangeInit
<1>2. SafeGame
  <2>1. OverOwed
    BY <1>1 DEF Init, OverOwed
  <2> QED BY <1>1, <2>1, InitInv, OwedInit, RulesInit DEF SafeGame
<1>3. /\ pc = "send" /\ outq = <<To(0, "BEGN"), To(1, "BEGN")>> /\ after = "loop"
      /\ is_draw_suggested = 0 /\ open = Player /\ board = EmptyBoard
      /\ told = [i \in Player |-> "none"] /\ result = "none"
  BY <1>1 DEF Init
<1>4. \A i \in Player : /\ sent[i] = <<>> /\ mail[i] = <<>> /\ known[i] = board
                        /\ awaiting[i] = "nothing" /\ i \notin suggested
                        /\ ended[i] = "no" /\ told[i] = "none"
  BY <1>1, <1>3
<1>5. \A i \in Player : \A S : /\ ~Has(sent[i], S) /\ Once(sent[i], S)
                               /\ ~Has(mail[i], S) /\ Once(mail[i], S)
  BY <1>4, NoneInEmpty
<1>6. \A i \in Player : DOMAIN mail[i] = {} /\ DOMAIN sent[i] = {}
  BY <1>4
<1>7. FairTypes
  <2>1. EmptyBoard \in Boards
    BY DEF EmptyBoard, Boards
  <2> QED BY <1>1, <2>1 DEF FairTypes
<1>8. Counted
  <2>1. \A i \in Player : Len(sent[i]) = 0 /\ msg_buffer[i] = 0 /\ inbox[i] = 0
    BY <1>1
  <2> QED BY <1>3, <2>1 DEF Counted
<1>9. ASSUME NEW i \in Player PROVE Round(i)
  <2>1. /\ ~Queued(i, "INVL") /\ ~Queued(i, "MOVD") /\ ~Replying(i)
        /\ ~Offering(i) /\ ~Rejecting(i)
    BY <1>3 DEF Queued, To, Replying, Offering, OnOffer, Rejecting
  <2>2. OneRequest(i) /\ Awaited(i) /\ OneSuggestion(i)
    BY <1>4, <1>5, <2>1 DEF OneRequest, Awaited, OneSuggestion
  <2>3. Grids(i)
    BY <1>4, <1>5, <1>6, <2>1 DEF Grids
  <2> QED BY <2>2, <2>3 DEF Round
<1>10. Mails
  BY <1>4, <1>5, <1>6 DEF Mails, Mail
<1>11. Endings
  <2>1. \A j, k \in DOMAIN outq : outq[j].to = outq[k].to => j = k
    <3>1. DOMAIN outq = {1, 2} /\ outq[1].to = 0 /\ outq[2].to = 1
      BY <1>3 DEF To
    <3> QED BY <3>1
  <2> QED BY <1>1, <1>3, <1>4, <1>5, <2>1 DEF Endings
<1> QED BY <1>2, <1>7, <1>8, <1>9, <1>10, <1>11 DEF FInv, GoingOn, Round

LEMMA Stutter ==
  ASSUME FInv, UNCHANGED <<vars, contents, fair>>
  PROVE  FInv'
<1>1. UNCHANGED <<board, is_draw_suggested, draw_response_index, outq, pc, after,
                  index, offered, result, open, told, msg_buffer, inbox, peer,
                  sent, mail, error, late, known, awaiting, suggested, ended>>
  BY DEF vars, thread, control, conns, history, contents, fair
<1>2. FairTypes' /\ Counted' /\ Endings'
  BY <1>1 DEF FInv, FairTypes, Counted, Endings, Crossed
<1>3. GoingOn'
  <2> SUFFICES ASSUME result = "none", NEW i \in Player PROVE Round(i)'
    BY <1>1 DEF GoingOn, Round
  <2> QED BY <1>1, Unaffected DEF FInv, GoingOn, Round
<1>4. Mails'
  BY <1>1, SameMail DEF FInv, Mails
<1> QED BY <1>2, <1>3, <1>4 DEF FInv

MInv == AreFair => FInv /\ SafeGame

LEMMA MatchInvariance == MatchSpec => []MInv
<1>1. MatchInit => MInv
  BY FairStart DEF MInv
<1>2. ASSUME MInv, [MatchNext]_allvars PROVE MInv'
  <2>1. game' = game
    BY <1>2 DEF MatchNext, allvars, scripts, FairNext, ScriptNext, ClientStep
  <2>2. CASE AreFair
    <3>1. FInv /\ SafeGame
      BY <1>2, <2>2 DEF MInv
    <3>2. CASE FairNext
      BY <3>1, <3>2, FairNextInv DEF MInv
    <3>3. CASE UNCHANGED allvars
      <4>1. UNCHANGED <<vars, contents, fair>>
        BY <3>3 DEF allvars
      <4>2. FInv'
        BY <3>1, <4>1, Stutter
      <4>3. SafeGame'
        BY <3>1, <4>1, NextInv, OwedNext, RulesNext, OverOwedNext DEF SafeGame
      <4> QED BY <4>2, <4>3 DEF MInv
    <3> QED BY <1>2, <2>2, <3>2, <3>3 DEF MatchNext, AreFair, AreScripted
  <2>3. CASE ~AreFair
    BY <2>1, <2>3 DEF MInv, AreFair
  <2> QED BY <2>2, <2>3
<1> QED BY <1>1, <1>2, PTL DEF MatchSpec

\* A client that keeps the rules is refused only when its MOVE or DRAW S crossed
\* a suggestion that it has not answered (the INVL writes of handle_game).
THEOREM RefusedIfCrossed == MatchSpec => []RefusedOnlyWhenCrossed
<1>1. MInv => RefusedOnlyWhenCrossed
  <2> SUFFICES ASSUME FInv, SafeGame, pc = "send", Head(outq).kind = "INVL",
                      NEW i, i = Head(outq).to
               PROVE  offered[i] /\ awaiting[i] \in {"MOVE", "DRAW S"}
    BY DEF MInv, RefusedOnlyWhenCrossed
  <2>1. outq \in Seq([to : Player, kind : Kinds]) /\ outq # <<>>
    BY DEF SafeGame, IInv, TypeOK, QueueOK
  <2>2. /\ Head(outq) \in [to : Player, kind : Kinds] /\ 1 \in DOMAIN outq
        /\ Head(outq) = outq[1]
    BY <2>1, TailOfQueue
  <2>3. i \in Player /\ outq[1] = To(i, "INVL")
    BY <2>2 DEF To
  <2>4. Queued(i, "INVL")
    BY <2>2, <2>3 DEF Queued
  <2>5. result = "none"
    <3>1. result # "none" => Verdict("INVL") # "none"
      BY <2>2 DEF SafeGame, IInv, DecidedOK, Expected
    <3> QED BY <3>1 DEF Verdict
  <2> QED BY <2>3, <2>4, <2>5 DEF FInv, GoingOn, Round, Awaited
<1> QED BY <1>1, MatchInvariance, PTL

\* A client that keeps the rules finds no message it did not expect, and misses
\* OVER only when something it wrote was unread in the socket that free_game
\* closed, or was written after that close.
THEOREM AllExpected == MatchSpec => []NothingUnexpected
<1>1. MInv => NothingUnexpected
  <2> SUFFICES ASSUME FInv, SafeGame, NEW i \in Player
               PROVE  /\ ended[i] = "no" /\ mail[i] # <<>> => Expectable(i, Head(mail[i]))
                      /\ ended[i] = "drop" => told[i] # "none" /\ Crossed(i)
    BY DEF MInv, NothingUnexpected
  <2>1. ended[i] = "drop" => told[i] # "none" /\ Crossed(i)
    BY DEF FInv, Endings
  <2>2. ASSUME ended[i] = "no", mail[i] # <<>> PROVE Expectable(i, Head(mail[i]))
    <3>1. mail[i] \in Seq(Items) /\ Mail(i)
      BY <2>2 DEF FInv, FairTypes, Mails
    <3>2. PICK m \in Items : m = Head(mail[i]) /\ m = mail[i][1] /\ 1 \in DOMAIN mail[i]
      BY <2>2, <3>1
    <3>3. m \in ReplyTo(i) => Replies(i, m)
      BY <3>1, <3>2 DEF Mail
    <3>4. m.kind \in {"INVL", "DRAW_R"} => Replies(i, m)
      BY <3>2, <3>3, Finding
    <3>5. m.kind = "MOVD" /\ Mine(i, m.board) => awaiting[i] = "MOVE"
      <4>1. m.kind = "MOVD" /\ Mine(i, m.board) => m \in ReplyTo(i)
        BY <3>2 DEF ReplyTo, Own, OfKind
      <4> QED BY <3>3, <4>1 DEF Replies
    <3>6. m.kind = "DRAW_S" => i \notin suggested
      BY <3>1, <3>2, Finding, HasOne DEF Mail
    <3> QED BY <3>2, <3>4, <3>5, <3>6 DEF Expectable
  <2> QED BY <2>1, <2>2
<1> QED BY <1>1, MatchInvariance, PTL
=============================================================================
