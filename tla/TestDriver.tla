----------------------------- MODULE TestDriver -----------------------------
(***************************************************************************)
(* The program test: a thread for each scripted client, numbered as in     *)
(* game_role.  The threads take turns with game_mutex and game_role, and   *)
(* each keeps the mutex from its turn until the server has told it WAIT,   *)
(* so that the server pairs them as the scripts expect.  They run against  *)
(* module Server; what they send in a game is cut down to the last thing,  *)
(* the one that ends it (TestScripts has the rest).                        *)
(*                                                                         *)
(* A check that fails ends the thread with pthread_exit, which neither     *)
(* releases the mutex nor closes the socket.                               *)
(*                                                                         *)
(* LookKeepsMutex and LookTakesAnyTurn are faulty variants of Look: put in *)
(* its place, each makes one of the properties fail.                       *)
(***************************************************************************)
EXTENDS Server

VARIABLES
  game_mutex,  \* the thread that holds it, or NULL
  game_role,   \* whose turn it is
  at,          \* where each thread is
  replies,     \* the replies to PLAY each thread has checked
  said,        \* what each client wrote and the server has not parsed
  mail         \* what the server wrote to each client and it has not read

driver     == <<game_mutex, game_role, at, replies>>
drivervars == <<vars, driver, said, mail>>

\* The names a client logs in under, with the reply each must get: a name in
\* use comes first in the last test.
Logins ==
  << <<"Yash Patel">>, <<"Jasmit Singh">>, <<"Barbara">>, <<"James">>,
     <<"H">>, <<"Yo">>, <<"Jay">>, <<"Brown">>,
     <<"Joe Sally">>, <<"Jay Brown">>, <<"Jay Brown", "Moe Gates">>, <<"Jays">> >>
LoginsOf(t) == Logins[t + 1]
NameOf(t)   == LoginsOf(t)[Len(LoginsOf(t))]
Opponent(t) == IF t % 2 = 0 THEN t + 1 ELSE t - 1
Role(t)     == IF t % 2 = 0 THEN "X" ELSE "O"

\* Client is one test or several in a row, each with both its clients.
ASSUME WholeTests ==
  /\ \E a, b \in 0..6 : a < b /\ Client = (2 * a)..(2 * b - 1)
  /\ \A t \in Client : \A k \in DOMAIN LoginsOf(t) : LoginsOf(t)[k] \in Name

\* Who ends the game, and how: the second client accepts the draw in the first
\* test and hangs up in the last, in the others the first makes the last move,
\* resigns or sends what is malformed.
LastMessage == {1, 2, 4, 6, 8}
Leaves      == {11}

WAIT       == <<"WAIT">>
INVL       == <<"INVL">>
BEGN(r, n) == <<"BEGN", r, n>>
Final      == "the last message"

ExpectedReply(t) == IF replies[t] + 1 < Len(LoginsOf(t)) THEN INVL ELSE WAIT

\* The tests before the first of Client are over.
DriverInit ==
  /\ Init
  /\ game_mutex = NULL
  /\ game_role = First(Client)
  /\ at = [t \in Client |-> "obtain"]
  /\ replies = [t \in Client |-> 0]
  /\ said = [t \in Client |-> <<>>]
  /\ mail = [t \in Client |-> <<>>]

-----------------------------------------------------------------------------
(* A thread of the driver.                                                  *)

At(t, here)   == at[t] = here
Then(t, next) == at' = [at EXCEPT ![t] = next]

Obtain(t) ==
  /\ At(t, "obtain") /\ game_mutex = NULL
  /\ game_mutex' = t
  /\ Then(t, "look")
  /\ UNCHANGED <<vars, game_role, replies, said, mail>>

LookKeepsMutex(t) ==
  /\ At(t, "look")
  /\ IF game_role = t
     THEN game_role' = game_role + 1 /\ Then(t, "connect")
     ELSE game_role' = game_role /\ Then(t, "obtain")
  /\ UNCHANGED <<vars, game_mutex, replies, said, mail>>

LookTakesAnyTurn(t) ==
  /\ At(t, "look")
  /\ game_role' = game_role + 1 /\ Then(t, "connect")
  /\ UNCHANGED <<vars, game_mutex, replies, said, mail>>

\* Not its turn: it releases the mutex and tries again at once.
Look(t) ==
  /\ At(t, "look")
  /\ IF game_role = t
     THEN game_role' = game_role + 1 /\ Then(t, "connect") /\ UNCHANGED game_mutex
     ELSE game_mutex' = NULL /\ Then(t, "obtain") /\ UNCHANGED game_role
  /\ UNCHANGED <<vars, replies, said, mail>>

\* get_client_socket, with the mutex held.
ConnectStep(t) ==
  /\ At(t, "connect")
  /\ Connect(t)
  /\ Then(t, "play")
  /\ UNCHANGED <<game_mutex, game_role, replies, said, mail>>

Tell(t, what) == ClientSend(t) /\ said' = [said EXCEPT ![t] = Append(@, what)]

p_play(t) ==
  /\ At(t, "play")
  /\ Tell(t, LoginsOf(t)[replies[t] + 1])
  /\ Then(t, "reply")
  /\ UNCHANGED <<game_mutex, game_role, replies, mail>>

\* parse_wait, and parse_invl after the name that is in use.
CheckReply(t) ==
  /\ At(t, "reply") /\ mail[t] # <<>>
  /\ LET ok == Head(mail[t]) = ExpectedReply(t)
     IN  /\ Then(t, CASE ~ok -> "exited"
                      [] ok /\ Head(mail[t]) = INVL -> "play"
                      [] OTHER -> "release")
         /\ replies' = IF ok THEN [replies EXCEPT ![t] = @ + 1] ELSE replies
  /\ mail' = [mail EXCEPT ![t] = Tail(@)]
  /\ UNCHANGED <<vars, game_mutex, game_role, said>>

Release(t) ==
  /\ At(t, "release")
  /\ game_mutex' = NULL
  /\ Then(t, "begin")
  /\ UNCHANGED <<vars, game_role, replies, said, mail>>

parse_begn(t) ==
  /\ At(t, "begin") /\ mail[t] # <<>>
  /\ Then(t, IF Head(mail[t]) = BEGN(Role(t), NameOf(Opponent(t)))
             THEN "game" ELSE "exited")
  /\ mail' = [mail EXCEPT ![t] = Tail(@)]
  /\ UNCHANGED <<vars, game_mutex, game_role, replies, said>>

PlayGame(t) ==
  /\ At(t, "game")
  /\ \/ t \in LastMessage /\ Tell(t, Final) /\ Then(t, "over")
     \/ t \in Leaves /\ ClientClose(t) /\ Then(t, "passed") /\ UNCHANGED said
     \/ t \notin LastMessage \cup Leaves /\ Then(t, "over") /\ UNCHANGED <<vars, said>>
  /\ UNCHANGED <<game_mutex, game_role, replies, mail>>

\* OVER or the drop of the connection, then close and PASSED.
SeeEnd(t) ==
  /\ At(t, "over") /\ peer[t] = "gone"
  /\ Then(t, "passed")
  /\ UNCHANGED <<vars, game_mutex, game_role, replies, said, mail>>

ThreadStep(t) ==
  \/ Look(t) \/ ConnectStep(t) \/ p_play(t) \/ CheckReply(t) \/ Release(t)
  \/ parse_begn(t) \/ PlayGame(t) \/ SeeEnd(t)

-----------------------------------------------------------------------------
(* The server, with what it reads and writes.                               *)

Mail(t, m) == mail' = [mail EXCEPT ![t] = Append(@, m)]
Heard(t)   == said' = [said EXCEPT ![t] = Tail(@)]

ServeLogin ==
  \/ (Accept \/ Check \/ Register \/ Spawn) /\ UNCHANGED <<said, mail>>
  \/ pc = "get_message" /\ said[cur] # <<>>
     /\ Play(Head(said[cur])) /\ Heard(cur) /\ UNCHANGED mail
  \/ Refuse /\ Mail(cur, INVL) /\ UNCHANGED said
  \/ Welcome /\ Mail(cur, WAIT) /\ UNCHANGED said

ServeGame(g) ==
  \/ Begin1(g) /\ Mail(g, BEGN("X", name[client2[g]])) /\ UNCHANGED said
  \/ Begin2(g) /\ Mail(client2[g], BEGN("O", name[g])) /\ UNCHANGED said
  \/ \E c \in Players(g) :
       /\ PlayMessage(g, c) /\ thread'[g] = "remove1"
       /\ Heard(c) /\ UNCHANGED mail
  \/ (\E c \in Players(g) : PlayDrop(g, c)) /\ UNCHANGED <<said, mail>>
  \/ (Remove1(g) \/ Remove2(g) \/ Close1(g) \/ Close2(g)) /\ UNCHANGED <<said, mail>>

AllPassed == \A t \in Client : at[t] = "passed"
\* main sleeps in a loop until it is interrupted, whatever the threads do.
Asleep == AllPassed /\ UNCHANGED drivervars

DriverNext ==
  \/ \E t \in Client : Obtain(t)
  \/ \E t \in Client : ThreadStep(t)
  \/ ServeLogin /\ UNCHANGED driver
  \/ \E g \in Client : ServeGame(g) /\ UNCHANGED driver
  \/ Asleep

\* Every thread runs.  A mutex of POSIX need not be fair; that the thread whose
\* turn it is gets it sooner or later, among those that only look, is assumed.
DriverFairness ==
  /\ \A t \in Client : WF_drivervars(ThreadStep(t))
  /\ WF_drivervars(ServeLogin /\ UNCHANGED driver)
  /\ \A g \in Client : WF_drivervars(ServeGame(g) /\ UNCHANGED driver)
  /\ SF_drivervars(\E t \in Client : t = game_role /\ Obtain(t))
DriverSpec == DriverInit /\ [][DriverNext]_drivervars /\ DriverFairness

-----------------------------------------------------------------------------
\* Taking turns works: every client is told WAIT and gets the opponent and the
\* role of its script, whatever the interleaving of the threads of the driver
\* and of the server.  The one check that depends on timing is the first of
\* C_client_1, that Jay Brown is still playing.
OnlyNameInUseFails ==
  \A t \in Client : at[t] = "exited" => t = 10 /\ replies[t] = 0

\* If B's game outlasts that check, all clients pass: the mutex always comes
\* back, and no thread waits for a turn or a message that never comes.
GameBOutlasts ==
  [](\A g \in Client : (g = 8 /\ thread[g] \in {"close1", "close2", "done"})
                          => replies[10] > 0)
AllPassIfBLasts == GameBOutlasts => <>AllPassed
=============================================================================
