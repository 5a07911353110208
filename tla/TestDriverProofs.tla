-------------------------- MODULE TestDriverProofs --------------------------
(***************************************************************************)
(* Proofs about TestDriver, for any of its tests in a row up to all twelve *)
(* clients: the checks of the scripts hold, but for the first of C_client_1. *)
(***************************************************************************)
EXTENDS TestDriver, ServerProofs

-----------------------------------------------------------------------------
(* Where a client of the driver is with the server.                         *)

LogsIn(t)   == Queued(t) \/ (t = cur /\ pc = "get_message")
Welcomed(t) == Entered(t) \/ (t = cur /\ pc = "register")

\* The login it tries, or tries next.
Login(t)    == LoginsOf(t)[replies[t] + 1]
\* The one check that depends on timing.
Early(t)    == t = 10 /\ replies[t] = 0

Begins(t)   == Seq({BEGN(Role(t), NameOf(Opponent(t)))})

\* Between PLAY and its reply: the server has not read it, considers it, has
\* refused it or let the client in.
Unread(t) ==
  /\ said[t] = <<Login(t)>> /\ mail[t] = <<>>
  /\ LogsIn(t)
Considered(t) ==
  /\ said[t] = <<>> /\ mail[t] = <<>>
  /\ t = cur /\ name[t] = Login(t)
  /\ pc \in {"check", "refuse", "welcome"}
  /\ pc = "refuse" => Early(t)
Refused(t) ==
  /\ said[t] = <<>> /\ mail[t] = <<INVL>>
  /\ t = cur /\ pc = "get_message"
  /\ Early(t)
Admitted(t) ==
  /\ mail[t] \in Seq({WAIT, BEGN(Role(t), NameOf(Opponent(t)))}) \ {<<>>}
  /\ Head(mail[t]) = WAIT /\ Tail(mail[t]) \in Begins(t)
  /\ Welcomed(t)

Places == {"obtain", "look", "connect", "play", "reply", "release", "begin",
           "game", "over", "passed", "exited"}
Before == {"obtain", "look", "connect"}
After  == {"release", "begin", "game", "over", "passed"}
Turn   == {"connect", "play", "reply", "release", "exited"}

Follows(t) ==
  /\ at[t] \in Before =>
       peer[t] = "none" /\ replies[t] = 0 /\ said[t] = <<>> /\ mail[t] = <<>>
  /\ at[t] = "play" =>
       /\ LogsIn(t) /\ said[t] = <<>> /\ mail[t] = <<>>
       /\ replies[t] < Len(LoginsOf(t))
  /\ at[t] = "reply" =>
       /\ replies[t] < Len(LoginsOf(t))
       /\ Unread(t) \/ Considered(t) \/ Refused(t) \/ Admitted(t)
  /\ at[t] \in After =>
       /\ Welcomed(t) /\ replies[t] = Len(LoginsOf(t))
       /\ mail[t] \in Begins(t)
  /\ at[t] = "exited" => Welcomed(t) /\ Early(t)

Scripts == \A t \in Client : Follows(t)

\* The mutex is with the thread whose turn it is from its look to its WAIT.
Turns ==
  /\ game_role \in Nat
  /\ \A t \in Client : at[t] \in Turn \cup {"look"} => game_mutex = t
  /\ \A t \in Client : at[t] \in Turn => game_role = t + 1
  /\ \A t \in Client : at[t] \in {"obtain", "look"} <=> t >= game_role

\* The server meets the clients in that order, under the names of the scripts.
InTurn == \A k \in DOMAIN arrived : arrived[k] = First(Client) + k - 1
Named  == \A c \in Client :
            c \in Holders \/ (c = cur /\ pc = "register")
              => name[c] = NameOf(c) \/ Early(c)

DriverTypes ==
  /\ at \in [Client -> Places]
  /\ replies \in [Client -> Nat]
  /\ DOMAIN said = Client /\ DOMAIN mail = Client
  /\ \A c \in Client : peer[c] # "reset"

DInv == DriverTypes /\ Turns /\ InTurn /\ Named /\ Scripts

-----------------------------------------------------------------------------
(* The scripts.                                                             *)

LEMMA Clients ==
  /\ Client \subseteq 0..11
  /\ First(Client) \in Client /\ First(Client) % 2 = 0
  /\ \A c \in Client : c \in Nat /\ c >= First(Client)
  /\ \A c \in Client : First(Client)..c \subseteq Client
<1>1. PICK a \in 0..6, b \in 0..6 : a < b /\ Client = (2 * a)..(2 * b - 1)
  BY WholeTests
<1>2. Client \subseteq Nat /\ 2 * a \in Client
  BY <1>1
<1>3. First(Client) \in Client /\ \A c \in Client : First(Client) <= c
  BY <1>2, Least
<1>4. First(Client) = 2 * a
  BY <1>1, <1>2, <1>3
<1> QED BY <1>1, <1>3, <1>4

LEMMA ScriptNames ==
  /\ NameOf(0) = "Yash Patel" /\ NameOf(1) = "Jasmit Singh"
  /\ NameOf(2) = "Barbara"    /\ NameOf(3) = "James"
  /\ NameOf(4) = "H"          /\ NameOf(5) = "Yo"
  /\ NameOf(6) = "Jay"        /\ NameOf(7) = "Brown"
  /\ NameOf(8) = "Joe Sally"  /\ NameOf(9) = "Jay Brown"
  /\ NameOf(10) = "Moe Gates" /\ NameOf(11) = "Jays"
  BY DEF NameOf, LoginsOf, Logins

\* Everybody has one name to try, client 10 another one first.
LEMMA ScriptLengths ==
  ASSUME NEW t \in 0..11
  PROVE  /\ Len(LoginsOf(t)) = IF t = 10 THEN 2 ELSE 1
         /\ DOMAIN LoginsOf(t) = 1..Len(LoginsOf(t))
<1>1. Len(LoginsOf(0)) = 1 /\ DOMAIN LoginsOf(0) = 1..1
  BY DEF LoginsOf, Logins
<1>2. Len(LoginsOf(1)) = 1 /\ DOMAIN LoginsOf(1) = 1..1
  BY DEF LoginsOf, Logins
<1>3. Len(LoginsOf(2)) = 1 /\ DOMAIN LoginsOf(2) = 1..1
  BY DEF LoginsOf, Logins
<1>4. Len(LoginsOf(3)) = 1 /\ DOMAIN LoginsOf(3) = 1..1
  BY DEF LoginsOf, Logins
<1>5. Len(LoginsOf(4)) = 1 /\ DOMAIN LoginsOf(4) = 1..1
  BY DEF LoginsOf, Logins
<1>6. Len(LoginsOf(5)) = 1 /\ DOMAIN LoginsOf(5) = 1..1
  BY DEF LoginsOf, Logins
<1>7. Len(LoginsOf(6)) = 1 /\ DOMAIN LoginsOf(6) = 1..1
  BY DEF LoginsOf, Logins
<1>8. Len(LoginsOf(7)) = 1 /\ DOMAIN LoginsOf(7) = 1..1
  BY DEF LoginsOf, Logins
<1>9. Len(LoginsOf(8)) = 1 /\ DOMAIN LoginsOf(8) = 1..1
  BY DEF LoginsOf, Logins
<1>10. Len(LoginsOf(9)) = 1 /\ DOMAIN LoginsOf(9) = 1..1
  BY DEF LoginsOf, Logins
<1>11. Len(LoginsOf(10)) = 2 /\ DOMAIN LoginsOf(10) = 1..2
  BY DEF LoginsOf, Logins
<1>12. Len(LoginsOf(11)) = 1 /\ DOMAIN LoginsOf(11) = 1..1
  BY DEF LoginsOf, Logins
<1>13. t \in {0, 1, 2, 3, 4, 5, 6, 7, 8, 9, 10, 11}
  OBVIOUS
<1> QED
  BY <1>1, <1>2, <1>3, <1>4, <1>5, <1>6, <1>7, <1>8, <1>9, <1>10, <1>11, <1>12, <1>13

LEMMA NamesDiffer == \A t, u \in 0..11 : NameOf(t) = NameOf(u) => t = u
<1>1. \A i \in 0..11 : i \in {0, 1, 2, 3, 4, 5, 6, 7, 8, 9, 10, 11}
  OBVIOUS
<1>2. NameOf(0) \notin {NameOf(1), NameOf(2), NameOf(3), NameOf(4), NameOf(5), NameOf(6), NameOf(7), NameOf(8), NameOf(9), NameOf(10), NameOf(11)}
  BY ScriptNames, Zenon
<1>3. NameOf(1) \notin {NameOf(2), NameOf(3), NameOf(4), NameOf(5), NameOf(6), NameOf(7), NameOf(8), NameOf(9), NameOf(10), NameOf(11)}
  BY ScriptNames, Zenon
<1>4. NameOf(2) \notin {NameOf(3), NameOf(4), NameOf(5), NameOf(6), NameOf(7), NameOf(8), NameOf(9), NameOf(10), NameOf(11)}
  BY ScriptNames, Zenon
<1>5. NameOf(3) \notin {NameOf(4), NameOf(5), NameOf(6), NameOf(7), NameOf(8), NameOf(9), NameOf(10), NameOf(11)}
  BY ScriptNames, Zenon
<1>6. NameOf(4) \notin {NameOf(5), NameOf(6), NameOf(7), NameOf(8), NameOf(9), NameOf(10), NameOf(11)}
  BY ScriptNames, Zenon
<1>7. NameOf(5) \notin {NameOf(6), NameOf(7), NameOf(8), NameOf(9), NameOf(10), NameOf(11)}
  BY ScriptNames, Zenon
<1>8. NameOf(6) \notin {NameOf(7), NameOf(8), NameOf(9), NameOf(10), NameOf(11)}
  BY ScriptNames, Zenon
<1>9. NameOf(7) \notin {NameOf(8), NameOf(9), NameOf(10), NameOf(11)}
  BY ScriptNames, Zenon
<1>10. NameOf(8) \notin {NameOf(9), NameOf(10), NameOf(11)}
  BY ScriptNames, Zenon
<1>11. NameOf(9) \notin {NameOf(10), NameOf(11)}
  BY ScriptNames, Zenon
<1>12. NameOf(10) \notin {NameOf(11)}
  BY ScriptNames, Zenon
<1> QED
  BY <1>1, <1>2, <1>3, <1>4, <1>5, <1>6, <1>7, <1>8, <1>9, <1>10, <1>11, <1>12

LEMMA Tries ==
  ASSUME NEW t \in Client
  PROVE  /\ Len(LoginsOf(t)) = IF t = 10 THEN 2 ELSE 1
         /\ LoginsOf(t)[Len(LoginsOf(t))] = NameOf(t)
         /\ \A r \in Nat : r < Len(LoginsOf(t)) => LoginsOf(t)[r + 1] \in Name
<1>1. t \in 0..11
  BY Clients
<1>2. /\ Len(LoginsOf(t)) = IF t = 10 THEN 2 ELSE 1
      /\ DOMAIN LoginsOf(t) = 1..Len(LoginsOf(t))
  BY <1>1, ScriptLengths
<1>3. \A k \in DOMAIN LoginsOf(t) : LoginsOf(t)[k] \in Name
  BY WholeTests
<1>4. \A r \in Nat : r < Len(LoginsOf(t)) => LoginsOf(t)[r + 1] \in Name
  BY <1>2, <1>3
<1>5. LoginsOf(t)[Len(LoginsOf(t))] = NameOf(t)
  BY DEF NameOf
<1> QED BY <1>2, <1>4, <1>5

\* A client that tries a name tries that of its script, but for the early one.
LEMMA LoginIs ==
  ASSUME NEW t \in Client, replies[t] \in Nat, replies[t] < Len(LoginsOf(t))
  PROVE  /\ Login(t) \in Name
         /\ Early(t) \/ Login(t) = NameOf(t)
         /\ ExpectedReply(t) = IF Early(t) THEN INVL ELSE WAIT
         /\ Early(t) \/ replies[t] + 1 = Len(LoginsOf(t))
<1>1. CASE t = 10
  <2>1. Len(LoginsOf(t)) = 2 /\ LoginsOf(t)[2] = NameOf(t)
    BY <1>1, Tries
  <2>2. replies[t] = 0 \/ replies[t] = 1
    BY <2>1
  <2> QED BY <1>1, <2>1, <2>2, Tries DEF Login, Early, ExpectedReply
<1>2. CASE t # 10
  <2>1. Len(LoginsOf(t)) = 1 /\ LoginsOf(t)[1] = NameOf(t)
    BY <1>2, Tries
  <2>2. replies[t] = 0
    BY <2>1
  <2> QED BY <1>2, <2>1, <2>2, Tries DEF Login, Early, ExpectedReply
<1> QED BY <1>1, <1>2

-----------------------------------------------------------------------------
(* Every step of the driver is a step of Server or none of its.             *)

LEMMA SaidIsName ==
  ASSUME OInv, DInv, pc = "get_message", said[cur] # <<>>
  PROVE  /\ cur \in Client /\ at[cur] = "reply"
         /\ Unread(cur) /\ Head(said[cur]) = Login(cur) /\ Login(cur) \in Name
<1>1. cur \in Client /\ ~Entered(cur) /\ peer[cur] # "none"
  BY DEF OInv, IInv, LoggingIn, Placed, MainOK, QueueOK
<1>2. ~Welcomed(cur)
  BY <1>1 DEF Welcomed
<1>3. at[cur] \in Places /\ Follows(cur) /\ replies[cur] \in Nat
  BY <1>1 DEF DInv, DriverTypes, Scripts
<1>4. at[cur] = "reply" /\ Unread(cur) /\ replies[cur] < Len(LoginsOf(cur))
  BY <1>1, <1>2, <1>3
  DEF Follows, Places, Before, After, Considered, Refused, Admitted
<1>5. Head(said[cur]) = Login(cur)
  BY <1>4 DEF Unread
<1> QED BY <1>1, <1>3, <1>4, <1>5, LoginIs

LEMMA DriverStep == OInv /\ DInv /\ [DriverNext]_drivervars => [Next]_vars
<1> SUFFICES ASSUME OInv, DInv, [DriverNext]_drivervars PROVE [Next]_vars
  OBVIOUS
<1>1. CASE UNCHANGED drivervars \/ Asleep
  BY <1>1 DEF drivervars, Asleep
<1>2. ASSUME NEW t \in Client, Obtain(t) \/ ThreadStep(t)
      PROVE  [Next]_vars
  BY <1>2
  DEF ThreadStep, Obtain, Look, ConnectStep, p_play, CheckReply, Release,
      parse_begn, PlayGame, SeeEnd, Tell, Next
<1>3. CASE ServeLogin
  <2>1. CASE pc = "get_message" /\ said[cur] # <<>> /\ Play(Head(said[cur]))
    BY <2>1, SaidIsName DEF Next, Acceptor
  <2> QED BY <1>3, <2>1 DEF ServeLogin, Next, Acceptor
<1>4. ASSUME NEW g \in Client, ServeGame(g)
      PROVE  Next
  BY <1>4 DEF ServeGame, GameThread, Next
<1> QED BY <1>1, <1>2, <1>3, <1>4 DEF DriverNext

LEMMA ServerKeeps == OInv /\ DInv /\ [DriverNext]_drivervars => OInv'
  BY DriverStep, NextInv, NextPlaced, NextSockets, NextRegistry, NextSlots
  DEF OInv

-----------------------------------------------------------------------------
(* A thread and its client, left alone by a step.                           *)

\* What the server does to others leaves client u where it is with it.
Spared(u) ==
  /\ peer[u] = "none" => peer'[u] = "none"
  /\ LogsIn(u) => LogsIn(u)'
  /\ Welcomed(u) => Welcomed(u)'
  /\ u = cur /\ pc \in {"get_message", "check", "refuse", "welcome"}
       => UNCHANGED <<cur, pc>> /\ name'[u] = name[u]

Alone(u) ==
  /\ at'[u] = at[u] /\ replies'[u] = replies[u]
  /\ said'[u] = said[u] /\ mail'[u] = mail[u]

LEMMA StillFollows ==
  ASSUME NEW u \in Client, Follows(u), Spared(u), Alone(u)
  PROVE  Follows(u)'
<1>1. /\ Early(u)' = Early(u) /\ Login(u)' = Login(u)
  BY DEF Alone, Early, Login
<1>2. Unread(u) => Unread(u)'
  BY <1>1 DEF Alone, Spared, Unread
<1>3. Considered(u) => Considered(u)'
  BY <1>1 DEF Alone, Spared, Considered
<1>4. Refused(u) => Refused(u)'
  BY <1>1 DEF Alone, Spared, Refused
<1>5. Admitted(u) => Admitted(u)'
  BY DEF Alone, Spared, Admitted
<1> QED BY <1>1, <1>2, <1>3, <1>4, <1>5 DEF Alone, Spared, Follows, Before

\* A step that changes nothing of the server spares everybody.
LEMMA AllSpared == ASSUME UNCHANGED vars, NEW u PROVE Spared(u)
  BY DEF vars, main, conns, history, Spared, LogsIn, Welcomed, Queued, Entered

\* Where a client can be with the server, by where its thread is.
LEMMA NotYetKnown ==
  ASSUME OInv, DInv, NEW t \in Client, at[t] \in Before
  PROVE  ~Queued(t) /\ ~Entered(t) /\ t # cur
  BY DEF OInv, Placed, QueueOK, DInv, Scripts, Follows

LEMMA OneTurn ==
  ASSUME DInv, NEW t \in Client, NEW u \in Client,
         at[t] \in Turn \cup {"look"}, at[u] \in Turn \cup {"look"}
  PROVE  t = u
  BY DEF DInv, Turns

\* Who the main thread is busy with has said PLAY, unless it still waits for it.
LEMMA WhoIsServed ==
  ASSUME OInv, DInv, pc \in {"check", "refuse", "welcome"}
  PROVE  cur \in Client /\ at[cur] = "reply" /\ Considered(cur)
<1>1. cur \in Client /\ ~Entered(cur)
  BY DEF OInv, IInv, LoggingIn, Placed, MainOK
<1>2. peer[cur] # "none" /\ ~Queued(cur)
  BY <1>1 DEF OInv, Placed, QueueOK
<1>3. ~Welcomed(cur) /\ ~LogsIn(cur)
  BY <1>1, <1>2 DEF Welcomed, LogsIn
<1>4. Follows(cur) /\ at[cur] \in Places
  BY <1>1 DEF DInv, DriverTypes, Scripts
<1> QED
  BY <1>1, <1>2, <1>3, <1>4
  DEF Follows, Places, Before, After, Unread, Refused, Admitted

\* Only who is registered holds a name.
LEMMA HoldersEntered == ASSUME OInv, NEW c \in Holders PROVE Entered(c)
<1>1. arrived \in Seq(Client) /\ client1 \in Client \cup {NULL} /\ c \in Client
  BY DEF OInv, IInv, TypeOK, Holders
<1>2. CASE c = client1
  BY <1>1, <1>2, ServerAssumption DEF OInv, Placed, MainOK, Entered
<1>3. CASE c = cur /\ pc = "spawn"
  BY <1>1, <1>3 DEF OInv, Placed, MainOK, Entered
<1>4. ASSUME NEW g \in Client, thread[g] # "none"
      PROVE  Entered(g) /\ Entered(client2[g])
  <2>1. PICK k \in 1..Len(arrived) : PlaysFrom(g, k)
    BY <1>4 DEF OInv, Placed, GamesOK
  <2> QED BY <1>1, <2>1 DEF PlaysFrom, Entered
<1> QED BY <1>1, <1>2, <1>3, <1>4 DEF Holders

\* The client whose check failed still has its turn, as nobody after it does.
LEMMA EarlyIsBusy ==
  ASSUME OInv, DInv, NEW c \in Client, Early(c), Entered(c)
  PROVE  at[c] \in {"reply", "exited"}
<1>1. Follows(c) /\ at[c] \in Places /\ peer[c] # "none"
  BY DEF DInv, DriverTypes, Scripts, OInv, Placed, QueueOK
<1>2. ~LogsIn(c)
  BY DEF LogsIn, OInv, Placed, QueueOK, MainOK
<1>3. Len(LoginsOf(c)) # 0
  BY Tries
<1> QED BY <1>1, <1>2, <1>3 DEF Follows, Places, Before, After, Early

LEMMA InitDriver == DriverInit => DInv
<1> SUFFICES ASSUME DriverInit PROVE DInv
  OBVIOUS
<1>1. Init
  BY DEF DriverInit
<1>2. DriverTypes
  BY <1>1 DEF DriverInit, DriverTypes, Init, Places
<1>3. Turns
  <2>1. First(Client) \in Nat /\ \A t \in Client : t \in Nat /\ t >= First(Client)
    BY Clients
  <2> QED BY <2>1 DEF DriverInit, Turns, Turn
<1>4. InTurn
  BY <1>1 DEF Init, InTurn
<1>5. Named
  BY <1>1, ServerAssumption DEF Init, Named, Holders
<1>6. ASSUME NEW t \in Client PROVE Follows(t)
  BY <1>1 DEF DriverInit, Init, Follows, Before, After
<1> QED BY <1>2, <1>3, <1>4, <1>5, <1>6 DEF DInv, Scripts

-----------------------------------------------------------------------------
(* The threads of the driver.                                               *)

\* A step of thread t that changes nothing of the server.
LEMMA OneThread ==
  ASSUME DInv, UNCHANGED vars, NEW t \in Client, DriverTypes', Turns',
         \A u \in Client \ {t} : Alone(u), Follows(t)',
         replies'[t] = replies[t] \/ ~Early(t) \/ (t = cur /\ pc = "get_message"),
         OInv
  PROVE  DInv'
<1>1. \A u \in Client : Follows(u)'
  BY AllSpared, StillFollows DEF DInv, Scripts
<1>2. InTurn'
  BY DEF DInv, InTurn, vars, history
<1>3. Named'
  <2>1. Holders' = Holders /\ UNCHANGED <<cur, pc, name>>
    BY DEF vars, main, games, Holders
  <2>2. \A c \in Client : (Early(c) => Early(c)') \/ (c = cur /\ pc = "get_message")
    BY DEF Early, Alone
  <2>3. cur \notin Holders \/ pc # "get_message"
    BY HoldersEntered DEF OInv, Placed, MainOK
  <2> QED BY <2>1, <2>2, <2>3 DEF DInv, Named
<1> QED BY <1>1, <1>2, <1>3 DEF DInv, Scripts

LEMMA ObtainKeeps == ASSUME OInv, DInv, NEW t \in Client, Obtain(t) PROVE DInv'
<1>1. at'[t] = "look" /\ UNCHANGED <<vars, game_role, replies, said, mail>>
  BY DEF Obtain, At, Then, DInv, DriverTypes
<1>2. \A u \in Client \ {t} : Alone(u)
  BY <1>1 DEF Obtain, Then, Alone, DInv, DriverTypes
<1>3. DriverTypes'
  BY <1>1 DEF Obtain, Then, DInv, DriverTypes, Places, vars, conns
<1>4. Turns'
  <2>1. \A u \in Client : at[u] \notin Turn \cup {"look"}
    BY ServerAssumption DEF Obtain, DInv, Turns
  <2>2. \A u \in Client : at'[u] = IF u = t THEN "look" ELSE at[u]
    BY DEF Obtain, Then, DInv, DriverTypes
  <2> QED BY <1>1, <2>1, <2>2 DEF Obtain, At, DInv, Turns, Turn
<1>5. Follows(t)'
  <2>1. Follows(t) /\ at[t] = "obtain"
    BY DEF Obtain, At, DInv, Scripts
  <2> QED BY <1>1, <2>1 DEF Follows, Before, After, vars, conns
<1> QED BY <1>1, <1>2, <1>3, <1>4, <1>5, OneThread

LEMMA LookKeeps == ASSUME OInv, DInv, NEW t \in Client, Look(t) PROVE DInv'
<1>1. /\ UNCHANGED <<vars, replies, said, mail>>
      /\ \/ at'[t] = "connect" /\ game_role = t /\ game_role' = t + 1 /\ UNCHANGED game_mutex
         \/ at'[t] = "obtain" /\ game_mutex' = NULL /\ UNCHANGED game_role
      /\ \A u \in Client \ {t} : at'[u] = at[u]
      /\ at[t] = "look"
  BY DEF Look, At, Then, DInv, DriverTypes
<1>2. \A u \in Client \ {t} : Alone(u)
  BY <1>1 DEF Alone
<1>3. DriverTypes'
  BY <1>1 DEF Look, Then, DInv, DriverTypes, Places, vars, conns
<1>4. Turns'
  <2>1. \A u \in Client : u \in Nat
    BY Clients
  <2>2. \A u \in Client : at[u] \in Turn \cup {"look"} => u = t
    BY <1>1, OneTurn
  <2> QED BY <1>1, <2>1, <2>2 DEF DInv, Turns, Turn
<1>5. Follows(t)'
  <2>1. Follows(t) /\ at[t] = "look"
    BY <1>1 DEF DInv, Scripts
  <2> QED BY <1>1, <2>1 DEF Follows, Before, After, vars, conns
<1> QED BY <1>1, <1>2, <1>3, <1>4, <1>5, OneThread

\* A step of thread t within its turn, or after it, that takes no turn.
LEMMA SameTurn ==
  ASSUME DInv, NEW t \in Client, UNCHANGED <<game_mutex, game_role>>,
         at[t] \in Places \ {"obtain", "look"},
         at'[t] \in Places \ {"obtain", "look"},
         at[t] \notin Turn => at'[t] \notin Turn,
         \A u \in Client \ {t} : at'[u] = at[u]
  PROVE  Turns'
  BY DEF DInv, Turns, Turn

LEMMA CheckReplyKeeps ==
  ASSUME OInv, DInv, NEW t \in Client, CheckReply(t) PROVE DInv'
<1>1. /\ UNCHANGED <<vars, game_mutex, game_role, said>>
      /\ at[t] = "reply" /\ mail[t] # <<>>
      /\ \A u \in Client \ {t} : at'[u] = at[u] /\ replies'[u] = replies[u]
                                 /\ mail'[u] = mail[u]
      /\ mail'[t] = Tail(mail[t])
      /\ Follows(t) /\ replies[t] \in Nat
  BY DEF CheckReply, At, Then, DInv, DriverTypes, Scripts
<1>2. \A u \in Client \ {t} : Alone(u)
  BY <1>1 DEF Alone
<1>3. DriverTypes'
  BY <1>1 DEF CheckReply, Then, DInv, DriverTypes, Places, vars, conns
<1>4. Turns'
  <2>1. at'[t] \in {"exited", "play", "release"}
    BY DEF CheckReply, Then, DInv, DriverTypes
  <2> QED BY <1>1, <2>1, SameTurn DEF Places, Turn
<1>5. replies[t] < Len(LoginsOf(t)) /\ (Refused(t) \/ Admitted(t))
  BY <1>1 DEF Follows, Unread, Considered
<1>6. CASE Refused(t)
  <2>1. Head(mail[t]) = INVL /\ mail'[t] = <<>> /\ ExpectedReply(t) = INVL
    BY <1>1, <1>5, <1>6, LoginIs DEF Refused
  <2>2. at'[t] = "play" /\ replies'[t] = replies[t] + 1
    BY <1>1, <2>1 DEF CheckReply, Then, DInv, DriverTypes
  <2>3. replies'[t] < Len(LoginsOf(t))
    BY <1>6, <2>2, Tries DEF Refused, Early
  <2>4. LogsIn(t)' /\ said'[t] = <<>>
    BY <1>1, <1>6 DEF Refused, LogsIn, vars, main
  <2>5. Follows(t)'
    BY <2>1, <2>2, <2>3, <2>4 DEF Follows, Before, After
  <2> QED BY <1>1, <1>2, <1>3, <1>4, <1>6, <2>5, OneThread DEF Refused
<1>7. CASE Admitted(t)
  <2>1. Head(mail[t]) = WAIT /\ mail'[t] \in Begins(t) /\ Welcomed(t)'
    BY <1>1, <1>7 DEF Admitted, Welcomed, Entered, vars, main, history
  <2>2. CASE Early(t)
    <3>1. ExpectedReply(t) = INVL /\ WAIT # INVL
      BY <1>1, <1>5, <2>2, LoginIs DEF WAIT, INVL
    <3>2. at'[t] = "exited" /\ replies' = replies
      BY <1>1, <2>1, <3>1 DEF CheckReply, Then, DInv, DriverTypes
    <3>3. Follows(t)'
      BY <2>1, <2>2, <3>2 DEF Follows, Before, After, Early
    <3> QED BY <1>1, <1>2, <1>3, <1>4, <3>2, <3>3, OneThread
  <2>3. CASE ~Early(t)
    <3>1. /\ ExpectedReply(t) = WAIT /\ WAIT # INVL
          /\ replies[t] + 1 = Len(LoginsOf(t))
      BY <1>1, <1>5, <2>3, LoginIs DEF WAIT, INVL
    <3>2. at'[t] = "release" /\ replies'[t] = replies[t] + 1
      BY <1>1, <2>1, <3>1 DEF CheckReply, Then, DInv, DriverTypes
    <3>3. Follows(t)'
      BY <2>1, <3>1, <3>2 DEF Follows, Before, After
    <3> QED BY <1>1, <1>2, <1>3, <1>4, <2>3, <3>3, OneThread
  <2> QED BY <2>2, <2>3
<1> QED BY <1>5, <1>6, <1>7

LEMMA ReleaseKeeps == ASSUME OInv, DInv, NEW t \in Client, Release(t) PROVE DInv'
<1>1. /\ UNCHANGED <<vars, game_role, replies, said, mail>>
      /\ at[t] = "release" /\ at'[t] = "begin" /\ Follows(t)
      /\ \A u \in Client \ {t} : at'[u] = at[u]
  BY DEF Release, At, Then, DInv, DriverTypes, Scripts
<1>2. \A u \in Client \ {t} : Alone(u)
  BY <1>1 DEF Alone
<1>3. DriverTypes'
  BY <1>1 DEF Release, Then, DInv, DriverTypes, Places, vars, conns
<1>4. Turns'
  <2>1. \A u \in Client : at[u] \in Turn \cup {"look"} => u = t
    BY <1>1, OneTurn DEF Turn
  <2> QED BY <1>1, <2>1 DEF DInv, Turns, Turn
<1>5. Follows(t)'
  <2>1. Welcomed(t) => Welcomed(t)'
    BY <1>1 DEF vars, main, history, Welcomed, Entered
  <2> QED BY <1>1, <2>1 DEF Follows, Before, After
<1> QED BY <1>1, <1>2, <1>3, <1>4, <1>5, OneThread

LEMMA BegnKeeps == ASSUME OInv, DInv, NEW t \in Client, parse_begn(t) PROVE DInv'
<1>1. /\ UNCHANGED <<vars, game_mutex, game_role, replies, said>>
      /\ at[t] = "begin" /\ Follows(t) /\ mail[t] # <<>>
      /\ \A u \in Client \ {t} : at'[u] = at[u] /\ mail'[u] = mail[u]
      /\ mail'[t] = Tail(mail[t])
  BY DEF parse_begn, At, Then, DInv, DriverTypes, Scripts
<1>2. mail[t] \in Begins(t) /\ Welcomed(t) /\ replies[t] = Len(LoginsOf(t))
  BY <1>1 DEF Follows, After
<1>3. /\ Head(mail[t]) = BEGN(Role(t), NameOf(Opponent(t)))
      /\ Tail(mail[t]) \in Begins(t)
  BY <1>1, <1>2 DEF Begins
<1>4. at'[t] = "game"
  BY <1>1, <1>3 DEF parse_begn, Then, DInv, DriverTypes
<1>5. \A u \in Client \ {t} : Alone(u)
  BY <1>1 DEF Alone
<1>6. DriverTypes'
  BY <1>1 DEF parse_begn, Then, DInv, DriverTypes, Places, vars, conns
<1>7. Turns'
  BY <1>1, <1>4, SameTurn DEF Places, Turn
<1>8. Follows(t)'
  <2>1. Welcomed(t)'
    BY <1>1, <1>2 DEF vars, main, history, Welcomed, Entered
  <2> QED BY <1>1, <1>2, <1>3, <1>4, <2>1 DEF Follows, Before, After
<1> QED BY <1>1, <1>5, <1>6, <1>7, <1>8, OneThread

LEMMA SeeEndKeeps == ASSUME OInv, DInv, NEW t \in Client, SeeEnd(t) PROVE DInv'
<1>1. /\ UNCHANGED <<vars, game_mutex, game_role, replies, said, mail>>
      /\ at[t] = "over" /\ at'[t] = "passed" /\ Follows(t)
      /\ \A u \in Client \ {t} : at'[u] = at[u]
  BY DEF SeeEnd, At, Then, DInv, DriverTypes, Scripts
<1>2. \A u \in Client \ {t} : Alone(u)
  BY <1>1 DEF Alone
<1>3. DriverTypes'
  BY <1>1 DEF SeeEnd, Then, DInv, DriverTypes, Places, vars, conns
<1>4. Turns'
  BY <1>1, SameTurn DEF Places, Turn
<1>5. Follows(t)'
  <2>1. Welcomed(t) => Welcomed(t)'
    BY <1>1 DEF vars, main, history, Welcomed, Entered
  <2> QED BY <1>1, <2>1 DEF Follows, Before, After
<1> QED BY <1>1, <1>2, <1>3, <1>4, <1>5, OneThread

\* A step of thread t with one of its client.
LEMMA OneClient ==
  ASSUME DInv, NEW t \in Client, DriverTypes', Turns',
         UNCHANGED <<main, name, games, history, replies, mail>>,
         \A u \in Client \ {t} : /\ at'[u] = at[u] /\ said'[u] = said[u]
                                 /\ peer'[u] = peer[u],
         backlog' = backlog \/ backlog' = Append(backlog, t),
         backlog \in Seq(Client),
         Follows(t)'
  PROVE  DInv'
<1>1. UNCHANGED <<pc, cur, client1, thread, client2, arrived, replies, mail, name>>
  BY DEF main, games, history
<1>2. \A u : Queued(u) => Queued(u)'
  BY DEF Queued
<1>3. \A u : Entered(u)' = Entered(u)
  BY <1>1 DEF Entered
<1>4. ASSUME NEW u \in Client \ {t} PROVE Follows(u)'
  <2>1. Spared(u) /\ Alone(u) /\ Follows(u)
    BY <1>1, <1>2, <1>3 DEF Spared, LogsIn, Welcomed, Alone, DInv, Scripts
  <2> QED BY <2>1, StillFollows
<1>5. InTurn' /\ Named'
  BY <1>1 DEF DInv, InTurn, Named, Holders, Early
<1> QED BY <1>4, <1>5 DEF DInv, Scripts

LEMMA ConnectKeeps ==
  ASSUME OInv, DInv, NEW t \in Client, ConnectStep(t) PROVE DInv'
<1>1. /\ UNCHANGED <<main, name, games, history, replies, mail, said, game_mutex,
                     game_role>>
      /\ at[t] = "connect" /\ at'[t] = "play" /\ Follows(t)
      /\ \A u \in Client \ {t} : at'[u] = at[u] /\ peer'[u] = peer[u]
      /\ backlog' = Append(backlog, t) /\ backlog \in Seq(Client)
  BY DEF ConnectStep, Connect, At, Then, DInv, DriverTypes, Scripts, OInv, IInv,
         TypeOK
<1>2. DriverTypes'
  BY <1>1 DEF ConnectStep, Connect, Then, DInv, DriverTypes, Places
<1>3. Turns'
  BY <1>1, SameTurn DEF Places, Turn
<1>4. Follows(t)'
  <2>1. LogsIn(t)'
    <3>1. backlog'[Len(backlog) + 1] = t /\ Len(backlog) + 1 \in DOMAIN backlog'
      BY <1>1
    <3> QED BY <3>1 DEF LogsIn, Queued
  <2>2. replies[t] = 0 /\ said[t] = <<>> /\ mail[t] = <<>>
    BY <1>1 DEF Follows, Before
  <2>3. Len(LoginsOf(t)) > 0
    BY Tries
  <2> QED BY <1>1, <2>1, <2>2, <2>3 DEF Follows, Before, After
<1> QED BY <1>1, <1>2, <1>3, <1>4, OneClient

LEMMA PlayKeeps == ASSUME OInv, DInv, NEW t \in Client, p_play(t) PROVE DInv'
<1>1. /\ UNCHANGED <<main, name, games, history, replies, mail, game_mutex,
                     game_role, peer, backlog>>
      /\ at[t] = "play" /\ at'[t] = "reply" /\ Follows(t)
      /\ \A u \in Client \ {t} : at'[u] = at[u] /\ said'[u] = said[u]
      /\ said'[t] = Append(said[t], Login(t)) /\ backlog \in Seq(Client)
  BY DEF p_play, Tell, ClientSend, At, Then, DInv, DriverTypes, Scripts, Login,
         OInv, IInv, TypeOK
<1>2. DriverTypes'
  BY <1>1 DEF p_play, Tell, Then, DInv, DriverTypes, Places
<1>3. Turns'
  BY <1>1, SameTurn DEF Places, Turn
<1>4. Follows(t)'
  <2>1. /\ LogsIn(t) /\ said[t] = <<>> /\ mail[t] = <<>>
        /\ replies[t] < Len(LoginsOf(t))
    BY <1>1 DEF Follows
  <2>2. said'[t] = <<Login(t)>> /\ Login(t)' = Login(t)
    BY <1>1, <2>1 DEF Login
  <2>3. LogsIn(t)'
    BY <1>1, <2>1 DEF LogsIn, Queued, main
  <2>4. Unread(t)'
    BY <1>1, <2>1, <2>2, <2>3 DEF Unread
  <2> QED BY <1>1, <2>1, <2>4 DEF Follows, Before, After
<1> QED BY <1>1, <1>2, <1>3, <1>4, OneClient

LEMMA GameKeeps == ASSUME OInv, DInv, NEW t \in Client, PlayGame(t) PROVE DInv'
<1>1. /\ UNCHANGED <<main, name, games, history, replies, mail, game_mutex,
                     game_role, backlog>>
      /\ at[t] = "game" /\ at'[t] \in {"over", "passed"} /\ Follows(t)
      /\ \A u \in Client \ {t} : /\ at'[u] = at[u] /\ said'[u] = said[u]
                                 /\ peer'[u] = peer[u]
      /\ backlog \in Seq(Client)
  BY DEF PlayGame, Tell, ClientSend, ClientClose, At, Then, DInv, DriverTypes,
         Scripts, OInv, IInv, TypeOK, vars, conns
<1>2. DriverTypes'
  <2>1. \A c \in Client : peer'[c] # "reset"
    BY DEF PlayGame, Tell, ClientSend, ClientClose, DInv, DriverTypes, vars,
           conns, OInv, IInv, TypeOK
  <2>2. DOMAIN said' = Client /\ at' \in [Client -> Places]
    BY DEF PlayGame, Tell, Then, DInv, DriverTypes, Places
  <2> QED BY <1>1, <2>1, <2>2 DEF DInv, DriverTypes
<1>3. Turns'
  BY <1>1, SameTurn DEF Places, Turn
<1>4. Follows(t)'
  <2>1. Welcomed(t) => Welcomed(t)'
    BY <1>1 DEF main, history, Welcomed, Entered
  <2> QED BY <1>1, <2>1 DEF Follows, Before, After
<1> QED BY <1>1, <1>2, <1>3, <1>4, OneClient

-----------------------------------------------------------------------------
(* The main thread of the server.                                           *)

\* A step that reads from and writes to the client it serves only, and keeps
\* who is registered.
LEMMA OneServed ==
  ASSUME OInv, DInv, UNCHANGED driver, NEW t \in Client,
         UNCHANGED <<arrived, thread, client1, client2, peer>>,
         DOMAIN said' = Client, DOMAIN mail' = Client,
         \A u \in Client \ {t} : /\ said'[u] = said[u] /\ mail'[u] = mail[u]
                                 /\ name'[u] = name[u]
                                 /\ Queued(u) => Queued(u)',
         cur = t \/ cur = NULL, t \notin Holders,
         pc # "register", pc # "spawn", pc' # "spawn",
         cur' = t, pc' = "register" => name'[t] = NameOf(t) \/ Early(t),
         Follows(t)'
  PROVE  DInv'
<1>1. UNCHANGED <<at, replies, game_mutex, game_role>>
  BY DEF driver
<1>2. \A u : Entered(u)' = Entered(u)
  BY DEF Entered
<1>3. ASSUME NEW u \in Client \ {t} PROVE Follows(u)'
  <2>1. /\ u # cur
        /\ LogsIn(u) => LogsIn(u)'
        /\ Welcomed(u) => Welcomed(u)'
    BY <1>2, ServerAssumption DEF LogsIn, Welcomed
  <2>2. Spared(u) /\ Alone(u) /\ Follows(u)
    BY <1>1, <2>1 DEF Spared, Alone, DInv, Scripts
  <2> QED BY <2>2, StillFollows
<1>4. Named'
  <2>1. \A c \in Client : c \in Holders' => c \in Holders
    BY DEF Holders
  <2> QED BY <1>1, <2>1 DEF DInv, Named, Early
<1>5. DriverTypes' /\ Turns' /\ InTurn'
  BY <1>1 DEF DInv, DriverTypes, Turns, InTurn
<1> QED BY <1>3, <1>4, <1>5 DEF DInv, Scripts

LEMMA AcceptKeeps ==
  ASSUME OInv, OInv', DInv, UNCHANGED driver, Accept, UNCHANGED <<said, mail>>
  PROVE  DInv'
<1>1. /\ backlog \in Seq(Client) /\ backlog # <<>> /\ backlog' = Tail(backlog)
      /\ cur' = Head(backlog) /\ pc' = "get_message" /\ pc = "accept" /\ cur = NULL
      /\ UNCHANGED <<arrived, thread, client1, client2, peer, name, said, mail>>
  BY DEF Accept, OInv, IInv, TypeOK, Placed, MainOK, games, history
<1>2. PICK t \in Client : t = Head(backlog) /\ Queued(t)
  BY <1>1, TailKeeps DEF Queued
<1>3. \A u \in Client \ {t} : Queued(u) => Queued(u)'
  <2>1. ASSUME NEW u \in Client \ {t}, NEW k \in DOMAIN backlog, backlog[k] = u
        PROVE  k - 1 \in DOMAIN Tail(backlog) /\ Tail(backlog)[k - 1] = u
    BY <1>1, <1>2, <2>1
  <2> QED BY <1>1, <2>1 DEF Queued
<1>4. t \notin Holders
  BY <1>2, HoldersEntered DEF OInv, Placed, QueueOK
<1>5. /\ Follows(t) /\ peer[t] # "none" /\ ~Welcomed(t)
      /\ at[t] \in Places /\ UNCHANGED <<at, replies>>
  BY <1>1, <1>2
  DEF DInv, DriverTypes, Scripts, OInv, Placed, QueueOK, Welcomed, driver
<1>6. Follows(t)'
  <2>1. LogsIn(t)'
    BY <1>1, <1>2 DEF LogsIn
  <2>2. at[t] = "play" \/ (at[t] = "reply" /\ Unread(t))
    BY <1>1, <1>2, <1>5, ServerAssumption
    DEF Follows, Places, Before, After, Considered, Refused, Admitted
  <2>3. Unread(t) => Unread(t)'
    BY <1>1, <1>5, <2>1 DEF Unread, Login
  <2> QED BY <1>1, <1>5, <2>1, <2>2, <2>3 DEF Follows, Before, After
<1>7. DOMAIN said' = Client /\ DOMAIN mail' = Client
  BY <1>1 DEF DInv, DriverTypes
<1> QED BY <1>1, <1>2, <1>3, <1>4, <1>6, <1>7, OneServed

LEMMA HeardKeeps ==
  ASSUME OInv, DInv, UNCHANGED driver, UNCHANGED mail, said[cur] # <<>>,
         Play(Head(said[cur])), Heard(cur)
  PROVE  DInv'
<1>1. /\ pc = "get_message" /\ pc' = "check" /\ UNCHANGED cur
      /\ UNCHANGED <<arrived, thread, client1, client2, peer, backlog, mail>>
      /\ name \in [Client -> Name \cup {NULL}]
      /\ name' = [name EXCEPT ![cur] = Head(said[cur])]
      /\ said' = [said EXCEPT ![cur] = Tail(said[cur])]
      /\ DOMAIN said = Client /\ DOMAIN mail = Client
  BY DEF Play, Received, Heard, games, history, OInv, IInv, TypeOK, DInv,
         DriverTypes
<1>2. /\ cur \in Client /\ at[cur] = "reply" /\ Unread(cur)
      /\ Head(said[cur]) = Login(cur) /\ Follows(cur)
  BY <1>1, SaidIsName DEF DInv, Scripts
<1>3. Follows(cur)'
  <2>1. said'[cur] = <<>> /\ name'[cur] = Login(cur) /\ mail'[cur] = <<>>
    BY <1>1, <1>2 DEF Unread
  <2>2. Login(cur)' = Login(cur) /\ UNCHANGED <<at, replies>>
    BY <1>1 DEF Login, driver
  <2>3. Considered(cur)'
    BY <1>1, <2>1, <2>2 DEF Considered
  <2> QED BY <1>1, <1>2, <2>2, <2>3 DEF Follows, Before, After
<1>4. cur \notin Holders
  BY <1>1, <1>2, HoldersEntered DEF OInv, Placed, MainOK
<1>5. \A u : Queued(u) => Queued(u)'
  BY <1>1 DEF Queued
<1> QED BY <1>1, <1>2, <1>3, <1>4, <1>5, OneServed

LEMMA CheckKeeps ==
  ASSUME OInv, DInv, UNCHANGED driver, UNCHANGED <<said, mail>>, Check
  PROVE  DInv'
<1>1. /\ pc = "check" /\ UNCHANGED cur
      /\ pc' = IF is_player_name_taken(player_names, name[cur])
               THEN "refuse" ELSE "welcome"
      /\ UNCHANGED <<arrived, thread, client1, client2, peer, backlog, mail, said,
                     name>>
      /\ DOMAIN said = Client /\ DOMAIN mail = Client
  BY DEF Check, conns, games, history, DInv, DriverTypes
<1>2. cur \in Client /\ at[cur] = "reply" /\ Considered(cur) /\ Follows(cur)
  BY <1>1, WhoIsServed DEF DInv, Scripts
<1>3. cur \notin Holders
  BY <1>1, <1>2, HoldersEntered DEF OInv, Placed, MainOK
<1>4. /\ replies[cur] \in Nat /\ replies[cur] < Len(LoginsOf(cur))
      /\ name[cur] = Login(cur) /\ name[cur] \in Name
      /\ Early(cur) \/ name[cur] = NameOf(cur)
  BY <1>2, LoginIs DEF Follows, Considered, DInv, DriverTypes
<1>5. pc' = "refuse" => Early(cur)
  <2> SUFFICES ASSUME is_player_name_taken(player_names, name[cur]), ~Early(cur)
               PROVE  FALSE
    BY <1>1
  <2>1. name[cur] \in Names(player_names)
    BY <1>4, NullAssumption DEF Names, is_player_name_taken
  <2>2. PICK c \in Holders : name[c] = name[cur]
    BY <2>1 DEF OInv, RegistryExact
  <2>3. c \in Client /\ c # cur /\ c \in 0..11 /\ cur \in 0..11
    BY <1>2, <1>3, Clients DEF Holders
  <2>4. name[c] = NameOf(c) => c = cur
    BY <1>4, <2>2, <2>3, NamesDiffer
  <2>5. Early(c)
    BY <2>3, <2>4 DEF DInv, Named
  <2>6. at[c] \in {"reply", "exited"}
    BY <2>2, <2>3, <2>5, HoldersEntered, EarlyIsBusy
  <2> QED BY <1>2, <2>3, <2>6, OneTurn DEF Turn
<1>6. Follows(cur)'
  <2>1. UNCHANGED <<at, replies>> /\ Login(cur)' = Login(cur) /\ Early(cur)' = Early(cur)
    BY <1>1 DEF Login, driver, Early
  <2>2. Considered(cur)'
    BY <1>1, <1>2, <1>5, <2>1 DEF Considered
  <2> QED BY <1>1, <1>2, <2>1, <2>2 DEF Follows, Before, After
<1>7. \A u : Queued(u) => Queued(u)'
  BY <1>1 DEF Queued
<1> QED BY <1>1, <1>2, <1>3, <1>6, <1>7, OneServed

\* INVL for the early one, and WAIT for whoever is let in.
LEMMA AnswerKeeps ==
  ASSUME OInv, DInv, UNCHANGED driver, UNCHANGED said,
         \/ Refuse /\ Mail(cur, INVL)
         \/ Welcome /\ Mail(cur, WAIT)
  PROVE  DInv'
<1>1. pc \in {"refuse", "welcome"}
  BY DEF Refuse, Welcome
<1>2. /\ cur \in Client /\ at[cur] = "reply" /\ Considered(cur) /\ Follows(cur)
      /\ ~WriteFails(cur)
  BY <1>1, WhoIsServed DEF DInv, Scripts, DriverTypes, WriteFails
<1>3. /\ UNCHANGED <<cur, arrived, thread, client1, client2, peer, backlog, said>>
      /\ name \in [Client -> Name \cup {NULL}]
      /\ \A u \in Client \ {cur} : name'[u] = name[u]
      /\ DOMAIN said = Client /\ DOMAIN mail = Client
      /\ \/ /\ pc = "refuse" /\ pc' = "get_message"
            /\ mail' = [mail EXCEPT ![cur] = Append(@, INVL)]
         \/ /\ pc = "welcome" /\ pc' = "register" /\ UNCHANGED name
            /\ mail' = [mail EXCEPT ![cur] = Append(@, WAIT)]
  BY <1>2 DEF Refuse, Welcome, Mail, games, history, OInv, IInv, TypeOK, DInv,
         DriverTypes
<1>4. cur \notin Holders
  BY <1>1, <1>2, HoldersEntered DEF OInv, Placed, MainOK
<1>5. /\ replies[cur] \in Nat /\ replies[cur] < Len(LoginsOf(cur))
      /\ Early(cur) \/ name[cur] = NameOf(cur)
  BY <1>2, LoginIs DEF Follows, Considered, DInv, DriverTypes
<1>6. Follows(cur)'
  <2>1. /\ UNCHANGED <<at, replies>> /\ Early(cur)' = Early(cur)
        /\ said'[cur] = <<>> /\ mail[cur] = <<>>
    BY <1>2, <1>3 DEF driver, Early, Considered
  <2>2. CASE pc = "refuse"
    <3>1. mail'[cur] = <<INVL>>
      BY <1>2, <1>3, <2>1, <2>2
    <3>2. Refused(cur)'
      BY <1>2, <1>3, <2>1, <2>2, <3>1 DEF Refused, Considered
    <3> QED BY <1>2, <1>3, <2>1, <3>2 DEF Follows, Before, After
  <2>3. CASE pc = "welcome"
    <3>1. mail'[cur] = <<WAIT>>
      BY <1>2, <1>3, <2>1, <2>3
    <3>2. Head(<<WAIT>>) = WAIT /\ Tail(<<WAIT>>) = <<>> /\ <<>> \in Begins(cur)
          /\ <<WAIT>> \in Seq({WAIT, BEGN(Role(cur), NameOf(Opponent(cur)))}) \ {<<>>}
      BY DEF Begins
    <3>3. Welcomed(cur)'
      BY <1>3, <2>3 DEF Welcomed
    <3>4. Admitted(cur)'
      BY <1>3, <3>1, <3>2, <3>3 DEF Admitted
    <3> QED BY <1>2, <1>3, <2>1, <3>4 DEF Follows, Before, After
  <2> QED BY <1>1, <2>2, <2>3
<1>7. \A u : Queued(u) => Queued(u)'
  BY <1>3 DEF Queued
<1>8. /\ \A u \in Client \ {cur} : mail'[u] = mail[u]
      /\ DOMAIN mail' = Client
      /\ pc' = "register" => name'[cur] = NameOf(cur) \/ Early(cur)
  BY <1>3, <1>5
<1> QED BY <1>1, <1>2, <1>3, <1>4, <1>6, <1>7, <1>8, OneServed

-----------------------------------------------------------------------------
(* Registration is in turn: all clients before this one are registered, and *)
(* none after it is.                                                        *)

LEMMA NextArrived ==
  ASSUME OInv, DInv, pc = "register"
  PROVE  cur \in Client /\ cur = First(Client) + Len(arrived)
<1> DEFINE f == First(Client)
<1>1. /\ cur \in Client /\ ~Entered(cur) /\ peer[cur] # "none"
      /\ arrived \in Seq(Client) /\ Len(arrived) \in Nat
  BY DEF OInv, IInv, TypeOK, LoggingIn, Placed, MainOK, QueueOK
<1>2. cur \in Nat /\ f \in Nat /\ f <= cur /\ f..cur \subseteq Client
  BY <1>1, Clients
<1>3. at[cur] \in Places \ Before
  BY <1>1 DEF DInv, DriverTypes, Scripts, Follows
<1>4. cur < game_role /\ game_role \in Nat
  BY <1>1, <1>2, <1>3, Clients DEF DInv, Turns, Places, Before
<1>5. ASSUME NEW c \in f..cur, c # cur PROVE Entered(c)
  <2>1. c \in Client /\ c \in Nat /\ c + 1 < game_role
    BY <1>2, <1>4, <1>5
  <2>2. at[c] \in After
    <3>1. at[c] \in Places /\ at[c] \notin Turn
      BY <2>1 DEF DInv, DriverTypes, Turns
    <3>2. at[c] \notin {"obtain", "look"}
      BY <1>4, <2>1 DEF DInv, Turns
    <3> QED BY <3>1, <3>2 DEF Places, Turn, After
  <2> QED BY <1>5, <2>1, <2>2 DEF DInv, Scripts, Follows, Welcomed
<1>6. \A k \in 1..Len(arrived) : arrived[k] = f + k - 1
  BY <1>1 DEF DInv, InTurn
<1>7. ~(f + Len(arrived) > cur)
  <2> SUFFICES ASSUME f + Len(arrived) > cur PROVE FALSE
    OBVIOUS
  <2>1. cur - f + 1 \in 1..Len(arrived)
    BY <1>1, <1>2
  <2> QED BY <1>1, <1>2, <1>6, <2>1 DEF Entered
<1>8. ~(f + Len(arrived) < cur)
  <2> SUFFICES ASSUME f + Len(arrived) < cur PROVE FALSE
    OBVIOUS
  <2>1. f + Len(arrived) \in f..cur /\ f + Len(arrived) # cur
    BY <1>1, <1>2
  <2>2. PICK k \in DOMAIN arrived : arrived[k] = f + Len(arrived)
    BY <1>5, <2>1 DEF Entered
  <2> QED BY <1>1, <1>2, <1>6, <2>2
<1> QED BY <1>1, <1>2, <1>7, <1>8

LEMMA RegisterKeeps ==
  ASSUME OInv, DInv, UNCHANGED driver, UNCHANGED <<said, mail>>, Register
  PROVE  DInv'
<1>1. /\ pc = "register" /\ arrived \in Seq(Client)
      /\ arrived' = Append(arrived, cur)
      /\ UNCHANGED <<thread, client2, peer, backlog, name>>
      /\ \/ client1' = cur /\ cur' = NULL /\ pc' = "accept"
         \/ pc' = "spawn" /\ UNCHANGED <<cur, client1>>
  BY DEF Register, conns, games, OInv, IInv, TypeOK
<1>2. cur \in Client /\ cur = First(Client) + Len(arrived)
  BY <1>1, NextArrived
<1>3. UNCHANGED <<at, replies, game_mutex, game_role>>
  BY DEF driver
<1>4. InTurn'
  <2>1. \A k \in DOMAIN arrived' :
          \/ k = Len(arrived) + 1 /\ arrived'[k] = cur
          \/ k \in DOMAIN arrived /\ arrived'[k] = arrived[k]
    BY <1>1, <1>2
  <2>2. First(Client) \in Nat /\ Len(arrived) \in Nat /\ DOMAIN arrived = 1..Len(arrived)
    <3>1. First(Client) \in Nat
      BY Clients
    <3>2. Len(arrived) \in Nat /\ DOMAIN arrived = 1..Len(arrived)
      BY <1>1
    <3> QED BY <3>1, <3>2
  <2> QED BY <1>2, <2>1, <2>2 DEF DInv, InTurn
<1>5. Named'
  <2>1. \A c \in Client : c \in Holders' => c \in Holders \/ c = cur
    BY <1>1 DEF Holders
  <2> QED BY <1>1, <1>3, <2>1 DEF DInv, Named, Early
<1>6. ASSUME NEW u \in Client PROVE Follows(u)'
  <2>1. Entered(u) => Entered(u)'
    <3>1. \A k \in DOMAIN arrived : k \in DOMAIN arrived' /\ arrived'[k] = arrived[k]
      BY <1>1, <1>2
    <3> QED BY <3>1 DEF Entered
  <2>2. u = cur => Entered(u)'
    <3>1. Len(arrived) + 1 \in DOMAIN arrived' /\ arrived'[Len(arrived) + 1] = cur
      BY <1>1, <1>2
    <3> QED BY <1>1, <3>1 DEF Entered
  <2>3. Spared(u) /\ Alone(u) /\ Follows(u)
    BY <1>1, <1>3, <2>1, <2>2
    DEF Spared, Alone, LogsIn, Welcomed, Queued, Entered, DInv, Scripts
  <2> QED BY <2>3, StillFollows
<1>7. DriverTypes' /\ Turns'
  BY <1>1, <1>3 DEF DInv, DriverTypes, Turns
<1> QED BY <1>4, <1>5, <1>6, <1>7 DEF DInv, Scripts

LEMMA SpawnKeeps ==
  ASSUME OInv, OInv', DInv, UNCHANGED driver, UNCHANGED <<said, mail>>, Spawn
  PROVE  DInv'
<1>1. /\ pc = "spawn" /\ pc' = "accept" /\ cur' = NULL /\ client1' = NULL
      /\ UNCHANGED <<peer, backlog, arrived, name>>
      /\ thread' = [thread EXCEPT ![client1] = "begin1"]
      /\ client2' = [client2 EXCEPT ![client1] = cur]
      /\ DOMAIN thread = Client /\ DOMAIN client2 = Client
  BY DEF Spawn, conns, history, OInv, IInv, TypeOK
<1>2. UNCHANGED <<at, replies, game_mutex, game_role>>
  BY DEF driver
<1>3. Named'
  <2>1. \A c \in Client : c \in Holders' => c \in Holders
    <3>1. \A g \in Client : thread'[g] = IF g = client1 THEN "begin1" ELSE thread[g]
      BY <1>1
    <3>2. \A g \in Client : client2'[g] = IF g = client1 THEN cur ELSE client2[g]
      BY <1>1
    <3> QED BY <1>1, <3>1, <3>2, ServerAssumption DEF Holders
  <2> QED BY <1>1, <1>2, <2>1, ServerAssumption DEF DInv, Named, Early
<1>4. ASSUME NEW u \in Client PROVE Follows(u)'
  <2>1. Spared(u) /\ Alone(u) /\ Follows(u)
    BY <1>1, <1>2
    DEF Spared, Alone, LogsIn, Welcomed, Queued, Entered, DInv, Scripts
  <2> QED BY <2>1, StillFollows
<1>5. DriverTypes' /\ Turns' /\ InTurn'
  BY <1>1, <1>2 DEF DInv, DriverTypes, Turns, InTurn
<1> QED BY <1>3, <1>4, <1>5 DEF DInv, Scripts

LEMMA LoginKeeps ==
  ASSUME OInv, OInv', DInv, UNCHANGED driver, ServeLogin PROVE DInv'
  BY AcceptKeeps, HeardKeeps, CheckKeeps, AnswerKeeps, RegisterKeeps, SpawnKeeps
  DEF ServeLogin

-----------------------------------------------------------------------------
(* The game threads.                                                        *)

\* The players of a game are two of one test, the first as X.
LEMMA Opponents ==
  ASSUME OInv, DInv, NEW g \in Client, thread[g] # "none"
  PROVE  /\ client2[g] = g + 1 /\ client2[g] \in Client /\ g % 2 = 0
         /\ Entered(g) /\ Entered(client2[g])
<1>1. PICK k \in 1..Len(arrived) : PlaysFrom(g, k)
  BY DEF OInv, Placed, GamesOK
<1>2. /\ arrived \in Seq(Client) /\ k + 1 \in DOMAIN arrived /\ k \in DOMAIN arrived
      /\ k \in Nat /\ k % 2 = 1 /\ arrived[k] = g /\ arrived[k + 1] = client2[g]
  BY <1>1 DEF PlaysFrom, OInv, IInv, TypeOK
<1>3. First(Client) \in Nat /\ First(Client) % 2 = 0
  BY Clients
<1>4. g = First(Client) + k - 1 /\ client2[g] = First(Client) + (k + 1) - 1
  BY <1>2 DEF DInv, InTurn
<1>5. g % 2 = 0 /\ client2[g] = g + 1
  <2>1. \A f \in Nat, i \in Nat : f % 2 = 0 /\ i % 2 = 1 => (f + i - 1) % 2 = 0
    OBVIOUS
  <2>2. g % 2 = 0
    BY <1>2, <1>3, <1>4, <2>1
  <2>3. client2[g] = g + 1
    BY <1>2, <1>3, <1>4
  <2> QED BY <2>2, <2>3
<1>6. client2[g] \in Client
  BY <1>2
<1> QED BY <1>2, <1>5, <1>6 DEF Entered

\* BEGN names the opponent of the script.
LEMMA RightBegin ==
  ASSUME OInv, DInv, NEW g \in Client
  PROVE  /\ thread[g] = "begin1" =>
              BEGN("X", name[client2[g]]) = BEGN(Role(g), NameOf(Opponent(g)))
         /\ thread[g] = "begin2" =>
              BEGN("O", name[g]) = BEGN(Role(client2[g]), NameOf(Opponent(client2[g])))
<1> SUFFICES ASSUME thread[g] \in {"begin1", "begin2"}
             PROVE  /\ Role(g) = "X" /\ name[client2[g]] = NameOf(Opponent(g))
                    /\ Role(client2[g]) = "O"
                    /\ name[g] = NameOf(Opponent(client2[g]))
  OBVIOUS
<1> DEFINE c == client2[g]
<1>1. /\ c = g + 1 /\ c \in Client /\ g % 2 = 0 /\ Entered(g) /\ Entered(c)
      /\ g \in Nat
  BY Opponents, Clients
<1>2. g \in Holders /\ c \in Holders
  BY <1>1 DEF Holders
<1>3. c % 2 = 1 /\ c # 10
  BY <1>1
<1>4. ~Early(c)
  BY <1>3 DEF Early
<1>5. ~Early(g)
  <2> SUFFICES ASSUME Early(g) PROVE FALSE
    OBVIOUS
  <2>1. game_role = g + 1
    BY <1>1, EarlyIsBusy DEF DInv, Turns, Turn
  <2>2. at[c] \in Before
    BY <1>1, <2>1 DEF DInv, Turns, Before
  <2> QED BY <1>1, <2>2, NotYetKnown
<1>6. name[c] = NameOf(c) /\ name[g] = NameOf(g)
  BY <1>1, <1>2, <1>4, <1>5 DEF DInv, Named
<1>7. Opponent(g) = c /\ Opponent(c) = g /\ Role(g) = "X" /\ Role(c) = "O"
  BY <1>1, <1>3 DEF Opponent, Role
<1> QED BY <1>6, <1>7

\* A player has been let in, and one more BEGN does not change that.
LEMMA PlayerFollows ==
  ASSUME OInv, DInv, NEW u \in Client, Entered(u), UNCHANGED driver,
         UNCHANGED <<main, history>>,
         \/ mail'[u] = mail[u]
         \/ mail'[u] = Append(mail[u], BEGN(Role(u), NameOf(Opponent(u))))
  PROVE  Follows(u)'
<1>1. /\ UNCHANGED <<pc, cur, at, replies>> /\ Follows(u) /\ at[u] \in Places
      /\ peer[u] # "none" /\ ~LogsIn(u)
      /\ ~(u = cur /\ pc \in {"check", "refuse", "welcome"})
  BY DEF driver, main, DInv, DriverTypes, Scripts, OInv, Placed, QueueOK, MainOK,
         LogsIn
<1>2. Welcomed(u)' /\ Early(u)' = Early(u)
  BY <1>1 DEF Welcomed, Entered, history, Early
<1>3. at[u] \in After \cup {"reply", "exited"}
  BY <1>1 DEF Follows, Places, Before, After
<1>4. CASE at[u] \in After
  <2>1. mail[u] \in Begins(u) /\ replies[u] = Len(LoginsOf(u))
    BY <1>1, <1>4 DEF Follows
  <2>2. mail'[u] \in Begins(u)
    BY <2>1 DEF Begins
  <2> QED BY <1>1, <1>2, <1>4, <2>1, <2>2 DEF Follows, Before, After
<1>5. CASE at[u] = "reply"
  <2> DEFINE begn == BEGN(Role(u), NameOf(Opponent(u)))
  <2>1. Admitted(u) /\ replies[u] < Len(LoginsOf(u))
    BY <1>1, <1>5 DEF Follows, Unread, Considered, Refused, LogsIn
  <2>2. /\ mail[u] \in Seq({WAIT, begn}) \ {<<>>}
        /\ Head(mail[u]) = WAIT /\ Tail(mail[u]) \in Seq({begn})
    BY <2>1 DEF Admitted, Begins
  <2> HIDE DEF begn
  <2>3. /\ Append(mail[u], begn) \in Seq({WAIT, begn}) \ {<<>>}
        /\ Head(Append(mail[u], begn)) = WAIT
        /\ Tail(Append(mail[u], begn)) \in Seq({begn})
    <3>1. Tail(Append(mail[u], begn)) = Append(Tail(mail[u]), begn)
      BY <2>2
    <3> QED BY <2>2, <3>1
  <2>4. Admitted(u)'
    BY <1>2, <2>2, <2>3 DEF Admitted, Begins, begn
  <2> QED BY <1>1, <1>5, <2>1, <2>4 DEF Follows, Before, After
<1>6. CASE at[u] = "exited"
  BY <1>1, <1>2, <1>6 DEF Follows, Before, After
<1> QED BY <1>3, <1>4, <1>5, <1>6

\* What a game thread does is between it and its two players.
LEMMA ServeGameKeeps ==
  ASSUME OInv, OInv', DInv, UNCHANGED driver, NEW g \in Client, ServeGame(g)
  PROVE  DInv'
<1> DEFINE d == client2[g]
<1>1. /\ UNCHANGED <<main, client2, backlog, history>>
      /\ thread[g] \notin {"none", "done"}
      /\ \A h \in Client \ {g} : thread'[h] = thread[h]
      /\ thread'[g] \in {"begin1", "begin2", "play", "remove1"}
           => thread[g] \in {"begin1", "begin2", "play", "remove1"}
      /\ thread'[g] \in Listed => thread[g] \in Listed
  <2>1. DOMAIN thread = Client
    BY DEF OInv, IInv, TypeOK
  <2>2. CASE Begin1(g) \/ Begin2(g) \/ \E c \in Players(g) : PlayMessage(g, c) \/ PlayDrop(g, c)
    BY <2>1, <2>2 DEF Begin1, Begin2, PlayMessage, PlayDrop, Goto, conns, Listed
  <2>3. CASE Remove1(g) \/ Remove2(g)
    BY <2>1, <2>3 DEF Remove1, Remove2, Goto, conns, Listed
  <2>4. CASE Close1(g) \/ Close2(g)
    BY <2>1, <2>4 DEF Close1, Close2, Goto, Listed
  <2> QED BY <2>2, <2>3, <2>4 DEF ServeGame
<1>2. d = g + 1 /\ d \in Client /\ Entered(g) /\ Entered(d)
  BY <1>1, Opponents
<1>3. \A u \in Client \ {g, d} : /\ said'[u] = said[u] /\ mail'[u] = mail[u]
                                /\ peer'[u] = peer[u] /\ name'[u] = name[u]
  <2>1. /\ DOMAIN said = Client /\ DOMAIN mail = Client /\ DOMAIN peer = Client
        /\ DOMAIN name = Client
    BY DEF DInv, DriverTypes, OInv, IInv, TypeOK
  <2>2. \A u \in Client \ {g, d} : said'[u] = said[u] /\ mail'[u] = mail[u]
    BY <2>1 DEF ServeGame, Heard, Mail, Players
  <2>3. CASE Close1(g) \/ Close2(g)
    BY <2>1, <2>2, <2>3 DEF Close1, Close2, Close, Players
  <2>4. CASE UNCHANGED <<peer, name>>
    BY <2>2, <2>4
  <2> QED
    BY <2>3, <2>4
    DEF ServeGame, Begin1, Begin2, PlayMessage, PlayDrop, Remove1, Remove2, conns
<1>4. \A u \in Client : mail'[u] = mail[u]
                         \/ mail'[u] = Append(mail[u], BEGN(Role(u), NameOf(Opponent(u))))
  BY <1>2, RightBegin
  DEF ServeGame, Begin1, Begin2, Heard, Mail, DInv, DriverTypes
<1>5. ASSUME NEW u \in Client PROVE Follows(u)'
  <2>1. CASE u \in {g, d}
    BY <1>1, <1>2, <1>4, <2>1, PlayerFollows
  <2>2. CASE u \notin {g, d}
    <3>1. Spared(u) /\ Alone(u) /\ Follows(u)
      BY <1>1, <1>3, <2>2
      DEF Spared, Alone, LogsIn, Welcomed, Queued, Entered, main, history, driver,
          DInv, Scripts
    <3> QED BY <3>1, StillFollows
  <2> QED BY <2>1, <2>2
<1>6. Named'
  <2>1. \A c \in Client : c \in Holders' => c \in Holders
    BY <1>1 DEF Holders, main, Listed
  <2>2. \A c \in Client : name'[c] = name[c] \/ name'[c] = NULL
    BY DEF ServeGame, Begin1, Begin2, PlayMessage, PlayDrop, Remove1, Remove2,
           Close1, Close2, OInv, IInv, TypeOK
  <2>3. \A c \in Client :
          c \in Holders' \/ (c = cur' /\ pc' = "register") => name'[c] # NULL
    BY NullAssumption DEF OInv, NamesKnown
  <2> QED BY <1>1, <2>1, <2>2, <2>3 DEF DInv, Named, Early, driver, main
<1>7. DriverTypes'
  <2>1. \A c \in Client : peer'[c] # "reset"
    BY DEF ServeGame, Begin1, Begin2, PlayMessage, PlayDrop, Remove1, Remove2,
           Close1, Close2, Close, conns, DInv, DriverTypes, OInv, IInv, TypeOK
  <2>2. DOMAIN said' = Client /\ DOMAIN mail' = Client
    BY DEF ServeGame, Heard, Mail, DInv, DriverTypes
  <2> QED BY <2>1, <2>2 DEF DInv, DriverTypes, driver
<1>8. Turns' /\ InTurn'
  BY <1>1 DEF DInv, Turns, InTurn, driver, history
<1> QED BY <1>5, <1>6, <1>7, <1>8 DEF DInv, Scripts

-----------------------------------------------------------------------------
LEMMA NextDriver == OInv /\ DInv /\ [DriverNext]_drivervars => DInv'
<1> SUFFICES ASSUME OInv, DInv, [DriverNext]_drivervars PROVE DInv'
  OBVIOUS
<1>1. OInv'
  BY ServerKeeps
<1>2. CASE UNCHANGED drivervars \/ Asleep
  <2>1. UNCHANGED drivervars
    BY <1>2 DEF Asleep
  <2>2. UNCHANGED <<vars, driver, said, mail>> /\ \A u \in Client : Alone(u)
    BY <2>1 DEF drivervars, driver, Alone
  <2>3. \A u \in Client : Follows(u)'
    BY <2>2, AllSpared, StillFollows DEF DInv, Scripts
  <2>4. (DriverTypes /\ Turns /\ InTurn /\ Named)'
    BY <2>2 DEF DInv, DriverTypes, Turns, InTurn, Named, Holders, Early, driver,
                vars, main, games, conns, history
  <2> QED BY <2>3, <2>4 DEF DInv, Scripts
<1>3. CASE \E t \in Client : Obtain(t) \/ ThreadStep(t)
  BY <1>3, ObtainKeeps, LookKeeps, ConnectKeeps, PlayKeeps, CheckReplyKeeps,
     ReleaseKeeps, BegnKeeps, GameKeeps, SeeEndKeeps DEF ThreadStep
<1>4. CASE ServeLogin /\ UNCHANGED driver
  BY <1>1, <1>4, LoginKeeps
<1>5. CASE \E g \in Client : ServeGame(g) /\ UNCHANGED driver
  BY <1>1, <1>5, ServeGameKeeps
<1> QED BY <1>2, <1>3, <1>4, <1>5 DEF DriverNext

\* All twelve scripts, in any interleaving of the threads of the driver and of
\* the server: no check of parse_wait, parse_invl or parse_begn fails, but the
\* one of C_client_1 that needs Jay Brown to be still playing.
THEOREM OnlyTheEarlyOneFails == DriverSpec => []OnlyNameInUseFails
<1>1. DriverInit => OInv /\ DInv
  <2>1. Init => SlotsReused
    BY DEF Init, SlotsReused
  <2> QED BY <2>1, InitInv, InitPlaced, InitSockets, InitRegistry, InitDriver
          DEF OInv, DriverInit
<1>2. OInv /\ DInv /\ [DriverNext]_drivervars => (OInv /\ DInv)'
  BY ServerKeeps, NextDriver
<1>3. DInv => OnlyNameInUseFails
  BY DEF DInv, Scripts, Follows, Early, OnlyNameInUseFails
<1> QED BY <1>1, <1>2, <1>3, PTL DEF DriverSpec
=============================================================================
