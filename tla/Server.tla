------------------------------- MODULE Server -------------------------------
(***************************************************************************)
(* The server process ttts: the main thread, which accepts connections,    *)
(* logs players in (get_client) and pairs them (simulate_server), the game *)
(* threads it starts, and the list of names all of them share.             *)
(*                                                                         *)
(* The main thread is sequential and is modelled one system call or one    *)
(* critical section at a time.  A game thread is modelled from the outside *)
(* (BEGN to both players, play, free_game): module Game is its inside.     *)
(* What a client wrote is chosen when it is parsed.                        *)
(*                                                                         *)
(* Definitions that no other definition uses (DropLeaks, Remove2Twice,     *)
(* ...) are faulty variants of the one that follows them.  Put in its      *)
(* place, each makes one of the properties fail.                           *)
(***************************************************************************)
EXTENDS PlayerNames, FiniteSets

CONSTANTS
  Client,      \* the connections, each made at most once
  MaxInbox,    \* most messages of one client the server has not processed
  MayFail,     \* the clients that may close or reset their connection
  Interrupts   \* whether a signal may be delivered

ASSUME ServerAssumption ==
  /\ NULL \notin Client
  /\ MaxInbox \in Nat
  /\ MayFail \subseteq Client
  /\ Interrupts \in BOOLEAN

VARIABLES
  player_names,  \* the shared array of names
  pc,            \* where the main thread is
  cur,           \* client_socket of get_client
  client1,       \* the client that waits for an opponent
  name,          \* player_name of each client, as parsed from its PLAY
  thread,        \* where the game thread led by each client is
  client2,       \* the second client of each game
  backlog,       \* connections the kernel made, not accepted yet
  inbox,         \* messages of each client not processed yet
  peer,          \* each connection as TCP sees it
  open,          \* sockets the server has accepted and not closed
  answered,      \* history: the clients that were sent WAIT or INVL
  arrived,       \* history: the clients in the order they were registered
  peak           \* history: most names ever registered at one time

main    == <<pc, cur, client1>>
games   == <<thread, client2>>
conns   == <<backlog, inbox, peer>>
history == <<arrived, peak>>
vars    == <<player_names, main, name, games, conns, open, answered, history>>

TypeOK ==
  /\ player_names \in Seq(Name \cup {NULL})
  /\ pc \in {"accept", "get_message", "check", "refuse", "welcome",
             "register", "spawn"}
  /\ cur \in Client \cup {NULL}
  /\ client1 \in Client \cup {NULL}
  /\ name \in [Client -> Name \cup {NULL}]
  /\ thread \in [Client -> {"none", "begin1", "begin2", "play", "remove1",
                            "remove2", "close1", "close2", "done"}]
  /\ client2 \in [Client -> Client \cup {NULL}]
  /\ backlog \in Seq(Client)
  /\ inbox \in [Client -> 0..MaxInbox]
  /\ peer \in [Client -> {"none", "up", "closed", "reset", "gone"}]
  /\ open \subseteq Client
  /\ answered \subseteq Client
  /\ arrived \in Seq(Client)
  /\ peak \in Nat

Init ==
  /\ player_names = <<>>
  /\ pc = "accept"
  /\ cur = NULL
  /\ client1 = NULL
  /\ name = [c \in Client |-> NULL]
  /\ thread = [c \in Client |-> "none"]
  /\ client2 = [c \in Client |-> NULL]
  /\ backlog = <<>>
  /\ inbox = [c \in Client |-> 0]
  /\ peer = [c \in Client |-> "none"]
  /\ open = {}
  /\ answered = {}
  /\ arrived = <<>>
  /\ peak = 0

-----------------------------------------------------------------------------
(* The clients and the network.  The kernel completes a connection and      *)
(* takes in its data before the server accepts it.                          *)

Connect(c) ==
  /\ peer[c] = "none"
  /\ peer' = [peer EXCEPT ![c] = "up"]
  /\ backlog' = Append(backlog, c)
  /\ UNCHANGED <<player_names, main, name, games, inbox, open, answered,
                 history>>

ClientSend(c) ==
  /\ peer[c] = "up"
  /\ inbox[c] < MaxInbox
  /\ inbox' = [inbox EXCEPT ![c] = @ + 1]
  /\ UNCHANGED <<player_names, main, name, games, backlog, peer, open,
                 answered, history>>

ClientClose(c) ==
  /\ c \in MayFail /\ peer[c] = "up"
  /\ peer' = [peer EXCEPT ![c] = "closed"]
  /\ UNCHANGED <<player_names, main, name, games, backlog, inbox, open,
                 answered, history>>

ConnectionReset(c) ==
  /\ c \in MayFail /\ peer[c] \in {"up", "closed"}
  /\ peer' = [peer EXCEPT ![c] = "reset"]
  /\ inbox' \in {inbox, [inbox EXCEPT ![c] = 0]}
  /\ UNCHANGED <<player_names, main, name, games, backlog, open, answered,
                 history>>

-----------------------------------------------------------------------------
(* send_message.                                                            *)

WriteFails(c) == peer[c] = "reset"

Answer(c) == answered' = answered \cup {c}

\* close: what the client sent and the server has not read is discarded, and
\* nothing the client does from now on reaches the server.
Close(c) ==
  /\ open' = open \ {c}
  /\ peer' = [peer EXCEPT ![c] = "gone"]
  /\ inbox' = [inbox EXCEPT ![c] = 0]

DropLeaks ==
  /\ cur' = NULL
  /\ pc' = "accept"
  /\ UNCHANGED <<client1, inbox, peer, open>>

\* The error exits of get_client: close the socket and accept the next one.
Drop ==
  /\ Close(cur)
  /\ cur' = NULL
  /\ pc' = "accept"
  /\ UNCHANGED client1

-----------------------------------------------------------------------------
(* get_client, run by the main thread.                                      *)

Accept ==
  /\ pc = "accept"
  /\ backlog # <<>>
  /\ cur' = Head(backlog)
  /\ backlog' = Tail(backlog)
  /\ open' = open \cup {Head(backlog)}
  /\ pc' = "get_message"
  /\ UNCHANGED <<player_names, client1, name, games, inbox, peer, answered,
                 history>>

\* When get_message fails INVL is written, successfully or not.
NoMessage ==
  /\ Answer(cur)
  /\ Drop
  /\ UNCHANGED <<player_names, name, games, backlog, history>>

\* It blocks until the client has sent something or is gone, or until a signal
\* ends its read.
GetMessageFails ==
  /\ pc = "get_message"
  /\ inbox[cur] > 0 \/ peer[cur] # "up"
  /\ NoMessage

LoginInterrupted ==
  /\ Interrupts
  /\ pc = "get_message"
  /\ NoMessage

ReceivedUnchecked == pc = "get_message"

Received ==
  /\ pc = "get_message"
  /\ inbox[cur] > 0

TakeMessage == inbox' = [inbox EXCEPT ![cur] = @ - 1]

\* Any message but PLAY: INVL, and the client may try again.
NotPlay ==
  /\ Received
  /\ \/ /\ WriteFails(cur)
        /\ Drop
        /\ UNCHANGED answered
     \/ /\ ~WriteFails(cur)
        /\ TakeMessage
        /\ Answer(cur)
        /\ UNCHANGED <<main, peer, open>>
  /\ UNCHANGED <<player_names, name, games, backlog, history>>

\* A PLAY with too few fields has no name.
Play(n) ==
  /\ Received
  /\ TakeMessage
  /\ name' = [name EXCEPT ![cur] = n]
  /\ pc' = "check"
  /\ UNCHANGED <<player_names, cur, client1, games, backlog, peer, open,
                 answered, history>>

\* is_player_name_taken, under the lock, which is released before the answer
\* is used.  Without a name the answer is yes.
Check ==
  /\ pc = "check"
  /\ pc' = IF is_player_name_taken(player_names, name[cur])
           THEN "refuse" ELSE "welcome"
  /\ UNCHANGED <<player_names, cur, client1, name, games, conns, open, answered,
                 history>>

RefuseGoesOn ==
  /\ pc = "refuse"
  /\ Answer(cur)
  /\ pc' = "welcome"
  /\ UNCHANGED <<player_names, cur, client1, name, games, conns, open, history>>

Refuse ==
  /\ pc = "refuse"
  /\ name' = [name EXCEPT ![cur] = NULL]
  /\ \/ /\ WriteFails(cur)
        /\ Drop
        /\ UNCHANGED answered
     \/ /\ ~WriteFails(cur)
        /\ Answer(cur)
        /\ pc' = "get_message"
        /\ UNCHANGED <<cur, client1, inbox, peer, open>>
  /\ UNCHANGED <<player_names, games, backlog, history>>

\* WAIT is written before the name is registered.
Welcome ==
  /\ pc = "welcome"
  /\ \/ /\ WriteFails(cur)
        /\ Drop
        /\ name' = [name EXCEPT ![cur] = NULL]
        /\ UNCHANGED answered
     \/ /\ ~WriteFails(cur)
        /\ Answer(cur)
        /\ pc' = "register"
        /\ UNCHANGED <<cur, client1, name, inbox, peer, open>>
  /\ UNCHANGED <<player_names, games, backlog, history>>

\* add_player_name, and the return of get_client: to the second call of
\* get_client, or with both clients to pthread_create.
Register ==
  /\ pc = "register"
  /\ player_names' = add_player_name(player_names, name[cur])
  /\ IF client1 = NULL
     THEN client1' = cur /\ cur' = NULL /\ pc' = "accept"
     ELSE pc' = "spawn" /\ UNCHANGED <<cur, client1>>
  /\ arrived' = Append(arrived, cur)
  /\ LET used == Cardinality(Names(player_names'))
     IN  peak' = IF used > peak THEN used ELSE peak
  /\ UNCHANGED <<name, games, conns, open, answered>>

-----------------------------------------------------------------------------
(* simulate_server starts a thread for the two clients and begins again.    *)

SpawnKeepsClient1 ==
  /\ pc = "spawn"
  /\ thread' = [thread EXCEPT ![client1] = "begin1"]
  /\ client2' = [client2 EXCEPT ![client1] = cur]
  /\ pc' = "accept"
  /\ cur' = NULL
  /\ UNCHANGED <<player_names, client1, name, conns, open, answered, history>>

Spawn ==
  /\ pc = "spawn"
  /\ thread' = [thread EXCEPT ![client1] = "begin1"]
  /\ client2' = [client2 EXCEPT ![client1] = cur]
  /\ pc' = "accept"
  /\ cur' = NULL
  /\ client1' = NULL
  /\ UNCHANGED <<player_names, name, conns, open, answered, history>>

Acceptor ==
  \/ Accept
  \/ GetMessageFails
  \/ NotPlay
  \/ \E n \in Name \cup {NULL} : Play(n)
  \/ Check
  \/ Refuse
  \/ Welcome
  \/ Register
  \/ Spawn

-----------------------------------------------------------------------------
(* The game thread led by client g.                                         *)

Players(g) == {g, client2[g]}

Goto(g, where) == thread' = [thread EXCEPT ![g] = where]

\* BEGN to the first player, then to the second; a failed write ends the game.
Begin1(g) ==
  /\ thread[g] = "begin1"
  /\ Goto(g, IF WriteFails(g) THEN "remove1" ELSE "begin2")
  /\ UNCHANGED <<player_names, main, name, client2, conns, open, answered,
                 history>>

Begin2(g) ==
  /\ thread[g] = "begin2"
  /\ Goto(g, IF WriteFails(client2[g]) THEN "remove1" ELSE "play")
  /\ UNCHANGED <<player_names, main, name, client2, conns, open, answered,
                 history>>

\* A message is processed: the game goes on or is over.
PlayMessage(g, c) ==
  /\ thread[g] = "play"
  /\ inbox[c] > 0
  /\ inbox' = [inbox EXCEPT ![c] = @ - 1]
  /\ Goto(g, "play") \/ Goto(g, "remove1")
  /\ UNCHANGED <<player_names, main, name, client2, backlog, peer, open,
                 answered, history>>

PlayDropFirstOnly(g, c) ==
  /\ thread[g] = "play" /\ c = g
  /\ inbox[c] = 0 /\ peer[c] # "up"
  /\ Goto(g, "remove1")
  /\ UNCHANGED <<player_names, main, name, client2, conns, open, answered,
                 history>>

\* get_message fails: the connection is gone.
PlayDrop(g, c) ==
  /\ thread[g] = "play"
  /\ inbox[c] = 0 /\ peer[c] # "up"
  /\ Goto(g, "remove1")
  /\ UNCHANGED <<player_names, main, name, client2, conns, open, answered,
                 history>>

\* poll fails with EINTR.
PlayInterrupted(g) ==
  /\ Interrupts
  /\ thread[g] = "play"
  /\ Goto(g, "remove1")
  /\ UNCHANGED <<player_names, main, name, client2, conns, open, answered,
                 history>>

\* free_game: remove_player_name twice, then close twice.
Remove1(g) ==
  /\ thread[g] = "remove1"
  /\ player_names' = remove_player_name(player_names, name[g])
  /\ Goto(g, "remove2")
  /\ UNCHANGED <<main, name, client2, conns, open, answered, history>>

Remove2Twice(g) ==
  /\ thread[g] = "remove2"
  /\ player_names' = remove_player_name(player_names, name[g])
  /\ Goto(g, "close1")
  /\ UNCHANGED <<main, name, client2, conns, open, answered, history>>

Remove2(g) ==
  /\ thread[g] = "remove2"
  /\ player_names' = remove_player_name(player_names, name[client2[g]])
  /\ Goto(g, "close1")
  /\ UNCHANGED <<main, name, client2, conns, open, answered, history>>

Close1(g) ==
  /\ thread[g] = "close1"
  /\ Close(g)
  /\ Goto(g, "close2")
  /\ UNCHANGED <<player_names, main, name, client2, backlog, answered, history>>

\* With the second close the thread frees the game and both names and exits.
Close2(g) ==
  /\ thread[g] = "close2"
  /\ Close(client2[g])
  /\ Goto(g, "done")
  /\ name' = [c \in Client |-> IF c \in Players(g) THEN NULL ELSE name[c]]
  /\ UNCHANGED <<player_names, main, client2, backlog, answered, history>>

GameThread(g) ==
  \/ Begin1(g)
  \/ Begin2(g)
  \/ \E c \in Players(g) : PlayMessage(g, c) \/ PlayDrop(g, c)
  \/ Remove1(g)
  \/ Remove2(g)
  \/ Close1(g)
  \/ Close2(g)

-----------------------------------------------------------------------------
Next ==
  \/ Acceptor
  \/ LoginInterrupted
  \/ \E c \in Client :
       \/ GameThread(c)
       \/ PlayInterrupted(c)
       \/ Connect(c)
       \/ ClientSend(c)
       \/ ClientClose(c)
       \/ ConnectionReset(c)

\* Every thread of the server runs; nothing makes a client do anything.
Fairness == /\ WF_vars(Acceptor)
            /\ \A g \in Client : WF_vars(GameThread(g))
Spec     == Init /\ [][Next]_vars /\ Fairness

-----------------------------------------------------------------------------
(* Safety.                                                                  *)

\* No name is registered twice, although the check (is_player_name_taken) and
\* the registration (add_player_name) are two critical sections with a write
\* to the client in between.
UniqueNames ==
  \A i, j \in DOMAIN player_names :
    (player_names[i] # NULL /\ player_names[i] = player_names[j]) => i = j

\* The clients whose name ought to be registered: the one that waits, the one
\* just paired with it, and the players of games that have not freed it.
Holders ==
  {c \in Client :
     \/ c = client1
     \/ c = cur /\ pc = "spawn"
     \/ thread[c] \in {"begin1", "begin2", "play", "remove1"}
     \/ \E g \in Client :
          /\ thread[g] \in {"begin1", "begin2", "play", "remove1", "remove2"}
          /\ c = client2[g]}

\* Exactly the names of those clients are registered, one client each: no exit
\* of get_client leaves a name behind, and no game thread frees a name that
\* another client has since taken.
RegistryExact ==
  /\ Names(player_names) = {name[c] : c \in Holders}
  /\ \A c, d \in Holders : name[c] = name[d] => c = d

\* The array never outgrows the most players there have been at one time: the
\* slots of finished games are used again before it is reallocated.
SlotsReused == Len(player_names) = peak

\* Every open socket has an owner that will close it, and none is closed under
\* its owner: the main thread owns the client it logs in and the one that
\* waits, a game thread its two players.
SocketsOwned ==
  open = {c \in Client :
            \/ c = cur \/ c = client1
            \/ thread[c] \notin {"none", "close2", "done"}
            \/ \E g \in Client : thread[g] \notin {"none", "done"}
                                 /\ c = client2[g]}

\* Players meet in the order they were registered, the first of each pair
\* leading the game, and nobody is in two games.
PairedInOrder ==
  /\ \A g \in Client : thread[g] # "none" =>
       \E k \in 1..Len(arrived) :
         /\ k % 2 = 1 /\ k < Len(arrived)
         /\ arrived[k] = g /\ arrived[k + 1] = client2[g]
  /\ \A i, j \in DOMAIN arrived : arrived[i] = arrived[j] => i = j

-----------------------------------------------------------------------------
(* Liveness.                                                                *)

EventuallyQuiet == <>[][\A c \in Client : inbox'[c] <= inbox[c]]_vars

\* A game one of whose players is gone, be it from the time it waited for an
\* opponent, ends and gives back both names and both sockets once its clients
\* are silent, even while the main thread is stuck with a client that does not
\* log in.
DroppedGameReleases ==
  EventuallyQuiet =>
    \A g \in Client :
      (thread[g] \in {"begin1", "begin2", "play"} /\ \E c \in Players(g) : peer[c] # "up")
        ~> (thread[g] = "done" /\ Players(g) \cap (open \cup Holders) = {})

\* What requirements.txt F.1 and F.2 promise: a client that sends PLAY is
\* answered with WAIT or INVL.  It fails: get_client serves one client at a
\* time, and its get_message waits without limit for one that says nothing.
PlayAnswered ==
  EventuallyQuiet =>
    \A c \in Client :
      inbox[c] > 0 ~> (c \in answered \/ peer[c] # "up")
=============================================================================
