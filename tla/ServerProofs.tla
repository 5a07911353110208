---------------------------- MODULE ServerProofs ----------------------------
(***************************************************************************)
(* Proofs about Server, for any number of clients and names: types, that   *)
(* no name is ever registered twice, that every client is in one place at  *)
(* a time, so that players meet in the order they came, that every open    *)
(* socket has one owner, and that exactly the names of the players are in  *)
(* the array, which makes Server implement Lobby.                          *)
(***************************************************************************)
EXTENDS ServerLobby, PlayerNamesProofs, SequenceTheorems

-----------------------------------------------------------------------------
(* The inductive invariant.  UniqueNames is not inductive: Register adds a  *)
(* name that Check looked up two critical sections earlier.  NameIsFree     *)
(* says the answer is still good when it is used.  It is, because the game  *)
(* threads only ever free slots.                                            *)

LoggingIn == pc # "accept" => cur \in Client

NameIsFree ==
  pc \in {"welcome", "register"} =>
    (name[cur] # NULL => ~is_player_name_taken(player_names, name[cur]))

IInv == TypeOK /\ LoggingIn /\ NameIsFree /\ UniqueNames

-----------------------------------------------------------------------------
(* The steps, by what they change of player_names.                          *)

LEMMA InitInv == Init => IInv
  BY ServerAssumption
  DEF Init, IInv, TypeOK, LoggingIn, NameIsFree, UniqueNames

\* The clients touch neither the names nor the main thread.
LEMMA ClientStep ==
  ASSUME IInv, NEW c \in Client,
         Connect(c) \/ ClientSend(c) \/ ClientClose(c) \/ ConnectionReset(c)
  PROVE  IInv'
<1>1. /\ backlog' \in Seq(Client)
      /\ inbox' \in [Client -> 0..MaxInbox]
      /\ peer' \in [Client -> {"none", "up", "closed", "reset", "gone"}]
  <2>1. backlog' \in Seq(Client)
    <3>1. backlog' = backlog \/ backlog' = Append(backlog, c)
      BY DEF Connect, ClientSend, ClientClose, ConnectionReset
    <3>2. backlog \in Seq(Client)
      BY DEF IInv, TypeOK
    <3> QED BY <3>1, <3>2
  <2>2. inbox' \in [Client -> 0..MaxInbox]
    <3>1. 0 \in 0..MaxInbox
      BY ServerAssumption
    <3>2. CASE ClientSend(c)
      <4>1. inbox[c] + 1 \in 0..MaxInbox
        BY <3>2, ServerAssumption DEF ClientSend, IInv, TypeOK
      <4> QED BY <3>2, <4>1 DEF ClientSend, IInv, TypeOK
    <3>3. CASE ConnectionReset(c)
      BY <3>1, <3>3 DEF ConnectionReset, IInv, TypeOK
    <3> QED BY <3>2, <3>3 DEF IInv, TypeOK, Connect, ClientClose
  <2>3. peer' \in [Client -> {"none", "up", "closed", "reset", "gone"}]
    BY DEF IInv, TypeOK, Connect, ClientSend, ClientClose, ConnectionReset
  <2> QED BY <2>1, <2>2, <2>3
<1>2. UNCHANGED <<player_names, main, name, games, open, answered, history>>
  BY DEF Connect, ClientSend, ClientClose, ConnectionReset
<1> QED
  BY <1>1, <1>2
  DEF IInv, TypeOK, LoggingIn, NameIsFree, UniqueNames, main, games, history

\* A game thread that frees no name in this step.  When it is done it forgets
\* the names of its players, which can only weaken NameIsFree.
LEMMA GameStep ==
  ASSUME IInv, NEW g \in Client,
         \/ Begin1(g) \/ Begin2(g) \/ PlayInterrupted(g)
         \/ \E c \in Players(g) : PlayMessage(g, c) \/ PlayDrop(g, c)
         \/ Close1(g) \/ Close2(g)
  PROVE  IInv'
<1>1. UNCHANGED <<player_names, main, client2, backlog, answered, history>>
  BY DEF Begin1, Begin2, PlayInterrupted, PlayMessage, PlayDrop, Close1,
         Close2, conns
<1>2. thread' \in [Client -> {"none", "begin1", "begin2", "play", "remove1",
                              "remove2", "close1", "close2", "done"}]
  BY DEF IInv, TypeOK, Goto, Begin1, Begin2, PlayInterrupted, PlayMessage,
         PlayDrop, Close1, Close2
<1>3. inbox' \in [Client -> 0..MaxInbox]
  <2>1. CASE \E c \in Players(g) : PlayMessage(g, c)
    <3> PICK c \in Players(g) : PlayMessage(g, c)
      BY <2>1
    <3>1. inbox' = [inbox EXCEPT ![c] = inbox[c] - 1] /\ inbox[c] > 0
      BY DEF PlayMessage
    <3>2. CASE c \in Client
      BY <3>1, <3>2, ServerAssumption DEF IInv, TypeOK
    <3>3. CASE c \notin Client
      BY <3>1, <3>3 DEF IInv, TypeOK
    <3> QED BY <3>2, <3>3
  <2>2. CASE Close1(g) \/ Close2(g)
    <3>1. 0 \in 0..MaxInbox
      BY ServerAssumption
    <3>2. inbox' = [inbox EXCEPT ![g] = 0] \/ inbox' = [inbox EXCEPT ![client2[g]] = 0]
      BY <2>2 DEF Close1, Close2, Close
    <3> QED BY <3>1, <3>2 DEF IInv, TypeOK
  <2>3. CASE UNCHANGED inbox
    BY <2>3 DEF IInv, TypeOK
  <2> QED
    BY <2>1, <2>2, <2>3 DEF Begin1, Begin2, PlayInterrupted, PlayDrop, conns
<1>4. /\ peer' \in [Client -> {"none", "up", "closed", "reset", "gone"}]
      /\ open' \subseteq Client
  BY DEF IInv, TypeOK, Close, Begin1, Begin2, PlayInterrupted, PlayMessage,
         PlayDrop, Close1, Close2, conns
<1>5. /\ name' \in [Client -> Name \cup {NULL}]
      /\ \A c \in Client : name'[c] = name[c] \/ name'[c] = NULL
  BY DEF IInv, TypeOK, Begin1, Begin2, PlayInterrupted, PlayMessage, PlayDrop,
         Close1, Close2
<1>6. TypeOK'
  BY <1>1, <1>2, <1>3, <1>4, <1>5 DEF IInv, TypeOK, main, history
<1>7. (LoggingIn /\ NameIsFree)'
  BY <1>1, <1>5 DEF IInv, LoggingIn, NameIsFree, main
<1>8. UniqueNames'
  BY <1>1 DEF IInv, UniqueNames
<1> QED BY <1>6, <1>7, <1>8 DEF IInv

\* Remove1 and Remove2 only free slots.
LEMMA RemoveStep ==
  ASSUME IInv, NEW g \in Client, Remove1(g) \/ Remove2(g)
  PROVE  IInv'
<1>1. PICK n : player_names' = remove_player_name(player_names, n)
  BY DEF Remove1, Remove2
<1>2. /\ player_names' \in Seq(Name \cup {NULL})
      /\ DOMAIN player_names' = DOMAIN player_names
      /\ \A j \in DOMAIN player_names : \/ player_names'[j] = player_names[j]
                                       \/ player_names'[j] = NULL
  BY <1>1, RemoveFrees DEF IInv, TypeOK
<1>3. UNCHANGED <<main, name, client2, conns, open, answered, history>>
  BY DEF Remove1, Remove2
<1>4. thread' \in [Client -> {"none", "begin1", "begin2", "play", "remove1",
                              "remove2", "close1", "close2", "done"}]
  BY DEF IInv, TypeOK, Goto, Remove1, Remove2
<1>5. TypeOK'
  BY <1>2, <1>3, <1>4 DEF IInv, TypeOK, main, conns, history
<1>6. (LoggingIn /\ NameIsFree)'
  <2>1. pc \in {"welcome", "register"} /\ name[cur] # NULL
          => ~is_player_name_taken(player_names', name[cur])
    BY <1>2 DEF IInv, NameIsFree, is_player_name_taken, Slots
  <2> QED BY <1>3, <2>1 DEF IInv, LoggingIn, NameIsFree, main
<1>7. UniqueNames'
  BY <1>2 DEF IInv, UniqueNames
<1> QED BY <1>5, <1>6, <1>7 DEF IInv

\* get_client up to the lookup of the name, and its exits.
LEMMA LoginStep ==
  ASSUME IInv,
         Accept \/ GetMessageFails \/ LoginInterrupted \/ NotPlay \/
               (\E n \in Name \cup {NULL} : Play(n))
           \/ Refuse
  PROVE  IInv'
<1>1. UNCHANGED <<player_names, games, history, client1>>
  BY DEF Accept, GetMessageFails, LoginInterrupted, NoMessage, NotPlay, Play,
         Refuse, Drop, main
<1>2. /\ pc' \in {"accept", "get_message", "check"}
      /\ cur' \in Client \cup {NULL}
      /\ pc' # "accept" => cur' \in Client
  <2>1. CASE Accept
    BY <2>1 DEF Accept, IInv, TypeOK
  <2>2. CASE GetMessageFails \/ LoginInterrupted \/ NotPlay \/
             (\E n \in Name \cup {NULL} : Play(n)) \/ Refuse
    BY <2>2
    DEF GetMessageFails, LoginInterrupted, NoMessage, NotPlay, Received, Play,
        Refuse, Drop, main, IInv,
        TypeOK, LoggingIn
  <2> QED BY <2>1, <2>2
<1>3. inbox' \in [Client -> 0..MaxInbox]
  <2>1. 0 \in 0..MaxInbox
    BY ServerAssumption
  <2>2. CASE Received /\ TakeMessage
    <3>1. cur \in Client /\ inbox[cur] - 1 \in 0..MaxInbox
      BY <2>2, ServerAssumption DEF Received, IInv, TypeOK, LoggingIn
    <3> QED BY <2>2, <3>1 DEF TakeMessage, IInv, TypeOK
  <2>3. CASE UNCHANGED inbox \/ Drop
    BY <2>1, <2>3 DEF Drop, Close, IInv, TypeOK
  <2> QED BY <2>2, <2>3 DEF Accept, GetMessageFails, LoginInterrupted,
                            NoMessage, NotPlay, Play, Refuse
<1>4. /\ backlog' \in Seq(Client)
      /\ peer' \in [Client -> {"none", "up", "closed", "reset", "gone"}]
      /\ open' \subseteq Client
      /\ answered' \subseteq Client
      /\ name' \in [Client -> Name \cup {NULL}]
  <2>1. CASE Accept
    BY <2>1 DEF Accept, IInv, TypeOK
  <2>2. CASE GetMessageFails \/ LoginInterrupted \/ NotPlay \/
             (\E n \in Name \cup {NULL} : Play(n)) \/ Refuse
    <3>1. cur \in Client
      BY <2>2 DEF GetMessageFails, LoginInterrupted, NoMessage, NotPlay,
                  Received, Play, Refuse, IInv,
                  LoggingIn
    <3> QED
      BY <2>2, <3>1
      DEF GetMessageFails, LoginInterrupted, NoMessage, NotPlay, Play, Refuse,
          Drop, Close, Answer, IInv,
          TypeOK
  <2> QED BY <2>1, <2>2
<1>5. TypeOK'
  BY <1>1, <1>2, <1>3, <1>4 DEF IInv, TypeOK, games, history
<1> QED
  BY <1>1, <1>2, <1>5 DEF IInv, LoggingIn, NameIsFree, UniqueNames

\* The lookup establishes NameIsFree.
LEMMA CheckStep == ASSUME IInv, Check PROVE IInv'
<1>1. TypeOK'
  BY DEF Check, IInv, TypeOK, games, conns, history
<1>2. LoggingIn'
  BY DEF Check, IInv, LoggingIn
<1>3. NameIsFree'
  BY DEF Check, NameIsFree
<1>4. UniqueNames'
  BY DEF Check, IInv, UniqueNames
<1> QED BY <1>1, <1>2, <1>3, <1>4 DEF IInv

LEMMA WelcomeStep == ASSUME IInv, Welcome PROVE IInv'
<1>1. cur \in Client /\ 0 \in 0..MaxInbox
  BY ServerAssumption DEF Welcome, IInv, LoggingIn
<1>2. UNCHANGED <<player_names, games, backlog, history, client1>>
  BY DEF Welcome, Drop
<1>3. \/ pc' = "accept" /\ cur' = NULL
      \/ pc = "welcome" /\ pc' = "register" /\ cur' = cur /\ name' = name
  BY DEF Welcome, Drop
<1>4. /\ name' \in [Client -> Name \cup {NULL}]
      /\ inbox' \in [Client -> 0..MaxInbox]
      /\ peer' \in [Client -> {"none", "up", "closed", "reset", "gone"}]
      /\ open' \subseteq Client
      /\ answered' \subseteq Client
  BY <1>1 DEF Welcome, Drop, Close, Answer, IInv, TypeOK
<1>5. TypeOK'
  BY <1>2, <1>3, <1>4 DEF IInv, TypeOK, games, history
<1> QED
  BY <1>1, <1>2, <1>3, <1>5 DEF IInv, LoggingIn, NameIsFree, UniqueNames

\* add_player_name, with an answer of is_player_name_taken that still holds.
LEMMA RegisterStep == ASSUME IInv, Register PROVE IInv'
<1>1. cur \in Client /\ name[cur] \in Name \cup {NULL}
  BY DEF Register, IInv, TypeOK, LoggingIn
<1>2. /\ player_names' \in Seq(Name \cup {NULL})
      /\ \E i : \A j \in DOMAIN player_names' :
           \/ j = i /\ player_names'[j] = name[cur]
           \/ j # i /\ j \in DOMAIN player_names
                    /\ player_names'[j] = player_names[j]
  <2>1. player_names \in Seq(Name \cup {NULL})
    BY DEF IInv, TypeOK
  <2>2. player_names' = add_player_name(player_names, name[cur])
    BY DEF Register
  <2>3. CASE name[cur] = NULL
    <3>1. player_names' = player_names /\ 0 \notin DOMAIN player_names
      BY <2>1, <2>2, <2>3 DEF add_player_name
    <3>2. \A j \in DOMAIN player_names' :
            j # 0 /\ j \in DOMAIN player_names /\ player_names'[j] = player_names[j]
      BY <3>1
    <3>3. \E i : \A j \in DOMAIN player_names' : j # i
      BY <3>2
    <3> QED BY <2>1, <3>1, <3>2, <3>3
  <2>4. CASE name[cur] \in Name
    <3> DEFINE new == add_player_name(player_names, name[cur])
    <3>1. /\ new \in Seq(Name \cup {NULL})
          /\ \E i : \A j \in DOMAIN new :
               \/ j = i /\ new[j] = name[cur]
               \/ j # i /\ j \in DOMAIN player_names /\ new[j] = player_names[j]
      BY <2>1, <2>4, AddPutsOne
    <3> HIDE DEF new
    <3>2. player_names' = new
      BY <2>2 DEF new
    <3> QED BY <3>1, <3>2
  <2> QED BY <1>1, <2>3, <2>4
<1>3. UniqueNames'
  <2>1. name[cur] # NULL =>
          \A j \in DOMAIN player_names : player_names[j] # name[cur]
    BY DEF Register, IInv, NameIsFree, is_player_name_taken, Slots
  <2> QED BY <1>2, <2>1 DEF IInv, UniqueNames
<1>4. arrived' \in Seq(Client)
  BY <1>1 DEF Register, IInv, TypeOK
<1>5. peak' \in Nat
  <2>1. Cardinality(Names(player_names')) \in Nat
    BY <1>2, FinitelyManyNames
  <2> QED BY <2>1 DEF Register, IInv, TypeOK
<1>6. TypeOK'
  BY <1>1, <1>2, <1>4, <1>5 DEF Register, IInv, TypeOK, games, conns
<1>7. (LoggingIn /\ NameIsFree)'
  BY DEF Register, IInv, LoggingIn, NameIsFree
<1> QED BY <1>3, <1>6, <1>7 DEF IInv

LEMMA SpawnStep == ASSUME IInv, Spawn PROVE IInv'
<1>1. cur \in Client
  BY DEF Spawn, IInv, LoggingIn
<1>2. TypeOK'
  BY <1>1 DEF Spawn, IInv, TypeOK, conns, history
<1> QED
  BY <1>2 DEF Spawn, IInv, LoggingIn, NameIsFree, UniqueNames

-----------------------------------------------------------------------------
(* The theorems.                                                            *)

LEMMA NextInv == IInv /\ [Next]_vars => IInv'
<1> SUFFICES ASSUME IInv, [Next]_vars PROVE IInv'
  OBVIOUS
<1>1. CASE UNCHANGED vars
  BY <1>1
  DEF vars, main, games, conns, history, IInv, TypeOK, LoggingIn, NameIsFree,
      UniqueNames
<1>2. CASE Acceptor \/ LoginInterrupted
  BY <1>2, LoginStep, CheckStep, WelcomeStep, RegisterStep, SpawnStep
  DEF Acceptor
<1>3. CASE \E c \in Client : GameThread(c) \/ PlayInterrupted(c)
  BY <1>3, GameStep, RemoveStep DEF GameThread
<1>4. CASE \E c \in Client : \/ Connect(c) \/ ClientSend(c)
                            \/ ClientClose(c) \/ ConnectionReset(c)
  BY <1>4, ClientStep
<1> QED BY <1>1, <1>2, <1>3, <1>4 DEF Next

LEMMA Invariance == Spec => []IInv
  BY InitInv, NextInv, PTL DEF Spec

\* Every variable of the server keeps its type: in particular the main thread
\* names a client whenever it logs one in, and the array holds names and free
\* slots only.
THEOREM TypeCorrect == Spec => []TypeOK
<1>1. IInv => TypeOK
  BY DEF IInv
<1> QED BY <1>1, Invariance, PTL

\* No name is registered twice, however many clients and games there are and
\* however the game threads interleave with get_client between its check of
\* the name and its registration.
THEOREM NamesAreUnique == Spec => []UniqueNames
<1>1. IInv => UniqueNames
  BY DEF IInv
<1> QED BY <1>1, Invariance, PTL

-----------------------------------------------------------------------------
(* Where a client can be.  It waits in the backlog, is logged in by the     *)
(* main thread, and from its registration on has one place in arrived: the  *)
(* last if it waits, else one of a pair that plays.                         *)

Queued(c)  == \E k \in DOMAIN backlog : backlog[k] = c
Entered(c) == \E k \in DOMAIN arrived : arrived[k] = c

Injective(s) == \A k, l \in DOMAIN s : s[k] = s[l] => k = l

QueueOK ==
  /\ Injective(backlog)
  /\ Injective(arrived)
  /\ \A c \in Client : Queued(c) => ~Entered(c) /\ c # cur
  /\ \A c \in Client : peer[c] = "none" => ~Queued(c) /\ ~Entered(c) /\ c # cur

MainOK ==
  /\ pc = "accept" <=> cur = NULL
  /\ pc \notin {"accept", "spawn"} => ~Entered(cur)
  /\ client1 = NULL => pc # "spawn" /\ Len(arrived) % 2 = 0
  /\ client1 # NULL /\ pc # "spawn" =>
       Len(arrived) % 2 = 1 /\ arrived[Len(arrived)] = client1
  /\ pc = "spawn" =>
       /\ Len(arrived) % 2 = 0 /\ Len(arrived) > 0
       /\ arrived[Len(arrived) - 1] = client1 /\ arrived[Len(arrived)] = cur

\* The game led by g has the players at places k and k + 1.
PlaysFrom(g, k) ==
  /\ k % 2 = 1 /\ k < Len(arrived)
  /\ arrived[k] = g /\ arrived[k + 1] = client2[g]

GamesOK ==
  \A g \in Client :
    IF thread[g] = "none" THEN client2[g] = NULL
    ELSE g # client1 /\ \E k \in 1..Len(arrived) : PlaysFrom(g, k)

Placed == QueueOK /\ MainOK /\ GamesOK

-----------------------------------------------------------------------------
(* Sequences without repetition.                                            *)

LEMMA AppendNew ==
  ASSUME NEW S, NEW s \in Seq(S), NEW x \in S
  PROVE  /\ Len(Append(s, x)) = Len(s) + 1
         /\ \A k \in DOMAIN s : Append(s, x)[k] = s[k]
         /\ Append(s, x)[Len(s) + 1] = x
         /\ \A y : (\E k \in DOMAIN Append(s, x) : Append(s, x)[k] = y)
                     <=> (y = x \/ \E k \in DOMAIN s : s[k] = y)
         /\ (Injective(s) /\ \A k \in DOMAIN s : s[k] # x)
              => Injective(Append(s, x))
<1> DEFINE t == Append(s, x)
<1>1. /\ DOMAIN s = 1..Len(s) /\ Len(s) \in Nat
      /\ DOMAIN t = 1..(Len(s) + 1)
      /\ Len(t) = Len(s) + 1
      /\ \A k \in DOMAIN s : t[k] = s[k]
      /\ t[Len(s) + 1] = x
  OBVIOUS
<1> HIDE DEF t
<1>2. \A k \in DOMAIN t : k = Len(s) + 1 \/ k \in DOMAIN s
  BY <1>1
<1>3. \A k \in DOMAIN s : k \in DOMAIN t
  BY <1>1
<1>4. Len(s) + 1 \in DOMAIN t
  BY <1>1
<1>5. \A y : (\E k \in DOMAIN t : t[k] = y)
               <=> (y = x \/ \E k \in DOMAIN s : s[k] = y)
  BY <1>1, <1>2, <1>3, <1>4
<1>6. (Injective(s) /\ \A k \in DOMAIN s : s[k] # x) => Injective(t)
  BY <1>1, <1>2 DEF Injective
<1> QED BY <1>1, <1>5, <1>6 DEF t

LEMMA TailKeeps ==
  ASSUME NEW S, NEW s \in Seq(S), s # <<>>
  PROVE  /\ Tail(s) \in Seq(S)
         /\ Head(s) \in S
         /\ \E k \in DOMAIN s : s[k] = Head(s)
         /\ \A y : (\E k \in DOMAIN Tail(s) : Tail(s)[k] = y)
                     => \E k \in DOMAIN s : s[k] = y
         /\ Injective(s) =>
              /\ Injective(Tail(s))
              /\ \A k \in DOMAIN Tail(s) : Tail(s)[k] # Head(s)
<1> DEFINE t == Tail(s)
<1>1. /\ DOMAIN s = 1..Len(s) /\ Len(s) \in Nat /\ Len(s) > 0
      /\ t \in Seq(S) /\ Head(s) = s[1] /\ Head(s) \in S
      /\ DOMAIN t = 1..(Len(s) - 1)
      /\ \A k \in DOMAIN t : t[k] = s[k + 1]
  OBVIOUS
<1> HIDE DEF t
<1>2. 1 \in DOMAIN s /\ \A k \in DOMAIN t : k + 1 \in DOMAIN s /\ k + 1 # 1
  BY <1>1
<1>3. Injective(s) => Injective(t)
  <2> SUFFICES ASSUME Injective(s), NEW k \in DOMAIN t, NEW l \in DOMAIN t,
                      t[k] = t[l]
               PROVE  k = l
    BY DEF Injective
  <2>1. k + 1 = l + 1
    BY <1>1, <1>2 DEF Injective
  <2> QED BY <1>1, <2>1
<1>4. Injective(s) => \A k \in DOMAIN t : t[k] # Head(s)
  BY <1>1, <1>2 DEF Injective
<1> QED BY <1>1, <1>2, <1>3, <1>4 DEF t

-----------------------------------------------------------------------------
(* What follows from Placed: no client is in two places.                    *)

LEMMA Apart ==
  ASSUME TypeOK, Placed
  PROVE  /\ cur # NULL => /\ cur # client1
                          /\ thread[cur] = "none"
                          /\ \A g \in Client : client2[g] # cur
         /\ client1 # NULL => /\ thread[client1] = "none"
                              /\ \A g \in Client : client2[g] # client1
         /\ \A g \in Client : thread[g] # "none" =>
              /\ client2[g] \in Client
              /\ thread[client2[g]] = "none"
              /\ \A h \in Client : client2[h] = client2[g] => h = g
<1>1. /\ arrived \in Seq(Client)
      /\ DOMAIN arrived = 1..Len(arrived) /\ Len(arrived) \in Nat
      /\ \A k \in DOMAIN arrived : arrived[k] \in Client
      /\ \A k, l \in DOMAIN arrived : arrived[k] = arrived[l] => k = l
  BY DEF TypeOK, Placed, QueueOK, Injective
<1>2. \A g \in Client : thread[g] = "none" => client2[g] = NULL
  BY DEF Placed, GamesOK
<1>3. \A g \in Client : thread[g] # "none" =>
        g # client1 /\ \E k \in 1..Len(arrived) : PlaysFrom(g, k)
  BY DEF Placed, GamesOK
<1>4. ASSUME cur # NULL, pc # "spawn"
      PROVE  /\ cur \in Client
             /\ cur # client1
             /\ thread[cur] = "none"
             /\ \A g \in Client : client2[g] # cur
  <2>1. cur \in Client /\ \A k \in DOMAIN arrived : arrived[k] # cur
    BY <1>4 DEF TypeOK, Placed, MainOK, Entered
  <2>2. cur # client1
    BY <1>1, <1>4, <2>1 DEF Placed, MainOK
  <2>3. thread[cur] = "none"
    BY <1>1, <1>3, <2>1 DEF PlaysFrom
  <2>4. \A g \in Client : client2[g] # cur
    <3> SUFFICES ASSUME NEW g \in Client, client2[g] = cur PROVE FALSE
      OBVIOUS
    <3>1. thread[g] # "none"
      BY <1>2, <1>4
    <3>2. PICK k \in 1..Len(arrived) : PlaysFrom(g, k)
      BY <1>3, <3>1
    <3>3. k + 1 \in DOMAIN arrived
      BY <1>1, <3>2 DEF PlaysFrom
    <3> QED BY <2>1, <3>2, <3>3 DEF PlaysFrom
  <2> QED BY <2>1, <2>2, <2>3, <2>4
<1>5. ASSUME pc = "spawn"
      PROVE  /\ Len(arrived) - 1 \in DOMAIN arrived
             /\ Len(arrived) \in DOMAIN arrived
             /\ cur # NULL /\ cur \in Client
             /\ cur # client1
             /\ thread[cur] = "none"
             /\ \A g \in Client : client2[g] # cur
  <2>1. /\ Len(arrived) % 2 = 0 /\ Len(arrived) > 0
        /\ arrived[Len(arrived) - 1] = client1 /\ arrived[Len(arrived)] = cur
        /\ cur # NULL /\ cur \in Client
    BY <1>5 DEF TypeOK, Placed, MainOK
  <2>2. Len(arrived) - 1 \in DOMAIN arrived /\ Len(arrived) \in DOMAIN arrived
    BY <1>1, <2>1
  <2>3. cur # client1
    BY <1>1, <2>1, <2>2
  <2>4. thread[cur] = "none"
    BY <1>1, <1>3, <2>1, <2>2 DEF PlaysFrom
  <2>5. \A g \in Client : client2[g] # cur
    <3> SUFFICES ASSUME NEW g \in Client, client2[g] = cur PROVE FALSE
      OBVIOUS
    <3>1. thread[g] # "none"
      BY <1>2, <2>1
    <3>2. PICK k \in 1..Len(arrived) : PlaysFrom(g, k)
      BY <1>3, <3>1
    <3>3. k + 1 \in DOMAIN arrived /\ arrived[k + 1] = arrived[Len(arrived)]
      BY <1>1, <2>1, <3>2 DEF PlaysFrom
    <3>4. k + 1 = Len(arrived)
      BY <1>1, <2>2, <3>3
    <3>5. g = client1
      <4>1. Len(arrived) \in Nat /\ k \in Nat
        BY <1>1
      <4>2. k = Len(arrived) - 1
        BY <3>4, <4>1
      <4> QED BY <2>1, <3>2, <4>2 DEF PlaysFrom
    <3> QED BY <1>3, <3>1, <3>5
  <2> QED BY <2>1, <2>2, <2>3, <2>4, <2>5
<1>6. ASSUME client1 # NULL
      PROVE  /\ thread[client1] = "none"
             /\ \A g \in Client : client2[g] # client1
  <2>1. PICK j \in DOMAIN arrived : j % 2 = 1 /\ arrived[j] = client1
    <3>1. CASE pc = "spawn"
      BY <1>1, <1>5, <3>1 DEF Placed, MainOK
    <3>2. CASE pc # "spawn"
      BY <1>1, <1>6, <3>2 DEF Placed, MainOK
    <3> QED BY <3>1, <3>2
  <2>2. client1 \in Client
    BY <1>6 DEF TypeOK
  <2>3. \A g \in Client : client2[g] # client1
    <3> SUFFICES ASSUME NEW g \in Client, client2[g] = client1 PROVE FALSE
      OBVIOUS
    <3>1. PICK k \in 1..Len(arrived) : PlaysFrom(g, k)
      BY <1>2, <1>3, <1>6
    <3>2. k + 1 \in DOMAIN arrived /\ arrived[k + 1] = arrived[j] /\ k % 2 = 1
      BY <1>1, <2>1, <3>1 DEF PlaysFrom
    <3>3. k + 1 = j
      BY <1>1, <2>1, <3>2
    <3> QED BY <1>1, <2>1, <3>2, <3>3
  <2> QED BY <1>3, <2>2, <2>3
<1>7. ASSUME NEW g \in Client, thread[g] # "none"
      PROVE  /\ client2[g] \in Client
             /\ thread[client2[g]] = "none"
             /\ \A h \in Client : client2[h] = client2[g] => h = g
  <2>1. PICK k \in 1..Len(arrived) : PlaysFrom(g, k)
    BY <1>3, <1>7
  <2>2. /\ k + 1 \in DOMAIN arrived /\ k % 2 = 1
        /\ arrived[k] = g /\ arrived[k + 1] = client2[g]
        /\ client2[g] \in Client
    BY <1>1, <2>1 DEF PlaysFrom
  <2>3. thread[client2[g]] = "none"
    <3> SUFFICES ASSUME thread[client2[g]] # "none" PROVE FALSE
      OBVIOUS
    <3>1. PICK l \in 1..Len(arrived) : PlaysFrom(client2[g], l)
      BY <1>3, <2>2
    <3>2. l = k + 1 /\ l % 2 = 1
      BY <1>1, <2>2, <3>1 DEF PlaysFrom
    <3> QED BY <2>2, <3>2
  <2>4. \A h \in Client : client2[h] = client2[g] => h = g
    <3> SUFFICES ASSUME NEW h \in Client, client2[h] = client2[g] PROVE h = g
      OBVIOUS
    <3>1. PICK l \in 1..Len(arrived) : PlaysFrom(h, l)
      BY <1>2, <1>3, <2>2, ServerAssumption
    <3>2. l + 1 \in DOMAIN arrived /\ arrived[l + 1] = arrived[k + 1]
      BY <1>1, <2>2, <3>1 DEF PlaysFrom
    <3>3. l + 1 = k + 1
      BY <1>1, <2>2, <3>2
    <3> QED BY <2>2, <3>1, <3>3 DEF PlaysFrom
  <2> QED BY <2>2, <2>3, <2>4
<1> QED BY <1>4, <1>5, <1>6, <1>7

-----------------------------------------------------------------------------
(* Placed is inductive.                                                     *)

LEMMA InitPlaced == Init => Placed
<1> SUFFICES ASSUME Init PROVE Placed
  OBVIOUS
<1>1. backlog = <<>> /\ arrived = <<>> /\ Len(arrived) = 0
  BY DEF Init
<1>2. QueueOK
  BY <1>1, ServerAssumption DEF Init, QueueOK, Queued, Entered, Injective
<1>3. MainOK
  BY <1>1 DEF Init, MainOK
<1>4. GamesOK
  BY DEF Init, GamesOK
<1> QED BY <1>2, <1>3, <1>4 DEF Placed

\* A connection is queued when it is made, once.
LEMMA ClientPlaced ==
  ASSUME IInv, Placed, NEW c \in Client,
         Connect(c) \/ ClientSend(c) \/ ClientClose(c) \/ ConnectionReset(c)
  PROVE  Placed'
<1>1. UNCHANGED <<pc, cur, client1, thread, client2, arrived>>
  BY DEF Connect, ClientSend, ClientClose, ConnectionReset, main, games, history
<1>2. backlog \in Seq(Client) /\ peer \in [Client -> {"none", "up", "closed", "reset", "gone"}]
  BY DEF IInv, TypeOK
<1>3. CASE Connect(c)
  <2>1. /\ backlog' = Append(backlog, c)
        /\ peer[c] = "none" /\ peer' = [peer EXCEPT ![c] = "up"]
    BY <1>3 DEF Connect
  <2>2. \A k \in DOMAIN backlog : backlog[k] # c
    BY <2>1 DEF Placed, QueueOK, Queued
  <2>3. Injective(backlog')
    BY <1>2, <2>1, <2>2, AppendNew DEF Placed, QueueOK
  <2>4. \A d : Queued(d)' <=> d = c \/ Queued(d)
    BY <1>2, <2>1, AppendNew DEF Queued
  <2>5. \A d \in Client : peer'[d] = "none" => d # c /\ peer[d] = "none"
    BY <1>2, <2>1
  <2>6. QueueOK'
    BY <1>1, <2>1, <2>3, <2>4, <2>5 DEF Placed, QueueOK, Entered
  <2> QED
    BY <1>1, <2>6 DEF Placed, MainOK, GamesOK, PlaysFrom, Entered
<1>4. CASE ClientSend(c) \/ ClientClose(c) \/ ConnectionReset(c)
  <2>1. UNCHANGED backlog /\ \A d \in Client : peer'[d] = "none" => peer[d] = "none"
    BY <1>2, <1>4 DEF ClientSend, ClientClose, ConnectionReset
  <2> QED
    BY <1>1, <2>1
    DEF Placed, QueueOK, MainOK, GamesOK, PlaysFrom, Queued, Entered
<1> QED BY <1>3, <1>4

\* The main thread takes the first connection from the backlog.
LEMMA AcceptPlaced == ASSUME IInv, Placed, Accept PROVE Placed'
<1>1. /\ UNCHANGED <<client1, thread, client2, arrived, peer>>
      /\ pc = "accept" /\ pc' = "get_message"
      /\ backlog # <<>> /\ backlog' = Tail(backlog) /\ cur' = Head(backlog)
  BY DEF Accept, games, history
<1>2. backlog \in Seq(Client)
  BY DEF IInv, TypeOK
<1>3. /\ Injective(backlog')
      /\ cur' \in Client /\ Queued(cur')
      /\ \A d : Queued(d)' => Queued(d) /\ d # cur'
  BY <1>1, <1>2, TailKeeps DEF Placed, QueueOK, Queued
<1>4. QueueOK'
  BY <1>1, <1>3 DEF Placed, QueueOK, Entered
<1>5. MainOK'
  <2>1. cur' # NULL /\ ~Entered(cur')
    BY <1>3, ServerAssumption DEF Placed, QueueOK
  <2> QED BY <1>1, <2>1 DEF Placed, MainOK, Entered
<1>6. GamesOK'
  BY <1>1 DEF Placed, GamesOK, PlaysFrom
<1> QED BY <1>4, <1>5, <1>6 DEF Placed

\* The steps of a login keep the client or let go of it.
LEMMA LoginPlaced ==
  ASSUME IInv, Placed,
         \/ GetMessageFails \/ LoginInterrupted \/ NotPlay \/
               (\E n \in Name \cup {NULL} : Play(n))
         \/ Check \/ Refuse \/ Welcome
  PROVE  Placed'
<1>1. /\ UNCHANGED <<client1, thread, client2, arrived, backlog>>
      /\ pc \notin {"accept", "spawn"} /\ pc' # "spawn"
      /\ \/ pc' = "accept" /\ cur' = NULL
         \/ pc' # "accept" /\ cur' = cur
  BY DEF GetMessageFails, LoginInterrupted, NoMessage, NotPlay, Received, Play,
         Check, Refuse, Welcome, Drop,
         main, games, conns, history
<1>2. \A d \in Client : peer'[d] = "none" => peer[d] = "none"
  BY DEF GetMessageFails, LoginInterrupted, NoMessage, NotPlay, Play, Check,
         Refuse, Welcome, Drop, Close,
         conns, IInv, TypeOK
<1>3. QueueOK'
  BY <1>1, <1>2, ServerAssumption DEF Placed, QueueOK, Queued, Entered
<1>4. MainOK'
  BY <1>1 DEF Placed, MainOK, Entered
<1>5. GamesOK'
  BY <1>1 DEF Placed, GamesOK, PlaysFrom
<1> QED BY <1>3, <1>4, <1>5 DEF Placed

\* Registration gives the client the next place.
LEMMA RegisterPlaced == ASSUME IInv, Placed, Register PROVE Placed'
<1>1. /\ UNCHANGED <<thread, client2, backlog, peer>>
      /\ pc = "register" /\ cur \in Client /\ cur # NULL
      /\ arrived' = Append(arrived, cur)
      /\ \/ client1 = NULL /\ client1' = cur /\ cur' = NULL /\ pc' = "accept"
         \/ client1 # NULL /\ client1' = client1 /\ cur' = cur /\ pc' = "spawn"
  BY DEF Register, IInv, LoggingIn, Placed, MainOK, games, conns
<1>2. arrived \in Seq(Client) /\ DOMAIN arrived = 1..Len(arrived) /\ Len(arrived) \in Nat
  BY DEF IInv, TypeOK
<1>3. /\ ~Entered(cur)
      /\ \A k \in DOMAIN arrived : arrived[k] # cur
  BY <1>1 DEF Placed, MainOK, Entered
<1>4. /\ Len(arrived') = Len(arrived) + 1
      /\ \A k \in DOMAIN arrived : arrived'[k] = arrived[k]
      /\ arrived'[Len(arrived) + 1] = cur
      /\ \A d : Entered(d)' <=> (d = cur \/ Entered(d))
      /\ Injective(arrived')
  BY <1>1, <1>2, <1>3, AppendNew DEF Placed, QueueOK, Entered
<1>5. QueueOK'
  <2>1. \A d \in Client : Queued(d)' => ~Entered(d)' /\ d # cur'
    BY <1>1, <1>4, ServerAssumption DEF Placed, QueueOK, Queued
  <2>2. \A d \in Client : peer'[d] = "none" => ~Queued(d)' /\ ~Entered(d)' /\ d # cur'
    BY <1>1, <1>4, ServerAssumption DEF Placed, QueueOK, Queued
  <2> QED BY <1>1, <1>4, <2>1, <2>2 DEF Placed, QueueOK, Injective
<1>6. MainOK'
  <2>1. CASE client1 = NULL
    <3>1. Len(arrived) % 2 = 0
      BY <2>1 DEF Placed, MainOK
    <3>2. Len(arrived') % 2 = 1 /\ arrived'[Len(arrived')] = cur
      BY <1>2, <1>4, <3>1
    <3> QED BY <1>1, <2>1, <3>2 DEF MainOK
  <2>2. CASE client1 # NULL
    <3>1. Len(arrived) % 2 = 1 /\ arrived[Len(arrived)] = client1
      BY <1>1, <2>2 DEF Placed, MainOK
    <3>2. Len(arrived') % 2 = 0 /\ Len(arrived') > 0 /\ Len(arrived') - 1 = Len(arrived)
      BY <1>2, <1>4, <3>1
    <3>3. Len(arrived) \in DOMAIN arrived
      BY <1>2, <3>1
    <3>4. arrived'[Len(arrived') - 1] = client1 /\ arrived'[Len(arrived')] = cur
      BY <1>4, <3>1, <3>2, <3>3
    <3> QED BY <1>1, <2>2, <3>2, <3>4 DEF MainOK
  <2> QED BY <2>1, <2>2
<1>7. GamesOK'
  <2>1. ASSUME NEW g \in Client, thread[g] # "none"
        PROVE  g # client1' /\ \E k \in 1..Len(arrived') : PlaysFrom(g, k)'
    <3>1. PICK k \in 1..Len(arrived) : PlaysFrom(g, k)
      BY <2>1 DEF Placed, GamesOK
    <3>2. k \in DOMAIN arrived /\ k + 1 \in DOMAIN arrived /\ k \in 1..Len(arrived')
      BY <1>2, <1>4, <3>1 DEF PlaysFrom
    <3>3. k % 2 = 1 /\ k < Len(arrived')
      BY <1>2, <1>4, <3>1 DEF PlaysFrom
    <3>4. arrived'[k] = g /\ arrived'[k + 1] = client2'[g]
      BY <1>1, <1>4, <3>1, <3>2 DEF PlaysFrom
    <3>5. g # client1'
      BY <1>1, <1>3, <2>1, <3>1, <3>2 DEF Placed, GamesOK, PlaysFrom
    <3> QED BY <3>2, <3>3, <3>4, <3>5 DEF PlaysFrom
  <2> QED BY <1>1, <2>1 DEF Placed, GamesOK
<1> QED BY <1>5, <1>6, <1>7 DEF Placed

\* The last two become a game.
LEMMA SpawnPlaced == ASSUME IInv, Placed, Spawn PROVE Placed'
<1>1. /\ UNCHANGED <<arrived, backlog, peer>>
      /\ pc = "spawn" /\ pc' = "accept"
      /\ cur' = NULL /\ client1' = NULL
      /\ thread' = [thread EXCEPT ![client1] = "begin1"]
      /\ client2' = [client2 EXCEPT ![client1] = cur]
  BY DEF Spawn, conns, history
<1>2. /\ arrived \in Seq(Client) /\ Len(arrived) \in Nat
      /\ client1 \in Client /\ cur \in Client
      /\ DOMAIN thread = Client /\ DOMAIN client2 = Client
  BY <1>1 DEF IInv, TypeOK, LoggingIn, Placed, MainOK
<1>3. QueueOK'
  BY <1>1, ServerAssumption DEF Placed, QueueOK, Queued, Entered
<1>4. MainOK'
  BY <1>1 DEF Placed, MainOK
<1>5. GamesOK'
  <2>1. ASSUME NEW g \in Client, g = client1
        PROVE  \E k \in 1..Len(arrived') : PlaysFrom(g, k)'
    <3>1. /\ Len(arrived) % 2 = 0 /\ Len(arrived) > 0
          /\ arrived[Len(arrived) - 1] = client1 /\ arrived[Len(arrived)] = cur
      BY <1>1 DEF Placed, MainOK
    <3>2. /\ (Len(arrived) - 1) % 2 = 1 /\ Len(arrived) - 1 < Len(arrived)
          /\ (Len(arrived) - 1) + 1 = Len(arrived)
          /\ Len(arrived) - 1 \in 1..Len(arrived)
      BY <1>2, <3>1
    <3>3. client2'[client1] = cur
      BY <1>1, <1>2
    <3>4. /\ (Len(arrived) - 1) % 2 = 1 /\ Len(arrived) - 1 < Len(arrived')
          /\ arrived'[Len(arrived) - 1] = g
          /\ arrived'[(Len(arrived) - 1) + 1] = client2'[g]
          /\ Len(arrived) - 1 \in 1..Len(arrived')
      BY <1>1, <2>1, <3>1, <3>2, <3>3
    <3> QED BY <3>4 DEF PlaysFrom
  <2>2. \A g \in Client \ {client1} :
          thread'[g] = thread[g] /\ client2'[g] = client2[g]
    BY <1>1, <1>2
  <2>3. \A g \in Client : g # client1'
    BY <1>1, ServerAssumption
  <2>4. thread'[client1] # "none"
    BY <1>1, <1>2
  <2>5. ASSUME NEW g \in Client
        PROVE  IF thread'[g] = "none" THEN client2'[g] = NULL
               ELSE g # client1' /\ \E k \in 1..Len(arrived') : PlaysFrom(g, k)'
    <3>1. CASE g = client1
      BY <1>1, <2>1, <2>3, <2>4, <3>1
    <3>2. CASE g # client1
      BY <1>1, <2>2, <2>3, <3>2 DEF Placed, GamesOK, PlaysFrom
    <3> QED BY <3>1, <3>2
  <2> QED BY <2>5 DEF GamesOK
<1> QED BY <1>3, <1>4, <1>5 DEF Placed

\* A game thread never goes back to where it is not one.
LEMMA GamePlaced ==
  ASSUME IInv, Placed, NEW g \in Client, GameThread(g) \/ PlayInterrupted(g)
  PROVE  Placed'
<1>1. UNCHANGED <<pc, cur, client1, client2, arrived, backlog>>
  BY DEF GameThread, Begin1, Begin2, PlayInterrupted, PlayMessage, PlayDrop,
         Remove1, Remove2, Close1, Close2, main, conns, history
<1>2. \A d \in Client : thread'[d] = "none" <=> thread[d] = "none"
  BY DEF GameThread, Begin1, Begin2, PlayInterrupted, PlayMessage, PlayDrop,
         Remove1, Remove2, Close1, Close2, Goto, IInv, TypeOK
<1>3. \A d \in Client : peer'[d] = "none" => peer[d] = "none"
  BY DEF GameThread, Begin1, Begin2, PlayInterrupted, PlayMessage, PlayDrop,
         Remove1, Remove2, Close1, Close2, Close, conns, IInv, TypeOK
<1> QED
  BY <1>1, <1>2, <1>3
  DEF Placed, QueueOK, MainOK, GamesOK, PlaysFrom, Queued, Entered

LEMMA NextPlaced == IInv /\ Placed /\ [Next]_vars => Placed'
<1> SUFFICES ASSUME IInv, Placed, [Next]_vars PROVE Placed'
  OBVIOUS
<1>1. CASE UNCHANGED vars
  BY <1>1
  DEF vars, main, games, conns, history, Placed, QueueOK, MainOK, GamesOK,
      PlaysFrom, Queued, Entered, Injective
<1>2. CASE Acceptor \/ LoginInterrupted
  BY <1>2, AcceptPlaced, LoginPlaced, RegisterPlaced, SpawnPlaced DEF Acceptor
<1>3. CASE \E c \in Client : GameThread(c) \/ PlayInterrupted(c)
  BY <1>3, GamePlaced
<1>4. CASE \E c \in Client : \/ Connect(c) \/ ClientSend(c)
                            \/ ClientClose(c) \/ ConnectionReset(c)
  BY <1>4, ClientPlaced
<1> QED BY <1>1, <1>2, <1>3, <1>4 DEF Next

LEMMA AlwaysPlaced == Spec => [](IInv /\ Placed)
  BY Invariance, InitPlaced, NextPlaced, PTL DEF Spec

\* simulate_server pairs clients in the order they registered, and puts nobody
\* into two games.
THEOREM Pairing == Spec => []PairedInOrder
<1>1. Placed => PairedInOrder
  BY DEF Placed, QueueOK, GamesOK, PlaysFrom, Injective, PairedInOrder
<1> QED BY <1>1, AlwaysPlaced, PTL

-----------------------------------------------------------------------------
(* Who owns a socket: the invariant OInv.                                  *)

Owned(c) ==
  \/ c = cur \/ c = client1
  \/ thread[c] \notin {"none", "close2", "done"}
  \/ \E g \in Client : thread[g] \notin {"none", "done"} /\ c = client2[g]

LEMMA Owners ==
  ASSUME open \subseteq Client
  PROVE  SocketsOwned <=> \A c \in Client : c \in open <=> Owned(c)
  BY DEF SocketsOwned, Owned

LEMMA NextOwners ==
  ASSUME open' \subseteq Client
  PROVE  SocketsOwned' <=> \A c \in Client : c \in open' <=> Owned(c)'
  BY DEF SocketsOwned, Owned

LEMMA InitSockets == Init => SocketsOwned
  BY ServerAssumption DEF Init, SocketsOwned

\* An accepted socket is the main thread's until it closes it, hands it on to
\* the next step of the login, or gives it to a game.
LEMMA MainSockets ==
  ASSUME IInv, Placed, SocketsOwned, Acceptor \/ LoginInterrupted, open' \subseteq Client
  PROVE  SocketsOwned'
<1>1. open \subseteq Client /\ \A c \in Client : c \in open <=> Owned(c)
  BY Owners DEF IInv, TypeOK
<1>2. CASE Accept
  <2>1. /\ UNCHANGED <<client1, thread, client2>>
        /\ cur = NULL /\ open' = open \cup {cur'}
    BY <1>2 DEF Accept, games, Placed, MainOK
  <2>2. \A c \in Client : Owned(c)' <=> Owned(c) \/ c = cur'
    BY <2>1, ServerAssumption DEF Owned
  <2> QED BY <1>1, <2>1, <2>2, NextOwners
<1>3. CASE Drop /\ cur # NULL /\ UNCHANGED games
  <2>1. /\ UNCHANGED <<client1, thread, client2>>
        /\ cur' = NULL /\ open' = open \ {cur}
    BY <1>3 DEF Drop, Close, games
  <2>2. /\ cur # client1 /\ thread[cur] = "none"
        /\ \A g \in Client : client2[g] # cur
    BY <1>3, Apart DEF IInv
  <2>3. \A c \in Client : Owned(c)' <=> Owned(c) /\ c # cur
    BY <2>1, <2>2, ServerAssumption DEF Owned
  <2> QED BY <1>1, <2>1, <2>3, NextOwners
<1>4. CASE UNCHANGED <<open, games, cur, client1>>
  BY <1>1, <1>4, NextOwners DEF Owned, games
<1>5. CASE Register
  <2>1. /\ UNCHANGED <<open, thread, client2>>
        /\ \/ client1 = NULL /\ client1' = cur /\ cur' = NULL
           \/ UNCHANGED <<cur, client1>>
    BY <1>5 DEF Register, games
  <2>2. \A c \in Client : Owned(c)' <=> Owned(c)
    BY <2>1, ServerAssumption DEF Owned
  <2> QED BY <1>1, <2>1, <2>2, NextOwners
<1>6. CASE Spawn
  <2>1. /\ UNCHANGED open
        /\ thread' = [thread EXCEPT ![client1] = "begin1"]
        /\ client2' = [client2 EXCEPT ![client1] = cur]
        /\ cur' = NULL /\ client1' = NULL
        /\ client1 \in Client /\ cur \in Client
        /\ thread \in [Client -> {"none", "begin1", "begin2", "play", "remove1",
                                  "remove2", "close1", "close2", "done"}]
        /\ client2 \in [Client -> Client \cup {NULL}]
    BY <1>6 DEF Spawn, IInv, TypeOK, LoggingIn, Placed, MainOK
  <2>2. thread[client1] = "none"
    BY <2>1, Apart, ServerAssumption DEF IInv
  <2>3. ASSUME NEW c \in Client PROVE Owned(c)' <=> Owned(c)
    <3>1. \A g \in Client : thread'[g] = IF g = client1 THEN "begin1" ELSE thread[g]
      BY <2>1
    <3>2. \A g \in Client : client2'[g] = IF g = client1 THEN cur ELSE client2[g]
      BY <2>1
    <3> QED BY <2>1, <2>2, <3>1, <3>2, ServerAssumption DEF Owned
  <2> QED BY <1>1, <2>1, <2>3, NextOwners
<1>7. ASSUME GetMessageFails \/ LoginInterrupted \/ NotPlay \/ Refuse \/ Welcome
      PROVE  \/ Drop /\ cur # NULL /\ UNCHANGED games
             \/ UNCHANGED <<open, games, cur, client1>>
  BY <1>7, ServerAssumption
  DEF GetMessageFails, LoginInterrupted, NoMessage, NotPlay, Received, Refuse,
      Welcome, IInv, LoggingIn, main
<1>8. ASSUME (\E n \in Name \cup {NULL} : Play(n)) \/ Check
      PROVE  UNCHANGED <<open, games, cur, client1>>
  BY <1>8 DEF Play, Check
<1> QED
  BY <1>2, <1>3, <1>4, <1>5, <1>6, <1>7, <1>8 DEF Acceptor

\* A game thread closes its two sockets and no other.
LEMMA GameSockets ==
  ASSUME IInv, Placed, SocketsOwned, open' \subseteq Client,
         NEW g \in Client, GameThread(g) \/ PlayInterrupted(g)
  PROVE  SocketsOwned'
<1>1. open \subseteq Client /\ \A c \in Client : c \in open <=> Owned(c)
  BY Owners DEF IInv, TypeOK
<1>2. /\ UNCHANGED <<cur, client1, client2>>
      /\ thread[g] # "none"
      /\ \E where : thread' = [thread EXCEPT ![g] = where]
      /\ DOMAIN thread = Client
  BY DEF GameThread, Begin1, Begin2, PlayInterrupted, PlayMessage, PlayDrop,
         Remove1, Remove2, Close1, Close2, Goto, main, IInv, TypeOK
<1>3. /\ g # cur /\ g # client1
      /\ \A h \in Client : client2[h] # g
      /\ client2[g] \in Client
      /\ client2[g] # cur /\ client2[g] # client1 /\ thread[client2[g]] = "none"
      /\ \A h \in Client : client2[h] = client2[g] => h = g
  <2>1. /\ cur # NULL => thread[cur] = "none" /\ client2[g] # cur
        /\ client1 # NULL => thread[client1] = "none" /\ client2[g] # client1
        /\ \A h \in Client : thread[h] # "none" =>
             /\ client2[h] \in Client
             /\ thread[client2[h]] = "none"
             /\ \A k \in Client : client2[k] = client2[h] => k = h
    BY Apart DEF IInv
  <2>2. \A h \in Client : thread[h] = "none" => client2[h] = NULL
    BY DEF Placed, GamesOK
  <2> QED BY <1>2, <2>1, <2>2, ServerAssumption
<1>4. CASE Close1(g)
  <2>1. /\ open' = open \ {g} /\ thread[g] = "close1"
        /\ thread' = [thread EXCEPT ![g] = "close2"]
    BY <1>4 DEF Close1, Close, Goto
  <2>2. \A h \in Client : thread'[h] = IF h = g THEN "close2" ELSE thread[h]
    BY <1>2, <2>1
  <2>3. \A c \in Client : Owned(c)' <=> Owned(c) /\ c # g
    BY <1>2, <1>3, <2>1, <2>2 DEF Owned
  <2> QED BY <1>1, <2>1, <2>3, NextOwners
<1>5. CASE Close2(g)
  <2>1. /\ open' = open \ {client2[g]} /\ thread[g] = "close2"
        /\ thread' = [thread EXCEPT ![g] = "done"]
    BY <1>5 DEF Close2, Close, Goto
  <2>2. \A h \in Client : thread'[h] = IF h = g THEN "done" ELSE thread[h]
    BY <1>2, <2>1
  <2>3. \A c \in Client : Owned(c)' <=> Owned(c) /\ c # client2[g]
    BY <1>2, <1>3, <2>1, <2>2 DEF Owned
  <2> QED BY <1>1, <2>1, <2>3, NextOwners
<1>6. CASE ~Close1(g) /\ ~Close2(g)
  <2>1. /\ UNCHANGED open
        /\ thread[g] \in {"begin1", "begin2", "play", "remove1", "remove2"}
        /\ thread'[g] \in {"begin2", "play", "remove1", "remove2", "close1"}
        /\ \A h \in Client \ {g} : thread'[h] = thread[h]
    BY <1>2, <1>6 DEF GameThread, Begin1, Begin2, PlayInterrupted, PlayMessage,
         PlayDrop, Remove1, Remove2, Goto, conns
  <2>2. \A c \in Client : Owned(c)' <=> Owned(c)
    BY <1>2, <2>1 DEF Owned
  <2> QED BY <1>1, <2>1, <2>2, NextOwners
<1> QED BY <1>4, <1>5, <1>6

LEMMA NextSockets == IInv /\ Placed /\ SocketsOwned /\ [Next]_vars => SocketsOwned'
<1> SUFFICES ASSUME IInv, Placed, SocketsOwned, [Next]_vars PROVE SocketsOwned'
  OBVIOUS
<1>1. open' \subseteq Client
  BY NextInv DEF IInv, TypeOK
<1>2. CASE UNCHANGED vars
  BY <1>2 DEF vars, main, games, SocketsOwned
<1>3. CASE Acceptor \/ LoginInterrupted
  BY <1>1, <1>3, MainSockets
<1>4. CASE \E c \in Client : GameThread(c) \/ PlayInterrupted(c)
  BY <1>1, <1>4, GameSockets
<1>5. CASE \E c \in Client : \/ Connect(c) \/ ClientSend(c)
                            \/ ClientClose(c) \/ ConnectionReset(c)
  BY <1>5 DEF Connect, ClientSend, ClientClose, ConnectionReset, main, games,
              SocketsOwned
<1> QED BY <1>2, <1>3, <1>4, <1>5 DEF Next

-----------------------------------------------------------------------------
(* Whose names are in the array.                                            *)

\* Where the thread of a game is while not all its names are given back.
Listed == {"begin1", "begin2", "play", "remove1", "remove2"}

\* The clients with a name.
NamesKnown ==
  /\ pc \in {"welcome", "register"} => name[cur] \in Name
  /\ \A c \in Holders : name[c] \in Name

\* A step that moves nobody in or out and renames no holder.
LEMMA SameHolders ==
  ASSUME IInv, RegistryExact, \A c \in Holders : name[c] \in Name,
         UNCHANGED player_names, Holders' = Holders,
         \A c \in Holders : name'[c] = name[c]
  PROVE  RegistryExact' /\ \A c \in Holders' : name'[c] \in Name
<1>1. Names(player_names)' = Names(player_names)
  BY DEF Names, Slots
<1>2. {name'[c] : c \in Holders} = {name[c] : c \in Holders}
  OBVIOUS
<1> QED BY <1>1, <1>2 DEF RegistryExact

\* A player whose name is removed leaves with it.
LEMMA LosesHolder ==
  ASSUME IInv, RegistryExact, \A c \in Holders : name[c] \in Name,
         NEW p \in Holders,
         player_names' = remove_player_name(player_names, name[p]),
         Holders' = Holders \ {p}, UNCHANGED name
  PROVE  /\ RegistryExact' /\ \A c \in Holders' : name'[c] \in Name
         /\ Names(player_names)' = Names(player_names) \ {name[p]}
<1>1. /\ player_names \in Seq(Name \cup {NULL})
      /\ \A i, j \in DOMAIN player_names :
           player_names[i] = name[p] /\ player_names[j] = name[p] => i = j
  BY NullAssumption DEF IInv, TypeOK, UniqueNames
<1>2. Names(player_names') = Names(player_names) \ {name[p]}
  BY <1>1, RemoveNames
<1>3. {name[c] : c \in Holders \ {p}} = {name[c] : c \in Holders} \ {name[p]}
  BY DEF RegistryExact
<1> QED BY <1>2, <1>3 DEF RegistryExact

LEMMA InitRegistry == Init => RegistryExact /\ NamesKnown
<1> SUFFICES ASSUME Init PROVE RegistryExact /\ NamesKnown
  OBVIOUS
<1>1. Names(player_names) = {}
  BY DEF Init, Names, Slots
<1>2. Holders = {}
  BY ServerAssumption DEF Init, Holders
<1> QED BY <1>1, <1>2 DEF Init, RegistryExact, NamesKnown

\* The login changes the name only of the client it serves, which is not
\* registered until Register.
LEMMA LoginRegistry ==
  ASSUME IInv, Placed, NamesKnown, RegistryExact,
         \/ Accept \/ GetMessageFails \/ LoginInterrupted \/ NotPlay
         \/ (\E n \in Name \cup {NULL} : Play(n))
         \/ Check \/ Refuse \/ Welcome
  PROVE  /\ RegistryExact' /\ NamesKnown'
         /\ UNCHANGED <<player_names, client1, thread, client2>>
         /\ pc # "spawn" /\ pc' # "spawn"
         /\ Holders' = Holders /\ \A c \in Holders : name'[c] = name[c]
<1>1. /\ UNCHANGED <<player_names, client1, thread, client2>>
      /\ pc # "spawn" /\ pc' # "spawn"
      /\ \A c \in Client : c # cur => name'[c] = name[c]
  BY DEF Accept, GetMessageFails, LoginInterrupted, NoMessage, NotPlay,
         Received, Play, Check, Refuse,
         Welcome, Drop, main, games, IInv, TypeOK
<1>2. Holders' = Holders
  BY <1>1 DEF Holders
<1>3. cur \notin Holders
  <2>1. cur # NULL => /\ cur # client1 /\ thread[cur] = "none"
                      /\ \A g \in Client : client2[g] # cur
    BY Apart DEF IInv
  <2> QED BY <1>1, <2>1, ServerAssumption DEF Holders
<1>4. \A c \in Holders : name'[c] = name[c]
  BY <1>1, <1>3 DEF Holders
<1>5. RegistryExact' /\ \A c \in Holders' : name'[c] \in Name
  BY <1>1, <1>2, <1>4, SameHolders DEF NamesKnown
<1>6. pc' \in {"welcome", "register"} => name'[cur'] \in Name
  <2>1. CASE \/ Accept \/ GetMessageFails \/ LoginInterrupted \/ NotPlay \/
                Refuse
             \/ (\E n \in Name \cup {NULL} : Play(n))
    BY <2>1 DEF Accept, GetMessageFails, LoginInterrupted, NoMessage, NotPlay,
                Received, Refuse, Play, Drop, main
  <2>2. CASE Check
    <3>1. cur \in Client /\ name[cur] \in Name \cup {NULL}
      BY <2>2 DEF Check, IInv, TypeOK, LoggingIn
    <3>2. pc' = "welcome" => name[cur] # NULL
      BY <2>2 DEF Check, is_player_name_taken
    <3> QED BY <2>2, <3>1, <3>2 DEF Check
  <2>3. CASE Welcome
    BY <2>3 DEF Welcome, Drop, NamesKnown
  <2> QED BY <2>1, <2>2, <2>3
<1> QED BY <1>1, <1>2, <1>4, <1>5, <1>6 DEF NamesKnown

\* The name that is registered is free: Check said so and it still is.
LEMMA RegisterRegistry ==
  ASSUME IInv, Placed, NamesKnown, RegistryExact, Register
  PROVE  /\ RegistryExact' /\ NamesKnown'
         /\ cur \in Client \ Holders /\ name[cur] \in Name \ Names(player_names)
         /\ Holders' = Holders \cup {cur}
         /\ Names(player_names)' = Names(player_names) \cup {name[cur]}
<1>1. /\ UNCHANGED <<name, thread, client2>>
      /\ pc = "register" /\ cur \in Client
      /\ player_names' = add_player_name(player_names, name[cur])
      /\ \/ client1 = NULL /\ client1' = cur /\ cur' = NULL /\ pc' = "accept"
         \/ client1 # NULL /\ client1' = client1 /\ cur' = cur /\ pc' = "spawn"
  BY DEF Register, games, IInv, LoggingIn
<1>2. /\ name[cur] \in Name /\ name[cur] # NULL
      /\ player_names \in Seq(Name \cup {NULL})
  BY <1>1, NullAssumption DEF NamesKnown, IInv, TypeOK
<1>3. name[cur] \notin Names(player_names)
  BY <1>1, <1>2 DEF IInv, NameIsFree, is_player_name_taken, Names
<1>4. cur \notin Holders
  BY <1>3 DEF RegistryExact
<1>5. Holders' = Holders \cup {cur}
  BY <1>1, ServerAssumption DEF Holders
<1>6. Names(player_names)' = Names(player_names) \cup {name[cur]}
  <2>1. Names(add_player_name(player_names, name[cur]))
          = Names(player_names) \cup {name[cur]}
    BY <1>2, AddNames
  <2> QED BY <1>1, <2>1
<1>7. \A c \in Holders \cup {cur} : name'[c] = name[c]
  BY <1>1
<1>8. {name'[c] : c \in Holders \cup {cur}} = {name[c] : c \in Holders} \cup {name[cur]}
  BY <1>7
<1>9. \A c, d \in Holders \cup {cur} : name[c] = name[d] => c = d
  BY <1>3 DEF RegistryExact
<1>10. RegistryExact'
  BY <1>5, <1>6, <1>7, <1>8, <1>9 DEF RegistryExact
<1>11. NamesKnown'
  BY <1>1, <1>2, <1>5, <1>7 DEF NamesKnown
<1> QED BY <1>1, <1>2, <1>3, <1>4, <1>5, <1>6, <1>10, <1>11

\* The two of a new game go on holding their names.
LEMMA SpawnRegistry ==
  ASSUME IInv, Placed, NamesKnown, RegistryExact, Spawn
  PROVE  RegistryExact' /\ NamesKnown' /\ Holders' = Holders
<1>1. /\ UNCHANGED <<player_names, name>> /\ pc = "spawn" /\ pc' = "accept"
      /\ thread' = [thread EXCEPT ![client1] = "begin1"]
      /\ client2' = [client2 EXCEPT ![client1] = cur]
      /\ cur' = NULL /\ client1' = NULL
      /\ client1 \in Client /\ cur \in Client
      /\ DOMAIN thread = Client /\ DOMAIN client2 = Client
  BY DEF Spawn, IInv, TypeOK, LoggingIn, Placed, MainOK
<1>2. thread[client1] = "none"
  BY <1>1, Apart, ServerAssumption DEF IInv
<1>3. \A g \in Client : /\ thread'[g] = IF g = client1 THEN "begin1" ELSE thread[g]
                        /\ client2'[g] = IF g = client1 THEN cur ELSE client2[g]
  BY <1>1
<1>4. Holders' = Holders
  <2>1. ASSUME NEW c \in Client PROVE c \in Holders' <=> c \in Holders
    BY <1>1, <1>2, <1>3, ServerAssumption DEF Holders
  <2> QED BY <2>1 DEF Holders
<1>5. RegistryExact' /\ \A c \in Holders' : name'[c] \in Name
  BY <1>1, <1>4, SameHolders DEF NamesKnown
<1> QED BY <1>1, <1>4, <1>5 DEF NamesKnown

-----------------------------------------------------------------------------
(* A game and its two names.                                                *)

\* A game thread changes nobody's place but its own, and its players are in no
\* other game and not in the main thread's hands.
LEMMA GameAlone ==
  ASSUME IInv, Placed, NEW g \in Client, GameThread(g) \/ PlayInterrupted(g)
  PROVE  /\ UNCHANGED <<pc, cur, client1, client2>>
         /\ thread[g] # "none"
         /\ thread'[g] # "none"
         /\ \A h \in Client \ {g} : thread'[h] = thread[h]
         /\ g # cur /\ g # client1
         /\ \A h \in Client : client2[h] # g
         /\ client2[g] \in Client
         /\ client2[g] # cur /\ client2[g] # client1
         /\ thread[client2[g]] = "none"
         /\ \A h \in Client : client2[h] = client2[g] => h = g
<1>1. /\ UNCHANGED <<pc, cur, client1, client2>>
      /\ thread[g] # "none"
      /\ thread'[g] # "none"
      /\ \A h \in Client \ {g} : thread'[h] = thread[h]
  BY DEF GameThread, Begin1, Begin2, PlayInterrupted, PlayMessage, PlayDrop,
         Remove1, Remove2, Close1, Close2, Goto, main, IInv, TypeOK
<1>2. /\ cur # NULL => thread[cur] = "none" /\ client2[g] # cur
      /\ client1 # NULL => thread[client1] = "none" /\ client2[g] # client1
      /\ \A h \in Client : thread[h] # "none" =>
           /\ client2[h] \in Client
           /\ thread[client2[h]] = "none"
           /\ \A k \in Client : client2[k] = client2[h] => k = h
  BY Apart DEF IInv
<1>3. \A h \in Client : thread[h] = "none" => client2[h] = NULL
  BY DEF Placed, GamesOK
<1> QED BY <1>1, <1>2, <1>3, ServerAssumption

\* free_game takes each player's own name away, and nothing else a game thread
\* does touches the names of players.
LEMMA GameRegistry ==
  ASSUME IInv, Placed, NamesKnown, RegistryExact,
         NEW g \in Client, GameThread(g) \/ PlayInterrupted(g)
  PROVE  /\ RegistryExact' /\ NamesKnown'
         /\ Remove1(g) =>
              /\ g \in Holders /\ Holders' = Holders \ {g}
              /\ Names(player_names)' = Names(player_names) \ {name[g]}
         /\ Remove2(g) =>
              /\ client2[g] \in Holders /\ Holders' = Holders \ {client2[g]}
              /\ Names(player_names)' = Names(player_names) \ {name[client2[g]]}
         /\ ~Remove1(g) /\ ~Remove2(g) =>
              /\ UNCHANGED player_names
              /\ Holders' = Holders /\ \A c \in Holders : name'[c] = name[c]
              /\ \A h \in Client : thread'[h] \in Listed <=> thread[h] \in Listed
<1>1. /\ UNCHANGED <<pc, cur, client1, client2>>
      /\ thread[g] # "none"
      /\ thread'[g] # "none"
      /\ \A h \in Client \ {g} : thread'[h] = thread[h]
      /\ g # cur /\ g # client1
      /\ \A h \in Client : client2[h] # g
      /\ client2[g] \in Client
      /\ client2[g] # cur /\ client2[g] # client1
      /\ thread[client2[g]] = "none"
      /\ \A h \in Client : client2[h] = client2[g] => h = g
  BY GameAlone
<1> DEFINE held == {"begin1", "begin2", "play", "remove1"}
<1>2. CASE Remove1(g)
  <2>1. /\ player_names' = remove_player_name(player_names, name[g])
        /\ UNCHANGED name /\ thread[g] = "remove1" /\ thread'[g] = "remove2"
    BY <1>2 DEF Remove1, Goto, IInv, TypeOK
  <2>2. g \in Holders /\ Holders' = Holders \ {g}
    BY <1>1, <2>1 DEF Holders
  <2>3. /\ RegistryExact' /\ \A c \in Holders' : name'[c] \in Name
        /\ Names(player_names)' = Names(player_names) \ {name[g]}
    BY <2>1, <2>2, LosesHolder DEF NamesKnown
  <2> QED BY <1>1, <1>2, <2>1, <2>2, <2>3 DEF NamesKnown, Remove2
<1>3. CASE Remove2(g)
  <2>1. /\ player_names' = remove_player_name(player_names, name[client2[g]])
        /\ UNCHANGED name /\ thread[g] = "remove2" /\ thread'[g] = "close1"
    BY <1>3 DEF Remove2, Goto, IInv, TypeOK
  <2>2. client2[g] \in Holders /\ Holders' = Holders \ {client2[g]}
    BY <1>1, <2>1 DEF Holders
  <2>3. /\ RegistryExact' /\ \A c \in Holders' : name'[c] \in Name
        /\ Names(player_names)' = Names(player_names) \ {name[client2[g]]}
    BY <2>1, <2>2, LosesHolder DEF NamesKnown
  <2> QED BY <1>1, <1>3, <2>1, <2>2, <2>3 DEF NamesKnown, Remove1
<1>4. CASE ~Remove1(g) /\ ~Remove2(g)
  <2>1. /\ UNCHANGED player_names
        /\ thread[g] \in held <=> thread'[g] \in held
        /\ thread[g] # "remove2" /\ thread'[g] # "remove2"
    BY <1>4 DEF GameThread, Begin1, Begin2, PlayInterrupted, PlayMessage,
         PlayDrop, Close1, Close2, Goto, IInv, TypeOK
  <2>2. \A c \in Client : name'[c] = name[c] \/ (c \in Players(g) /\ Close2(g))
    BY <1>4 DEF GameThread, Begin1, Begin2, PlayInterrupted, PlayMessage,
         PlayDrop, Close1, Close2, IInv, TypeOK
  <2>3. Holders' = Holders
    BY <1>1, <2>1 DEF Holders
  <2>4. Close2(g) => g \notin Holders /\ client2[g] \notin Holders
    BY <1>1 DEF Close2, Holders
  <2>5. \A c \in Holders : name'[c] = name[c]
    BY <2>2, <2>4 DEF Holders, Players
  <2>6. RegistryExact' /\ \A c \in Holders' : name'[c] \in Name
    BY <2>1, <2>3, <2>5, SameHolders DEF NamesKnown
  <2>7. pc \in {"check", "refuse", "welcome", "register"} => name'[cur] = name[cur]
    BY <1>1, <2>2 DEF Players, IInv, LoggingIn
  <2>8. \A h \in Client : thread'[h] \in Listed <=> thread[h] \in Listed
    BY <1>1, <2>1 DEF Listed
  <2> QED BY <1>1, <1>4, <2>1, <2>3, <2>5, <2>6, <2>7, <2>8 DEF NamesKnown
<1> QED BY <1>2, <1>3, <1>4

LEMMA NextRegistry ==
  IInv /\ Placed /\ NamesKnown /\ RegistryExact /\ [Next]_vars
    => NamesKnown' /\ RegistryExact'
<1> SUFFICES ASSUME IInv, Placed, NamesKnown, RegistryExact, [Next]_vars
             PROVE  NamesKnown' /\ RegistryExact'
  OBVIOUS
<1>1. ASSUME UNCHANGED <<player_names, main, name, games>>
      PROVE  NamesKnown' /\ RegistryExact'
  BY <1>1 DEF main, games, NamesKnown, RegistryExact, Holders, Names, Slots
<1>2. CASE UNCHANGED vars
  BY <1>1, <1>2 DEF vars
<1>3. CASE Acceptor \/ LoginInterrupted
  BY <1>3, LoginRegistry, RegisterRegistry, SpawnRegistry DEF Acceptor
<1>4. CASE \E c \in Client : GameThread(c) \/ PlayInterrupted(c)
  BY <1>4, GameRegistry
<1>5. CASE \E c \in Client : \/ Connect(c) \/ ClientSend(c)
                            \/ ClientClose(c) \/ ConnectionReset(c)
  BY <1>1, <1>5 DEF Connect, ClientSend, ClientClose, ConnectionReset
<1> QED BY <1>2, <1>3, <1>4, <1>5 DEF Next

-----------------------------------------------------------------------------
(* How long the array is.                                                   *)

\* The array grows only when every slot holds the name of a player, so that
\* one player more than ever before is the reason.
LEMMA NextSlots ==
  IInv /\ Placed /\ NamesKnown /\ RegistryExact /\ SlotsReused /\ [Next]_vars
    => SlotsReused'
<1> SUFFICES ASSUME IInv, Placed, NamesKnown, RegistryExact, SlotsReused,
                    [Next]_vars
             PROVE  SlotsReused'
  OBVIOUS
<1>1. player_names \in Seq(Name \cup {NULL})
  BY DEF IInv, TypeOK
<1>2. CASE Register
  <2> DEFINE used == Cardinality(Names(player_names'))
  <2>1. /\ player_names' = add_player_name(player_names, name[cur])
        /\ peak' = IF used > peak THEN used ELSE peak
    BY <1>2 DEF Register
  <2>2. /\ name[cur] \in Name \ Names(player_names)
        /\ Names(player_names') = Names(player_names) \cup {name[cur]}
    BY <1>2, RegisterRegistry
  <2>3. IInv'
    BY NextInv
  <2>4. /\ player_names' \in Seq(Name \cup {NULL})
        /\ used \in Nat /\ used <= Len(player_names')
    <3>1. /\ player_names' \in Seq(Name \cup {NULL})
          /\ \A i, j \in DOMAIN player_names' :
               player_names'[i] # NULL /\ player_names'[i] = player_names'[j]
                 => i = j
      BY <2>3 DEF IInv, TypeOK, UniqueNames
    <3> QED BY <3>1, Crowd
  <2>5. CASE Slots(player_names, NULL) = {}
    <3>1. Len(player_names') = Len(player_names) + 1
      BY <1>1, <2>1, <2>2, <2>5, NullAssumption DEF add_player_name
    <3>2. /\ IsFiniteSet(Names(player_names))
          /\ Cardinality(Names(player_names)) = Len(player_names)
      BY <1>1, <2>5, Crowd DEF IInv, UniqueNames
    <3>3. used = Len(player_names) + 1
      BY <2>2, <3>2, FS_AddElement
    <3> QED BY <1>1, <2>1, <3>1, <3>3 DEF SlotsReused
  <2>6. CASE Slots(player_names, NULL) # {}
    <3> DEFINE i == First(Slots(player_names, NULL))
    <3>1. player_names' = [player_names EXCEPT ![i] = name[cur]]
      BY <2>1, <2>2, <2>6, NullAssumption DEF add_player_name
    <3> HIDE DEF i
    <3>2. DOMAIN player_names' = DOMAIN player_names
      BY <3>1
    <3>3. Len(player_names') = Len(player_names)
      BY <1>1, <2>4, <3>2, LenProperties
    <3>4. ~(used > peak)
      BY <1>1, <2>4, <3>3 DEF SlotsReused
    <3> QED BY <2>1, <3>3, <3>4 DEF SlotsReused
  <2> QED BY <2>5, <2>6
<1>3. CASE \E g \in Client : Remove1(g) \/ Remove2(g)
  <2>1. PICK n : player_names' = remove_player_name(player_names, n)
    BY <1>3 DEF Remove1, Remove2
  <2>2. /\ player_names' \in Seq(Name \cup {NULL})
        /\ DOMAIN player_names' = DOMAIN player_names
    BY <1>1, <2>1, RemoveFrees
  <2>3. Len(player_names') = Len(player_names)
    BY <1>1, <2>2, LenProperties
  <2>4. peak' = peak
    BY <1>3 DEF Remove1, Remove2, history
  <2> QED BY <2>3, <2>4 DEF SlotsReused
<1>4. CASE UNCHANGED <<player_names, history>>
  BY <1>4 DEF history, SlotsReused
<1>5. ASSUME ~Register, ~\E g \in Client : Remove1(g) \/ Remove2(g)
      PROVE  UNCHANGED <<player_names, history>>
  <2>1. CASE UNCHANGED vars
    BY <2>1 DEF vars
  <2>2. CASE Acceptor \/ LoginInterrupted
    BY <1>5, <2>2 DEF Acceptor, Accept, GetMessageFails, LoginInterrupted,
                      NoMessage, NotPlay, Play, Check,
         Refuse, Welcome, Spawn
  <2>3. CASE \E c \in Client : GameThread(c) \/ PlayInterrupted(c)
    BY <1>5, <2>3 DEF GameThread, PlayInterrupted, Begin1, Begin2, PlayMessage,
         PlayDrop, Close1, Close2
  <2>4. CASE \E c \in Client : \/ Connect(c) \/ ClientSend(c)
                              \/ ClientClose(c) \/ ConnectionReset(c)
    BY <2>4 DEF Connect, ClientSend, ClientClose, ConnectionReset
  <2> QED BY <2>1, <2>2, <2>3, <2>4 DEF Next
<1> QED BY <1>2, <1>3, <1>4, <1>5

-----------------------------------------------------------------------------
(* The theorems.                                                            *)

OInv == IInv /\ Placed /\ SocketsOwned /\ NamesKnown /\ RegistryExact /\ SlotsReused

LEMMA Ownership == Spec => []OInv
<1>1. Init => OInv
  <2>1. Init => SlotsReused
    BY DEF Init, SlotsReused
  <2> QED BY <2>1, InitInv, InitPlaced, InitSockets, InitRegistry DEF OInv
<1>2. OInv /\ [Next]_vars => OInv'
  BY NextInv, NextPlaced, NextSockets, NextRegistry, NextSlots DEF OInv
<1> QED BY <1>1, <1>2, PTL DEF Spec

\* Exactly the names of the players who wait and play are registered, for any
\* number of clients, names and games: no exit of get_client leaves a name
\* behind, and free_game never frees one that somebody else has since taken.
THEOREM NamesOfPlayers == Spec => []RegistryExact
<1>1. OInv => RegistryExact
  BY DEF OInv
<1> QED BY <1>1, Ownership, PTL

\* Every open socket has one owner that will close it, however the game
\* threads interleave with the main thread.
THEOREM SocketsHaveOwners == Spec => []SocketsOwned
<1>1. OInv => SocketsOwned
  BY DEF OInv
<1> QED BY <1>1, Ownership, PTL

\* The array is never longer than the most names there were at one time.
THEOREM SlotsAreReused == Spec => []SlotsReused
<1>1. OInv => SlotsReused
  BY DEF OInv
<1> QED BY <1>1, Ownership, PTL

-----------------------------------------------------------------------------
(* The lobby.                                                               *)

LEMMA ThePairs ==
  /\ \A p : p \in Pairs <=> \/ \E g \in Client : /\ thread[g] \in Listed
                                                 /\ p = <<g, client2[g]>>
                            \/ pc = "spawn" /\ p = <<client1, cur>>
  /\ \A p : p \in Pairs' <=> \/ \E g \in Client : /\ thread'[g] \in Listed
                                                  /\ p = <<g, client2'[g]>>
                             \/ pc' = "spawn" /\ p = <<client1', cur'>>
  BY DEF Pairs, Listed

\* A step that changes no name, no holder and no pair is no step of the lobby.
LEMMA NothingHappens ==
  ASSUME UNCHANGED player_names,
         Holders' = Holders, \A c \in Holders : name'[c] = name[c],
         (IF pc = "spawn" THEN NULL ELSE client1)'
           = IF pc = "spawn" THEN NULL ELSE client1,
         Pairs' = Pairs
  PROVE  UNCHANGED LobbyView!vars
<1>1. Names(player_names)' = Names(player_names)
  BY DEF Names, Slots
<1> QED BY <1>1 DEF LobbyView!vars

LEMMA InitLobby == Init => LobbyView!Init
<1> SUFFICES ASSUME Init PROVE LobbyView!Init
  OBVIOUS
<1>1. Names(player_names) = {}
  BY DEF Init, Names, Slots
<1>2. Holders = {}
  BY ServerAssumption DEF Init, Holders
<1>3. Pairs = {}
  BY DEF Init, Pairs
<1> QED BY <1>1, <1>2, <1>3 DEF Init, LobbyView!Init

\* add_player_name is where a client is let in, under a name nobody has.
LEMMA RegisterJoins ==
  ASSUME OInv, Register,
         NEW c \in Client, c = cur, NEW n \in Name, n = name[cur]
  PROVE  LobbyView!Join(c, n)
<1>1. /\ UNCHANGED <<name, thread, client2>>
      /\ pc = "register"
      /\ \/ client1 = NULL /\ client1' = cur /\ cur' = NULL /\ pc' = "accept"
         \/ client1 # NULL /\ client1' = client1 /\ cur' = cur /\ pc' = "spawn"
  BY DEF Register, games
<1>2. /\ cur \in Client \ Holders /\ name[cur] \in Name \ Names(player_names)
      /\ Holders' = Holders \cup {cur}
      /\ Names(player_names)' = Names(player_names) \cup {name[cur]}
  BY RegisterRegistry DEF OInv
<1>3. thread[cur] = "none" /\ \A g \in Client : client2[g] # cur
  BY <1>2, Apart, ServerAssumption DEF OInv, IInv
<1>4. \A p \in Pairs : cur \notin {p[1], p[2]}
  <2>1. ASSUME NEW p \in Pairs PROVE cur \notin {p[1], p[2]}
    <3>1. PICK g \in Client : thread[g] \in Listed /\ p = <<g, client2[g]>>
      BY <1>1, ThePairs
    <3> QED BY <1>3, <3>1 DEF Listed
  <2> QED BY <2>1
<1>5. [d \in Client |-> IF d \in Holders THEN name[d] ELSE NULL]'
        = [[d \in Client |-> IF d \in Holders THEN name[d] ELSE NULL]
             EXCEPT ![cur] = name[cur]]
  BY <1>1, <1>2
<1>6. IF client1 = NULL THEN client1' = cur /\ pc' # "spawn" /\ Pairs' = Pairs
      ELSE pc' = "spawn" /\ Pairs' = Pairs \cup {<<client1, cur>>}
  BY <1>1, <1>2, ThePairs, ServerAssumption
<1> QED
  BY <1>1, <1>2, <1>4, <1>5, <1>6 DEF LobbyView!Join

\* The two removals of free_game.
LEMMA RemoveEnds ==
  ASSUME OInv, NEW g \in Client, Remove1(g) \/ Remove2(g),
         NEW p, p = <<g, client2[g]>>
  PROVE  p \in Pairs /\ (LobbyView!EndFirst(p) \/ LobbyView!EndSecond(p))
<1> DEFINE called == [c \in Client |-> IF c \in Holders THEN name[c] ELSE NULL]
<1>1. /\ UNCHANGED <<pc, cur, client1, client2, name>>
      /\ \A h \in Client \ {g} : thread'[h] = thread[h]
      /\ g # client1 /\ client2[g] \in Client
      /\ \A h \in Client : client2[h] # g
  BY GameAlone DEF OInv, GameThread, Remove1, Remove2
<1>2. p \in Pairs
  BY ThePairs DEF Remove1, Remove2, Listed
<1>3. \A c \in Holders : name[c] \in Name /\ name[c] # NULL
  BY NullAssumption DEF OInv, NamesKnown
<1>4. CASE Remove1(g)
  <2>1. /\ g \in Holders /\ Holders' = Holders \ {g}
        /\ Names(player_names)' = Names(player_names) \ {name[g]}
    BY <1>4, GameRegistry DEF OInv, GameThread
  <2>2. thread[g] = "remove1" /\ thread'[g] = "remove2"
    BY <1>4 DEF Remove1, Goto, OInv, IInv, TypeOK
  <2>3. called[g] = name[g] /\ called' = [called EXCEPT ![g] = NULL]
    BY <1>1, <2>1
  <2>4. Pairs' = Pairs
    <3>1. \A h \in Client : thread'[h] \in Listed <=> thread[h] \in Listed
      BY <1>1, <2>2 DEF Listed
    <3>2. \A q : q \in Pairs' <=> q \in Pairs
      BY <1>1, <3>1, ThePairs
    <3> QED BY <3>2 DEF Pairs
  <2> HIDE DEF called
  <2>5. LobbyView!EndFirst(p)
    BY <1>1, <1>3, <2>1, <2>3, <2>4
    DEF LobbyView!EndFirst, LobbyView!GiveBack, called
  <2> QED BY <1>2, <2>5
<1>5. CASE Remove2(g)
  <2>1. /\ client2[g] \in Holders /\ Holders' = Holders \ {client2[g]}
        /\ Names(player_names)' = Names(player_names) \ {name[client2[g]]}
    BY <1>5, GameRegistry DEF OInv, GameThread
  <2>2. thread[g] = "remove2" /\ thread'[g] = "close1"
    BY <1>5 DEF Remove2, Goto, OInv, IInv, TypeOK
  <2>3. /\ called[client2[g]] = name[client2[g]]
        /\ called' = [called EXCEPT ![client2[g]] = NULL]
    BY <1>1, <2>1
  <2>4. g \notin Holders
    BY <1>1, <2>2, GameAlone DEF Holders, OInv, GameThread
  <2>5. Pairs' = Pairs \ {p}
    <3>1. \A h \in Client : thread'[h] \in Listed <=> thread[h] \in Listed /\ h # g
      BY <1>1, <2>2 DEF Listed
    <3>2. <<client1, cur>> # p
      BY <1>1
    <3>3. \A q : q \in Pairs' <=> q \in Pairs /\ q # p
      BY <1>1, <3>1, <3>2, ThePairs
    <3> QED BY <3>3 DEF Pairs
  <2> HIDE DEF called
  <2>6. LobbyView!EndSecond(p)
    BY <1>1, <1>3, <2>1, <2>3, <2>4, <2>5
    DEF LobbyView!EndSecond, LobbyView!GiveBack, called
  <2> QED BY <1>2, <2>6
<1> QED BY <1>4, <1>5

LEMMA MainLobby ==
  ASSUME OInv, Acceptor \/ LoginInterrupted PROVE [LobbyView!Next]_LobbyView!vars
<1>1. CASE \/ Accept \/ GetMessageFails \/ LoginInterrupted \/ NotPlay \/
              (\E n \in Name \cup {NULL} : Play(n))
           \/ Check \/ Refuse \/ Welcome
  <2>1. /\ UNCHANGED <<player_names, client1, thread, client2>>
        /\ pc # "spawn" /\ pc' # "spawn"
        /\ Holders' = Holders /\ \A c \in Holders : name'[c] = name[c]
    BY <1>1, LoginRegistry DEF OInv
  <2>2. Pairs' = Pairs
    BY <2>1 DEF Pairs
  <2> QED BY <2>1, <2>2, NothingHappens
<1>2. CASE Register
  <2>1. cur \in Client /\ name[cur] \in Name
    BY <1>2, RegisterRegistry DEF OInv
  <2>2. PICK c \in Client, n \in Name : c = cur /\ n = name[cur]
    BY <2>1
  <2>3. LobbyView!Join(c, n)
    BY <1>2, <2>2, RegisterJoins
  <2> QED BY <2>3 DEF LobbyView!Next
<1>3. CASE Spawn
  <2>1. /\ UNCHANGED <<player_names, name>> /\ pc = "spawn" /\ pc' = "accept"
        /\ thread' = [thread EXCEPT ![client1] = "begin1"]
        /\ client2' = [client2 EXCEPT ![client1] = cur]
        /\ client1' = NULL
        /\ client1 \in Client
        /\ DOMAIN thread = Client /\ DOMAIN client2 = Client
    BY <1>3 DEF Spawn, OInv, IInv, TypeOK, Placed, MainOK
  <2>2. Holders' = Holders
    BY <1>3, SpawnRegistry DEF OInv
  <2>3. thread[client1] = "none"
    BY <2>1, Apart, ServerAssumption DEF OInv, IInv
  <2>4. \A g \in Client : /\ thread'[g] = IF g = client1 THEN "begin1" ELSE thread[g]
                          /\ client2'[g] = IF g = client1 THEN cur ELSE client2[g]
    BY <2>1
  <2>5. \A p : p \in Pairs' <=> p \in Pairs
    BY <2>1, <2>3, <2>4, ThePairs DEF Listed
  <2>6. Pairs' = Pairs
    BY <2>5 DEF Pairs
  <2> QED BY <2>1, <2>2, <2>6, NothingHappens
<1> QED BY <1>1, <1>2, <1>3 DEF Acceptor

LEMMA GameLobby ==
  ASSUME OInv, NEW g \in Client, GameThread(g) \/ PlayInterrupted(g)
  PROVE  [LobbyView!Next]_LobbyView!vars
<1>1. CASE Remove1(g) \/ Remove2(g)
  <2>1. PICK p : p = <<g, client2[g]>>
    OBVIOUS
  <2>2. p \in Pairs /\ (LobbyView!EndFirst(p) \/ LobbyView!EndSecond(p))
    BY <1>1, <2>1, RemoveEnds
  <2> QED BY <2>2 DEF LobbyView!Next
<1>2. CASE ~Remove1(g) /\ ~Remove2(g)
  <2>1. /\ UNCHANGED player_names
        /\ Holders' = Holders /\ \A c \in Holders : name'[c] = name[c]
        /\ \A h \in Client : thread'[h] \in Listed <=> thread[h] \in Listed
    BY <1>2, GameRegistry DEF OInv
  <2>2. UNCHANGED <<pc, cur, client1, client2>>
    BY GameAlone DEF OInv
  <2>3. \A p : p \in Pairs' <=> p \in Pairs
    BY <2>1, <2>2, ThePairs
  <2>4. Pairs' = Pairs
    BY <2>3 DEF Pairs
  <2> QED BY <2>1, <2>2, <2>4, NothingHappens
<1> QED BY <1>1, <1>2

LEMMA NextLobby == OInv /\ [Next]_vars => [LobbyView!Next]_LobbyView!vars
<1> SUFFICES ASSUME OInv, [Next]_vars PROVE [LobbyView!Next]_LobbyView!vars
  OBVIOUS
<1>1. ASSUME UNCHANGED <<player_names, main, name, games>>
      PROVE  UNCHANGED LobbyView!vars
  <2>1. Holders' = Holders /\ Pairs' = Pairs
    BY <1>1 DEF main, games, Holders, Pairs
  <2> QED BY <1>1, <2>1, NothingHappens DEF main
<1>2. CASE UNCHANGED vars
  BY <1>1, <1>2 DEF vars
<1>3. CASE Acceptor \/ LoginInterrupted
  BY <1>3, MainLobby
<1>4. CASE \E c \in Client : GameThread(c) \/ PlayInterrupted(c)
  BY <1>4, GameLobby
<1>5. CASE \E c \in Client : \/ Connect(c) \/ ClientSend(c)
                            \/ ClientClose(c) \/ ConnectionReset(c)
  BY <1>1, <1>5 DEF Connect, ClientSend, ClientClose, ConnectionReset
<1> QED BY <1>2, <1>3, <1>4, <1>5 DEF Next

\* get_client, simulate_server and free_game, interleaved in any way, for any
\* number of clients, names and games, do nothing but let clients in under free
\* names, pair the one that waits with the next, and give names back.
THEOREM ImplementsLobby == Spec => KeepsTheLobby
  BY InitLobby, NextLobby, Ownership, PTL DEF Spec, KeepsTheLobby, LobbyView!Spec
=============================================================================
