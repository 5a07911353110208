# Verification of the online tic-tac-toe server

The repository is a server (`ttts`) that pairs clients and runs one game of
tic-tac-toe per pair, an interactive client (`ttt`), a scripted test driver
(`test`), and the code they share. This directory holds TLA+ models of it, the
configurations that check them with TLC, and proofs checked with TLAPS.

All modules are translated from the code; `requirements.txt` is used only as
the statement of what the code is meant to do.

## 1. Inventory

| Component | State | Operations | Talks to | Modelled in |
| --- | --- | --- | --- | --- |
| Grid and rules (`make_move`, `get_game_status` in `ttts.c`) | `char board[10]` | claim a cell, recognise a line or a full grid | called by the game thread | `Board`, abstract `TicTacToe` |
| Game thread (`handle_game`, `free_game`) | board, turn, draw flags, two message buffers, two sockets | choose a client, get a message, one handler per message, the writes, the closes | both clients over TCP, name list | `Game` |
| Main thread (`simulate_server`, `get_client`) | the client being logged in, the one that waits | accept, login loop, refuse, WAIT, register, start a game thread | clients, name list, game threads | `Server`, abstract `Lobby` |
| Name list (`add_player_name`, `remove_player_name`, `is_player_name_taken`) | `player_names`, its length, `players_mutex` | add, remove, look up | main thread and every game thread | `PlayerNames`; step by step `NameLocks`, abstract `NameService` |
| Message stream (`get_message` in `msg.h`, `receive_message` in `net.c`) | bytes read and not yet returned | read until quiet, return the first message | main thread, game threads, sockets | `MessageStream` |
| Parsing and framing (`is_complete_msg`, `get_remaining_bytes`, `check_num_of_bars`, `parse_*` in `msg.h`, `strTokenize`) | none | decide what is a message and of what kind | message stream, handlers | `Messages`, `Framing`; its outcome in `MessageStream`, `Game`, `Server` |
| Socket layer (`net.c`) | file descriptors | accept, read, write, poll | all of the above | as steps of its callers |
| Signals (`setup_signal_handlers`, `term`) | none | handled without `SA_RESTART`, `SIGPIPE` ignored | interrupt `poll` in game threads, reads in the login and reads in `ttt` | `PollInterrupted`, `PlayInterrupted`, `LoginInterrupted`, `read_interrupted`, `ReadInterrupted` |
| Interactive client (`ttt.c`) | one socket, a writer and a reader thread | copy input to the server, copy messages to the screen | server | `Client`; in `Game` and `Server` as a client that writes anything at any time |
| Test driver (`test.c`) | `game_mutex`, `game_role`, twelve threads | take turns to log in, play scripted games, check every reply | server | `TestScripts`, `TestDriver` |
| Scripted commands (`commands.h`) | none | build messages, check messages, wait for the close | test driver | `Messages`, `Framing`, `TestScripts` |
| Helpers | none | tokenizer, reading a line | all | `strTokenize` in `Framing`, `read_file` in `Client` |
| Logging, build files | none | printing | all | not modelled |

What is hard here:

- **Interleaving with the clients.** Between any two system calls of a game
  thread either client may write, close or reset. A handler makes up to two
  writes and leaves the loop at the first that fails, so any decision the
  handler made before may have reached both clients, one or none.
- **Interleaving on the name list.** The main thread looks a name up in one
  critical section and adds it in another, writing WAIT in between; game threads
  free names *by value* at any time.
- **Read-ahead.** One read may return several messages, one message may need
  several reads; what is left stays in a buffer that the login passes on to the
  game thread.
- **Time.** `get_message` decides that a message is malformed when the connection
  has been quiet for 501 ms, and waits without limit for the first byte.
- **Blocking.** The main thread logs in one connection at a time.
- **Messages that cross.** What a client knows when it writes may be out of date
  when the thread reads it, and a close with unread input resets the connection.
- **Checks on the whole buffer.** Whether the first message is complete is decided by
  a tokenizer that joins bars and is given everything that was read.
- **Locks and turns.** Three functions with nine releases between them share one mutex; twelve
  test threads take turns with another, and a failed check exits with it held.
- **Signals without `SA_RESTART`** end a read in the middle of a line.

What makes each component correct:

- *Rules*: marks are made in turn, on empty cells, with no draw on offer; a draw is
  agreed only by the opponent of the one who suggested it; a line wins, a full
  grid without one is a draw; nothing happens after the result.
- *Game thread*: what the clients were shown (grid, offer, outcome) is what the
  server believes whenever it listens; no message after OVER; a decided or
  abandoned game ends and closes both sockets.
- *Name list and login*: exactly the names of waiting and playing clients are
  registered, once each; every open socket has one owner that will close it;
  clients are paired in the order they registered.
- *Stream*: no message lost, repeated or reordered; no client cut off while its
  messages are complete.
- *Framing*: a message is found exactly when its last byte is there, whatever
  follows; what is acted on is well-formed; both ends agree on every message.
- *Test driver*: no check fails because of an interleaving; everyone is paired as
  scripted and finishes.
- *Interactive client*: whole lines go out in order, what comes in is shown in
  order, and the program ends.

`PROJECT.json` lists the hazards line by line with the properties that cover
them, including the three that none covers, with the reason.

## 2. Modules

    Board -----> Game <----- MCGame          Game -- Rules! --> TicTacToe
                   ^------- GameProofs
                   ^------- Exchange <- FairPlay, TestScripts <- Matches
    Matches, GameProofs <- FairPlayProofs
    PlayerNames -> Server <- ServerLobby <- MCServer
                   ^                         ServerLobby -- LobbyView! --> Lobby
                   ^                         ServerLobby <- ServerProofs
                   ^------- TestDriver <- MCTestDriver
    PlayerNames <- PlayerNamesProofs <- ServerProofs, NameLocksProofs
    TestDriver, ServerProofs <- TestDriverProofs
    PlayerNames -> NameService <-- Service! -- NameLocks <- MCNameLocks
                                               ^------- NameLocksProofs
    MessageStream <-------- MCMessageStream, StreamProofs
    Messages -> Framing <-- MCFraming
    Client <--------------- MCClient, ClientProofs

An arrow with a name is a refinement mapping, the others are EXTENDS.

**Board** has the grid functions of the code: `LineOrder` is the order in which
`get_game_status` tests the eight lines (it matters, as the code names as winner
the mark of the first line it finds), `Claim` and `CanClaim` are `make_move`.

**TicTacToe** is what a game promises: five actions (move, suggest, reject,
accept, resign) over the grid, whose turn it is, the offer and the result. It defines a
line by geometry, not by the code's list.

**Game** is `handle_game` from the moment both clients are known. Its variables
keep the names of the C variables (`board`, `turn`, `is_draw_suggested`,
`draw_response_index`, `index`, `msg_buffer`). `pc` says where the thread is:
`poll` (choosing a client), `recv` (in `get_message` and the handler), `send`
(in the writes), `free` (in `free_game`). One action is one handler up to its
first write; the writes it still has to do are queued in `outq` and done one per
step (`Send`), or not at all once one fails (`SendFails`); `after` is what the
handler does after the last one, since the code changes `turn` and the draw
flags only then. History variables record what each client was told.
A write fails on a reset connection and succeeds on one that was merely
closed, as the first write to a closed peer does.

**Server** is the whole process: the main thread step by step (`Accept`, `Play`,
`NotPlay`, `Check`, `Refuse`, `Welcome`, `Register`, `Spawn` and the exits), and
game threads from the outside (BEGN to both, play, two removals, two closes). A
signal that ends the blocked read of a login (`LoginInterrupted`) is answered with
INVL and a close like any failed read, and a PLAY from which no name is
taken (too few fields) is looked up as a missing name, which counts as in use. The
three functions on the name list come from **PlayerNames**, where each is one
operator because each holds `players_mutex` from beginning to end.

**NameLocks** justifies that: it has the same three functions a step at a time
(lock, scan of one slot, the count that runs ahead of `realloc`, the new slot
before it is filled, the string that is freed before its slot is cleared,
unlock), run by the main thread and two game threads. All nine releases are there
(`Exits`), each with a step of its own: for an empty array, for a name found, for
the end of a scan, and for a name that is missing or empty, which
`is_player_name_taken` meets when a PLAY has an empty field. It implements
**NameService**, where a call takes effect at one moment, by the operators of `PlayerNames`.

**Lobby** is the abstract login service: names in use, who waits, who plays
whom; three actions. **ServerLobby** maps the state of `Server` to it: the names in
the array, the players with a name, and the pairs whose names are not all given back.

**Messages** has the messages as sequences of symbols with a width in bytes: the
table `PROTOCOL`, `generate_MOVD` and `generate_BEGN` of the server, the builders of
`commands.h`. **Framing** has `strTokenize`, `to_unsigned_long`, `is_complete_msg`
with `get_remaining_bytes` and `check_num_of_bars`, `get_complete_message`, the four
parsers of the server and the checks of the test driver. Its actions are a read
of the socket and the return of a message.

**Exchange** is `Game` with contents: the thread finds what a client wrote, the
client finds what the thread wrote. A client may write after the server has
closed (`WriteLate`); the server's host answers with a reset, and when that arrives
(`LateReset`) what the client had not read is gone. **TestScripts** adds the twelve scripts of
`test.c` as sequences of steps (tell, expect, wait for the drop, close).
**FairPlay** adds clients that follow `requirements.txt`: they act on the last
grid they saw, ask for one thing at a time and answer every DRAW S once.
**Matches** puts either pair before the thread.

**TestDriver** is `Server` with the threads of `test.c` as its clients: a thread
takes `game_mutex`, looks at `game_role`, logs in, checks the reply and gives the
mutex back; a failed check ends it with the mutex held.

**Client** is `ttt`: its main thread (`read_file` a key at a time, `send_message`, EOF
at every call once the input has ended) and `from_server` with the loop of
`receive_message`, over a connection that may be closed or reset.

**MessageStream** is one call of `get_message` after another on one connection.
The client's bytes go through the network (`wire`), the kernel (`socket`) and the
caller's buffer (`msg_buffer`). A message is two pieces, so that it can be cut;
junk is a run of bytes that is part of no message.

Some definitions in these modules are used by no other: `ChooseByTurn`,
`SendFailsContinues`, `Remove2Twice`, `PopAll` and so on. Each is a plausible
bug in the definition that follows it. Put in that definition's place it makes
the property listed under "mutants" in `PROJECT.json` fail, which shows
that the property depends on that piece of the code.

## 3. Abstractions

- *Contents of a message*: in `Exchange` and what extends it a message is a record.
  In `Game`, `Server` and `MessageStream` contents are chosen when it is parsed, not when it is written.
  Nothing in the program depends on them earlier, so this loses no behaviour. In `Game` a
  message not yet parsed is a number in `inbox` or `msg_buffer`; whether it
  parses at all is chosen too, so it may be the incomplete start of one.
- *Writes do not block.* A client that never reads can block the thread in
  `write`; the size of socket buffers is the operating system's.
- *OVER is received when written* to a live connection in `Game`. In `Exchange` a
  close with unread input may destroy what the client has not read, and so may the
  reset that answers a write after the close.
- *Explanations and grids* in messages are one symbol with the width they have.
- *In `Server`* one number per client stands for both the socket and the buffer,
  as the login reads and the game continues with whatever the login left. A
  game thread's inside is `Game`.
- *Names* are distinct values; their bytes are in `Framing`, as are NUL bytes. For
  `PLAY|||` the code reads past its token list (`msg.h:492`): in `Server` that gives any name
  or none; that the read itself may crash the process is not modelled.
- *The games of `TestDriver`* are cut down to the message that ends them; the
  whole scripts are in `TestScripts`, which starts after the login.
- *Lines of `ttt`* are named by their place in what was typed; the user's keys are
  "key" or "enter".
- *Memory allocation and `pthread_create`* succeed.

## 4. Runs

| Run | Instance | What it asks |
| --- | --- | --- |
| `game_rules` | all nine cells, one unread message per client, no failures | does `handle_game` implement `TicTacToe`: refinement `PlaysByTheRules`, on every grid |
| `game_faults` | five cells, both clients may close or reset, signals | `TypeOK`, `ViewsAgree`, `VerdictsAgree`, `OffersAgree`, `NothingAfterOver`, `OverReachesBoth` |
| `game_live` | two cells, both clients may fail | `DecidedGameEnds`, `DroppedGameEnds`, `MessageTaken` |
| `server_safety` | four clients, three names, all may fail, signals | `TypeOK`, `UniqueNames`, `RegistryExact`, `SlotsReused`, `SocketsOwned`, `PairedInOrder` |
| `server_live` | three clients, two names, two may fail | refinement `KeepsTheLobby`, `DroppedGameReleases` |
| `server_answer` | two clients, none fails | refuted: `PlayAnswered` |
| `stream` | three messages and junk | `NothingLost`, `InOrder`, `FailsOnlyIncomplete`, `MessageReturned` |
| `framing` | four sorts of sender, two to six reads | `FramedExactly`, `ActedOnIsWellFormed`, `NoNameIsTooLong`, `ChecksExact`, `ArrivalKeepsMessage` |
| `name_locks` | main thread, two game threads, three names | `NoWildRead`, refinement `CallsAreAtomic`, `CallsReturn` |
| `matches` | twelve scripts, or two fair clients on five cells | `EveryTestEnds`; `RefusedOnlyWhenCrossed`, `NothingUnexpected`, `RequestsAnswered` |
| `test_driver` | the four threads of the B and C tests | `OnlyNameInUseFails`, `AllPassIfBLasts` |
| `client` | four keys, two messages of the server, signals | `LinesAreWritten`, `ShownInOrder`, `OrderlyEndIsShown`, `ProgramEnds` |

The largest searches are `game_faults` (4.1 million distinct states), `game_rules`
(2.5 million), `server_safety` (0.79 million up to symmetry), `name_locks`
(0.65 million) and `framing` (0.32 million); each ends within about two minutes.

**Bounds.** `Attempts` is the set of cells MOVE messages name. `game_rules` uses
all nine, so every reachable grid occurs. With failures five cells that form a
row and a column (`FiveCells`) are enough: both players can win, a cell can be
occupied, and the failure handling of a move does not look at which cell it was.
A full grid is beyond five cells and is covered by `game_rules`.
Liveness needs only games that go on and games that are decided; two cells and
resignation and draws give both. `MaxInbox` bounds how many messages of a client are
unread at once. One in the socket and one in the buffer are enough for
read-ahead, and there is no order to get wrong among messages whose contents are chosen at
parsing. Four clients make two games that overlap, or one game and two logins;
three names make a collision among them unavoidable when all four play, and allow
a freed name to be taken again while its old game is still being taken down.
Three messages are the least with one being returned, one following in the same read
and one cut in half. Client and name symmetry is used in `server_safety` only,
where all clients are alike and only invariants are checked.
In `server_live` the third client can take a name between the two removals of the
game that ends, which is where a freed name and an old game meet.

`framing` chooses the sender at the start. A login client writes fields, bars,
codes, digits and a name in any order, six at a time, so that every way of leaving
out, repeating or displacing a field of PLAY and RSGN occurs, messages of bars alone
among them; a client in a game writes larger pieces of MOVE and DRAW, well-formed and not,
two with a NUL inside; the server writes each of its messages in two reads, cut inside the
length field, with at most two unread; and one client uses names of 3 and 4 bytes and of both sides
of each bound: 252 and 253 (BEGN states 255, 256), 254 and 255 (PLAY does), 996 and 997 (BEGN has
a length of three digits, of four), and 998, the longest that PLAY can carry.
In `name_locks` the three names with a removal each let the array be empty, grow by
reallocation, have a hole and be full. In `matches` a fair client has at most
three messages unread (a request, an answer and a resignation), so `MaxInbox` 3 never
holds one back; five cells are a grid on which X can win, and the scripts fill all nine.
`test_driver` leaves out the A tests, whose eight threads differ from the B threads
only in what they play. Four keys make two lines and an empty one, with a signal in any place.

**Deadlock.** `Game` checks it: the only state with no step is the end of the
thread, stated as `Terminated`. `Server` and `MessageStream` may really stop,
with every thread waiting for clients that have nothing more to do, so it is off there.
So may `Framing` (no more to read), `Matches` (the game is over) and `Client` (the
program has exited). In `TestDriver` a thread that exits with `game_mutex` held leaves the
others without a step, the case `AllPassIfBLasts` is about. `NameLocks` checks it.

**Fairness.** Weak fairness on the thread in `Game`, on the main thread and on
each game thread in `Server`, on `get_message` and on delivery by TCP in
`MessageStream`. The operating system runs a thread that is not blocked; writes
are taken not to block. No client action is fair: a client need not write, close
or keep quiet. Liveness that needs silent clients says so in its antecedent
(`EventuallyQuiet`, `EventuallySilent`, `OtherQuiet`): `get_readable_socket` and
the buffer test prefer client1, so without it client2 can be starved.
`PollInterrupted`, `PlayInterrupted`, `LoginInterrupted` and the interrupted reads of `Client`
are never fair: nobody has to send a signal.

`NameLocks`: weak fairness on every thread inside a call. `Client`: on both threads,
and on a reset that is on its way (the answer of a host to a write after its close).
`Matches`: on the game thread and on the scripts; a fair client reads what it is sent and answers a
suggestion sooner or later, but need not ask for anything. `LateReset` is not fair there: the
client may read everything before the reset arrives. `TestDriver`: on
every thread of both programs, and strong fairness for the thread whose turn it
is on taking `game_mutex`. POSIX promises no such thing; the threads that
look and give back take the mutex for moments only, and without this assumption
one of them could have it whenever the right one tries.

## 5. Where the code and its documents part

One property is refuted by a run, `server_answer`: F.1 and F.2 of `requirements.txt`,
"Connections are initiated by the client, which sends PLAY." and "In response, the server will
reply with WAIT or INVL." One connection that sends nothing holds the main thread in
`get_message` (`ttts.c:278`), and no later client is ever answered.

Elsewhere a passing property has the exception in it, so that it says how far the
promise reaches:

- `OverReachesBoth`: D.5.c, "the server ends the game and sends OVER to both
  clients." OVER goes to client1 first; when that write fails (`ttts.c:623`) the loop
  breaks and client2, still connected, is closed without it. The property allows this
  case, a reset of the other connection, and no other.
- `MessageReturned`: J.3, "For presentation-level errors, send INVL and then close the
  connection." Data is found malformed after 501 ms of silence; as long as junk keeps
  arriving the loop at `msg.h:101` goes on, and `ttt` does this when its input ends
  (`ttt.c:142`). The property assumes a client that falls silent.
- `RefusedOnlyWhenCrossed`: a client that follows the rules can be told INVL, namely
  when its MOVE or DRAW S crosses the opponent's DRAW S.
- `NothingUnexpected`: such a client can miss OVER and see a reset, namely when
  something it wrote is unread when the server closes (`ttts.c:875`), or when it writes after
  that, not having read OVER yet, and the reset that answers the write arrives first.
- `NoNameIsTooLong`: B.2.b, the length field is a "string containing decimal integer
  0-255", and C.1.c, "else if name too long, then INVL" (`requirements.txt`). Nothing in the code
  bounds names. With 253 or 254 bytes the PLAY is within 255 and the BEGN that tells
  the opponent is not; from 255 bytes on neither is, and the name is still
  accepted, up to 998 bytes, since `is_complete_msg` only asks for three digits.
  With 997 or 998 bytes the BEGN states a length of four digits, which `is_complete_msg`
  refuses: the opponent cannot read it. From 999 on it is the PLAY that is refused.
- `ActedOnIsWellFormed`: J.1.c counts "a message with the wrong number of fields" among
  the presentation-level errors, and J.3 wants INVL and a close. `PLAY|1||`, whose
  name is an empty field, has two tokens where `parse_play` takes the third
  (`msg.h:492`); `strdup` of the repository (`helper.c:415`) makes NULL of the NULL
  after the last token, `is_player_name_taken` counts NULL as taken (`ttts.c:233`), and the client is told
  that the name is in use and may try again. A PLAY of nothing but bars, `PLAY|||`,
  is complete when what follows it passes for its length, and has one token: there `parse_play` reads
  past the list, and whatever lies there is the name. It is the one message in the
  property that is acted on without being well-formed. And the property promises
  bytes that came one after the other only when no NUL byte was read:
  `receive_and_add` drops the rest of a read from the NUL on (`msg.h:146`), and joins what is left.
- `ArrivalKeepsMessage`: it is about messages that hold their own length field. When the
  first message has only bars after its code, the second token of the buffer comes
  from what follows it, contrary to the comment at `msg.h:295`. And a length field
  without digits counts as 0 (`strtoull`), so `ActedOnIsWellFormed` compares the value that
  was converted, not a decimal numeral as B.2.b would have it.
- `AllPassIfBLasts`: `README.txt` B.6 says the twelve clients finish. They do if Jay Brown is
  still playing when C_client_1 asks for that name, and in practice the B test takes longer than
  that. Nothing orders the two: were B's game over, the check would fail and the
  thread exit with `game_mutex` held (`OnlyNameInUseFails` says no other check can fail).
- `ShownInOrder`: a reset between two reads of `receive_message` destroys what the
  first returned (`net.c:254`), so the end of what the server wrote may be missing.

## 6. Proofs

The proof modules prove their theorems for all values of the constants. They assume
only what the modules name: that bounds are numbers, that sets are subsets
(`GameAssumption`, `ServerAssumption`, `StreamAssumption`, `ClientAssumption`), that the special values (`NULL`, the main
thread, the two states of a slot that is not a name, junk) are none of the
ordinary ones (`NullAssumption`, `LocksAssumption`, `StreamAssumption`), and that there is a name to
call the functions with (`Name # {}` in `LocksAssumption`, for the initial value of `arg`). Nothing
bounds the clients, names, threads, games or messages. The clients of the test driver are those of `test.c`:
`WholeTests` says that they are one of its tests or several in a row, which is how `main` starts them.

The inductive invariants below were checked by TLC on the instances of section 4 before they were proved.

| Theorem | Property | Module | Inductive invariant |
| --- | --- | --- | --- |
| `TypeCorrect`, `Verdicts`, `OverIsLast` | `TypeOK`, `VerdictsAgree`, `NothingAfterOver` | `GameProofs` | `IInv` |
| `Views`, `Offers` | `ViewsAgree`, `OffersAgree` | `GameProofs` | `ViewsOwed`, `OffersOwed` over `IInv` |
| `ImplementsRules` | `PlaysByTheRules` (refinement of `TicTacToe`) | `GameProofs` | `RInv` over `IInv` |
| `OverSent` | `OverReachesBoth` | `GameProofs` | `OverOwed` over `IInv` |
| `TypeCorrect`, `NamesAreUnique` | `TypeOK`, `UniqueNames` | `ServerProofs` | `IInv` |
| `Pairing` | `PairedInOrder` | `ServerProofs` | `Placed` over `IInv` |
| `SocketsHaveOwners`, `NamesOfPlayers`, `SlotsAreReused` | `SocketsOwned`, `RegistryExact`, `SlotsReused` | `ServerProofs` | `OInv` |
| `ImplementsLobby` | `KeepsTheLobby` (refinement of `Lobby`) | `ServerProofs` | `OInv` |
| `MutualExclusion`, `ReadsAreSafe` | `NoWildRead` | `NameLocksProofs` | `LInv` |
| `FunctionsAreAtomic` | `CallsAreAtomic` (refinement of `NameService`) | `NameLocksProofs` | `LInv` |
| `WholeStream`, `ReturnedInOrder` | `NothingLost`, `InOrder` | `StreamProofs` | `SInv` |
| `FailsForNoMessage` | `FailsOnlyIncomplete` (of steps) | `StreamProofs` | `SInv` (the buffer is empty while the first byte is waited for) |
| `WholeLines`, `PiecesInOrder` | `LinesAreWritten`, `ShownInOrder` | `ClientProofs` | `CInv` |
| `OnlyTheEarlyOneFails` | `OnlyNameInUseFails` | `TestDriverProofs` | `DInv` over `OInv` |
| `RefusedIfCrossed`, `AllExpected` | `RefusedOnlyWhenCrossed`, `NothingUnexpected` | `FairPlayProofs` | `FInv` over all four of `GameProofs` |

**GameProofs.** `VerdictsAgree` speaks of what clients were told and is
not inductive: the next write may carry anything. The invariant `IInv` adds
`QueueOK` (writes are queued exactly while the thread is writing), `UndecidedOK`
(while nothing is decided nobody has been told an outcome and none is queued), and `DecidedOK`
(once decided, the thread can only write and leave; every queued write carries
the right verdict, goes to a client not told yet, and no two go to the
same client). `HandlerStep` splits the handlers into those that decide
(`DecidingReply`) and those that do not (`UndecidedReply`); `SendStep` shows that a
write, delivered or not, keeps the rest of the queue right.

In the same module, between a
handler's decision and its last write the clients know less than the server, so
neither property is inductive. `ViewsOwed` says that a connected client has seen the grid
or a MOVD to it is still queued; `OffersOwed` says exactly which DRAW message is
queued when the flags and the clients' knowledge differ. Both speak only of a
game that goes on: a handler that will break owes nothing, which is why the `break` after each failed
write in the code is essential (the mutant `SendFailsContinues` drops it).

The third part of the module is the rules. The refinement does not map the code's `turn` to the abstract one, which it
reads off the grid, nor the offer to the two flags alone. So `RInv` relates them: X
has as many marks as O or one more (`Balanced`), `turn` is the grid's turn except
while the MOVD of the last move are written, when it is not switched yet
(`TurnFollows`), the flags are set only after the write before them
(`FlagsFollow`), and an undecided grid has no line (`NoLineYet`). Three facts about the grid carry the refinement:
`Geometry`, that the eight lists of the code are the rows, columns and
diagonals that `TicTacToe` defines by coordinates; `MoverWins`, that the mark
`get_game_status` finds first is the mover's when there was no line before the
move; and `CountClaim`, that a move adds one mark. `OverSent` needs to know who is still to be told: `OverOwed` says that
in a decided game a client that is connected and not told has a write queued, or
the other connection is reset.

**PlayerNamesProofs** has what the three functions do to any array: what a lookup
answers, that adding puts one name into a free or a new slot and disturbs no
other, that removing frees the first slot of the name.

**ServerProofs.** `UniqueNames` is not inductive, since `Register` adds a name without looking. The
strengthening `NameIsFree` says that between the lookup and the registration the
name stays free. It does because the game threads only free slots
(`RemoveFrees`) and only the main thread adds (`AddPutsOne`). `Placed` says where a client can be: in the
backlog, being logged in, or at one place of the order of arrival, waiting at the end of it (an odd
length) or playing the client next to it.

In the same module, `OInv` adds to both that the open
sockets are those of the client being logged in, the waiting one, and the two of each game thread
that has not closed them; and that the names in the array are those of the holders, one
each. The properties depend on each other: a removal by value takes the right slot because names are
unique among holders (`RegistryExact`), and holders are distinct because a client plays at
one place (`Placed`). `SlotsReused` follows from the exact registry: a new slot is made only when every slot
has a holder. `ImplementsLobby` maps registration to letting in and, when someone waits, pairing, the
removals to giving back, and every other step to a stutter.

**NameLocksProofs.** `LInv` says who holds the lock and what the array looks like at each place
of the function the holder is in, each of the nine releases included: a count that is ahead before `realloc` and the slot that
nobody filled (`Counted`, `Grown`), the string that is freed (`Dangling`), and that
a scan has passed no slot it was looking for (`Scanned`). While the lock is free the array is whole. For `FunctionsAreAtomic`
the last fact makes the step that commits agree with the operators of `PlayerNames`: the slot that was
found is the first one (`FoundFirst`), and a scan that ends found none. It is what entitles
`Server` and `TestDriver` to use each function as one operator.

**StreamProofs.** `Join` puts two parts of a stream together and lets a run of junk that was cut
become one run again; `JoinAssociative` and `JoinExtends` are what gathering over several reads depends on. `SInv` says that what was
returned, the buffer, the socket and the network joined in this order are what was sent;
after a reset, which destroys the end, they are a beginning of it; and after a
failure, which drops the buffer, what was returned still is.

**ClientProofs.** The two directions of the program share no state but the connection, and neither
property is inductive. For the lines, `StartOK` says where `read_file` may begin its next line (after an
enter, at a signal, or at the end of input), `KeysBuffered` that its buffer holds only keys, `Pending`
that a line it returned is whole and comes after all that were written, and `NothingDropped`
that every key before the buffer was written, is about to be, or was cut; `LinesAreWritten`
claims that only for a main thread that is reading. `WroteLines` also keeps each line
clear of the next start, without which the order of the lines is not preserved. For the pieces,
`PiecesInv` numbers what was shown, is in the buffer and is in the socket as one sequence, which a
reset cuts at its end and a failed read throws away with the thread.

**TestDriverProofs.** Every step of the driver is a step of `Server` or none of the server's
business (`DriverStep`), so all that is proved of `Server` holds of a server under test. `DInv` adds
where the twelve threads are: `Turns`, that the mutex is with the thread that `game_role` names from
its look to its WAIT, and who has had its turn; `InTurn` and `Named`, that the server met the
clients in that order under the names of their scripts; and `Scripts`, what each thread, at each place of its
script, has sent and not been answered: between PLAY and the reply the server has not read it
(`Unread`), considers it, has refused it or let the client in. That no name is refused but the one
is then a fact about the registry: a name in use is that of a holder (`RegistryExact`),
holders have the names of the scripts, and these are distinct. That everybody gets the opponent
of the script follows from `PairedInOrder`: clients who arrive in turn are paired two by two.

**FairPlayProofs.** Both properties compare what a client believes with what the thread knows while
messages are under way in both directions. `FInv` says, of each client, where its request is: with the thread
unread, being replied to, an offer the opponent has to answer, or replied to and unread, and never at two of
these (`OneRequest`); that `awaiting` names that request (`Awaited`); where the suggestion it has to
answer is (`OneSuggestion`); and that the grid it knows is the thread's but for a MOVD under way,
own MOVD before the opponent's (`Grids`). So a client that believes it may move is right unless a suggestion
is on its way to it. `Mail` keeps what of this is about unread messages when the game is over and the thread
no longer owes replies, and `Endings` that a client that was told how the game ended finds OVER last,
or lost everything to a close with input unread, which `Counted` traces to something it wrote, or
to the reset that answered a write of its own after the close (`late`).
What the thread does comes from the four invariants of `GameProofs`: between handlers the flags and the turn are what
the grid and the offers say (`Listening`, from `Owed` and `RInv`), and the thread leaves its loop only
when both clients were told (`BothTold`, from `OverOwed`). Of the handlers only refusals need
an argument: `Fairly` shows that a fair client's message is refused only while it must answer a suggestion.

Only model-checked, with the reason:

- Liveness (`DecidedGameEnds`, `MessageReturned`, `CallsReturn`, `EveryTestEnds` and the others): outside what the prover supports.
- `Framing`: the tokenizer, the length field and the bar count are recursions over the
  bytes of a message, and what such a recursion computes for every input needs induction
  over data, which the installed provers cannot use.

## 7. Not modelled

- Creating and binding sockets, resolving addresses, logging, printing, and the
  string functions no program calls: pure input and output, or dead code.
- Failed allocations and `pthread_create`, after which the code exits or ignores the error.
- Blocking writes: a client that never reads stops a game thread in `write` once the
  socket buffers are full, whose size is the operating system's.
- What the programs print after a signal; no document promises anything of it.
- `should_exit` of `test.c`, which nothing reads.

## 8. Plan

Done, in this order: `Board`, `TicTacToe`, `Game`, `PlayerNames`, `Server`,
`MessageStream`, `GameProofs`, `ServerProofs`, `Messages` and `Framing`,
`NameService` and `NameLocks`, `Exchange`, `TestScripts`, `FairPlay` and `Matches`,
`TestDriver`, `Client`, `Lobby` and `ServerLobby`, `PlayerNamesProofs`,
`NameLocksProofs`, `StreamProofs`, `ClientProofs`, `TestDriverProofs`, `FairPlayProofs`.

What is left is out of the prover's reach (the list at the end of section 6): liveness, and what
the recursions of `Framing` compute.
