---------------------------- MODULE TestScripts -----------------------------
(***************************************************************************)
(* The scripted clients of test.c, two at a time, against the game thread: *)
(* what each sends, and which reply it insists on.  A check that fails     *)
(* ends the client's thread and leaves its connection open (pthread_exit   *)
(* in commands.h).  Module TestDriver has how the twelve threads take      *)
(* turns to log in.                                                        *)
(***************************************************************************)
EXTENDS Exchange

-----------------------------------------------------------------------------
(* The steps of a script.                                                   *)

Tell(m)       == [do |-> "tell", what |-> m]
Expect(item)  == [do |-> "expect", what |-> item]
AwaitDrop     == [do |-> "drop", what |-> "nothing"]   \* check_connection_drop
Close         == [do |-> "close", what |-> "nothing"]

At(row, col)  == 3 * (row - 1) + (col - 1)

\* The grid after the first k of the given moves, X first, and one client's
\* part in them: it sends its own and checks the MOVD of every move.
Mover(k)       == IF k % 2 = 1 THEN "X" ELSE "O"
Grid(moves, k) == [c \in Cell |-> IF \E j \in 1..k : moves[j] = c
                                  THEN Mover(CHOOSE j \in 1..k : moves[j] = c)
                                  ELSE Empty]
Moves(rol, moves) ==
  FlattenSeq([k \in DOMAIN moves |->
    IF Mover(k) = rol
    THEN <<Tell(MOVE(rol, moves[k])), Expect(MOVD(Grid(moves, k)))>>
    ELSE <<Expect(MOVD(Grid(moves, k)))>>])

Begin == <<Expect(Plain("BEGN"))>>
Over(outcome) == <<Expect(Plain(outcome)), Close>>

-----------------------------------------------------------------------------
(* The scripts.                                                             *)

Agreed     == <<At(2, 2), At(3, 3), At(1, 2), At(3, 2), At(1, 1)>>
A_client_1 == Begin \o Moves("X", Agreed)
                \o <<Expect(Plain("DRAW_S")), Tell(DRAW("R")), Tell(DRAW("S"))>>
                \o Over("OVER_D")
A_client_2 == Begin \o Moves("O", Agreed)
                \o <<Tell(DRAW("S")), Expect(Plain("DRAW_R")),
                     Expect(Plain("DRAW_S")), Tell(DRAW("A"))>>
                \o Over("OVER_D")

Resigned   == <<At(1, 2), At(2, 1), At(3, 1), At(1, 3), At(2, 2), At(1, 1)>>
A_client_3 == Begin \o Moves("X", Resigned) \o <<Tell(RSGN)>> \o Over("OVER_L")
A_client_4 == Begin \o Moves("O", Resigned) \o Over("OVER_W")

Opening    == <<At(1, 1), At(1, 2), At(2, 2), At(1, 3), At(2, 3), At(2, 1), At(3, 2)>>
Filled     == Append(Opening, At(3, 3))
A_client_5 == Begin \o Moves("X", Filled)
                \o <<Tell(MOVE("X", At(3, 1)))>> \o Over("OVER_D")
A_client_6 == Begin \o Moves("O", Filled) \o Over("OVER_D")

Lined      == Append(Opening, At(3, 1))
A_client_7 == Begin \o Moves("X", Lined)
                \o <<Tell(MOVE("X", At(3, 3)))>> \o Over("OVER_W")
A_client_8 == Begin \o Moves("O", Lined) \o Over("OVER_L")

\* Two moves out of the grid, one for the opponent, one without a cell, five
\* messages of the server, each refused; then a PLAY with a field too many.
Mistakes   == <<UNPARSED, UNPARSED, MOVE("O", At(2, 1)), UNPARSED,
                UNPARSED, UNPARSED, UNPARSED, UNPARSED, UNPARSED>>
Errors     == <<At(1, 2), At(3, 3)>>
B_client_1 == Begin \o Moves("X", Errors)
                \o FlattenSeq([k \in DOMAIN Mistakes |->
                     <<Tell(Mistakes[k]), Expect(INVL("!protocol"))>>])
                \o <<Tell(MALFORMED), AwaitDrop, Close>>
B_client_2 == Begin \o <<Expect(MOVD(Grid(Errors, 1))),
                         Tell(MOVE("O", At(1, 2))), Expect(INVL("occupied")),
                         Tell(MOVE("O", At(3, 3))), Expect(MOVD(Grid(Errors, 2))),
                         AwaitDrop, Close>>

Dropped    == <<At(2, 2)>>
C_client_1 == Begin \o Moves("X", Dropped) \o <<AwaitDrop, Close>>
C_client_2 == Begin \o Moves("O", Dropped) \o <<Close>>

Tests == <<A_client_1, A_client_2, A_client_3, A_client_4, A_client_5, A_client_6,
           A_client_7, A_client_8, B_client_1, B_client_2, C_client_1, C_client_2>>

-----------------------------------------------------------------------------
VARIABLES
  at,       \* the step each client is at
  failed    \* the clients whose thread has exited at a check

scripts == <<game, at, failed>>

Script(i)   == IF AreFair THEN <<>> ELSE Tests[2 * game - 1 + i]
Finished(i) == at[i] > Len(Script(i))
Current(i)  == Script(i)[at[i]]
Ready(i, what) == i \notin failed /\ ~Finished(i) /\ Current(i).do = what

Advance(i) == at' = [at EXCEPT ![i] = @ + 1] /\ UNCHANGED failed
Exit(i)    == failed' = failed \cup {i} /\ UNCHANGED at

ScriptInit ==
  /\ ExchangeInit
  /\ game \in 0..(Len(Tests) \div 2)
  /\ at = [i \in Player |-> 1]
  /\ failed = {}

\* A write to a connection the server has closed draws a reset; one that comes
\* after a reset fails.
TellStep(i) ==
  /\ Ready(i, "tell")
  /\ \/ Write(i, Current(i).what) /\ Advance(i)
     \/ WriteLate(i) /\ Advance(i)
     \/ i \notin open /\ UNCHANGED <<vars, contents>> /\ Exit(i)

\* parse_begn, parse_movd, parse_invl, parse_over, parse_draw_from_server.
ExpectStep(i) ==
  /\ Ready(i, "expect")
  /\ \/ /\ mail[i] # <<>>
        /\ IF Head(mail[i]) = Current(i).what THEN Advance(i) ELSE Exit(i)
        /\ Hear(i)
        /\ UNCHANGED <<vars, sent, error, late>>
     \/ /\ mail[i] = <<>> /\ i \notin open
        /\ Exit(i)
        /\ UNCHANGED <<vars, contents>>

\* while (check_connection_drop(...) != 0): any message, until there is none.
DropStep(i) ==
  /\ Ready(i, "drop")
  /\ \/ /\ mail[i] # <<>>
        /\ Hear(i)
        /\ UNCHANGED <<vars, sent, error, late, at, failed>>
     \/ /\ mail[i] = <<>> /\ i \notin open
        /\ Advance(i)
        /\ UNCHANGED <<vars, contents>>

CloseStep(i) ==
  /\ Ready(i, "close")
  /\ HangUp(i) \/ (i \notin open /\ UNCHANGED <<vars, contents>>)
  /\ Advance(i)

ClientStep(i) ==
  /\ TellStep(i) \/ ExpectStep(i) \/ DropStep(i) \/ CloseStep(i)
  /\ UNCHANGED game

\* The host of a client that closed answers what the server writes to it.
ClosedEndResets(i) == peer[i] = "closed" /\ Reset(i)

ScriptNext ==
  \/ \E i \in Player : ClientStep(i)
  \/ ServerStep /\ UNCHANGED scripts
  \/ \E i \in Player : (ClosedEndResets(i) \/ LateReset(i)) /\ UNCHANGED scripts

-----------------------------------------------------------------------------
\* Every client of the tests gets to the end of its script, and every game
\* thread exits, also the ones whose clients only wait for the drop.  So no
\* check of the scripts fails, however the clients and the thread interleave:
\* what a script expects is the only thing that can come.
EveryTestEnds ==
  AreScripted => <>(pc = "done" /\ \A i \in Player : Finished(i))
=============================================================================
