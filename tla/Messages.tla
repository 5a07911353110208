------------------------------ MODULE Messages ------------------------------
(***************************************************************************)
(* The bytes of a message, and the functions that write messages: the      *)
(* table PROTOCOL and generate_MOVD and generate_BEGN of ttts.c, and the   *)
(* builders of commands.h that stand for a client.                         *)
(*                                                                         *)
(* A string is a sequence of symbols.  A bar, a comma, a sign and a digit  *)
(* are one byte each; a code, a name, a grid and an explanation are never  *)
(* looked into, so each is one symbol with a width.                        *)
(* (The definitions no other uses are faulty variants of the one that      *)
(* follows them, for the mutation of the checks.)                          *)
(***************************************************************************)
EXTENDS Naturals, Sequences, SequencesExt

CONSTANT NameWidth   \* the players' names, each with its length in bytes

ASSUME NameAssumption == \A n \in DOMAIN NameWidth : NameWidth[n] \in Nat \ {0}

Code  == {"PLAY", "MOVE", "RSGN", "DRAW", "WAIT", "BEGN", "MOVD", "INVL",
          "OVER"}
Digit == <<"0", "1", "2", "3", "4", "5", "6", "7", "8", "9">>
Bar   == "|"

TextWidth == [grid |-> 9, occupied |-> 23, error |-> 16, in_use |-> 20,
              line |-> 32, resigned |-> 24, agreed |-> 29, full |-> 17,
              Opponent |-> 8]

SymbolWidth(c) ==
  CASE c \in Code              -> 4
    [] c \in DOMAIN TextWidth  -> TextWidth[c]
    [] c \in DOMAIN NameWidth  -> NameWidth[c]
    [] OTHER                   -> 1

\* strlen.
Width(s) == FoldLeft(LAMBDA n, c : n + SymbolWidth(c), 0, s)

\* sprintf("%zu", n) for n below ten thousand.
Numeral(n) ==
  LET d == CHOOSE k \in 1..4 : n < 10^k /\ (k = 1 \/ n >= 10^(k - 1))
  IN  [i \in 1..d |-> Digit[((n \div 10^(d - i)) % 10) + 1]]

\* A message with the given fields, each of them a string.
Assemble(code, bytes, fields) ==
  <<code, Bar>> \o bytes \o <<Bar>>
    \o FlattenSeq([i \in DOMAIN fields |-> Append(fields[i], Bar)])

-----------------------------------------------------------------------------
(* The builders of commands.h.  The caller states the length.               *)

p_play(bytes, player_name)       == Assemble("PLAY", bytes, <<player_name>>)
p_move(bytes, role, coordinates) == Assemble("MOVE", bytes, <<role, coordinates>>)
p_draw(bytes, action)            == Assemble("DRAW", bytes, <<action>>)
p_rsgn(bytes)                    == Assemble("RSGN", bytes, <<>>)
p_movd(bytes) == Assemble("MOVD", bytes, << <<"X">>, <<"2", ",", "2">>, <<"grid">> >>)
p_wait(bytes)                    == Assemble("WAIT", bytes, <<>>)
p_begn(bytes) == Assemble("BEGN", bytes, << <<"X">>, <<"Opponent">> >>)
p_invl(bytes) == Assemble("INVL", bytes, << <<"error">> >>)
p_over(bytes) == Assemble("OVER", bytes, << <<"L">>, <<"resigned">> >>)

-----------------------------------------------------------------------------
(* What the server writes.                                                  *)

\* The fixed messages, with the lengths as the table states them.
PROTOCOL_MiscountsBars ==
  {Assemble("WAIT", <<"0">>, <<>>),
   Assemble("INVL", <<"2", "3">>, << <<"occupied">> >>)}

PROTOCOL ==
  {Assemble("WAIT", <<"0">>, <<>>),
   Assemble("INVL", <<"2", "4">>, << <<"occupied">> >>),
   Assemble("INVL", <<"1", "7">>, << <<"error">> >>),
   Assemble("INVL", <<"2", "1">>, << <<"in_use">> >>),
   Assemble("DRAW", <<"2">>, << <<"S">> >>),
   Assemble("DRAW", <<"2">>, << <<"A">> >>),
   Assemble("DRAW", <<"2">>, << <<"R">> >>),
   Assemble("OVER", <<"3", "5">>, << <<"W">>, <<"line">> >>),
   Assemble("OVER", <<"3", "5">>, << <<"L">>, <<"line">> >>),
   Assemble("OVER", <<"2", "7">>, << <<"W">>, <<"resigned">> >>),
   Assemble("OVER", <<"2", "7">>, << <<"L">>, <<"resigned">> >>),
   Assemble("OVER", <<"3", "2">>, << <<"D">>, <<"agreed">> >>),
   Assemble("OVER", <<"2", "0">>, << <<"D">>, <<"full">> >>)}

\* generate_MOVD states the length 16 whatever the fields are.
generate_MOVD(role, row, col) ==
  Assemble("MOVD", <<"1", "6">>,
           << <<role>>, <<Digit[row + 2], ",", Digit[col + 2]>>, <<"grid">> >>)

generate_BEGN_ForgetsBar(role, opponent_name) ==
  Assemble("BEGN", Numeral(2 + Width(opponent_name)),
           << <<role>>, opponent_name >>)

\* generate_BEGN counts what follows the length: role, bar, name, bar.
generate_BEGN(role, opponent_name) ==
  Assemble("BEGN", Numeral(2 + Width(opponent_name) + 1),
           << <<role>>, opponent_name >>)
=============================================================================
