------------------------------ MODULE MCFraming -----------------------------
(* Instances of Framing for TLC. *)
EXTENDS Framing

\* Names of 3 and 4 bytes, and both sides of each bound: what a BEGN may state,
\* what a PLAY may state, what a BEGN and a PLAY have room for.
Widths == [bob |-> 3, anna |-> 4, begn255 |-> 252, begn256 |-> 253,
           play255 |-> 254, play256 |-> 255, longest |-> 996, longer |-> 997,
           last |-> 998]

\* What clients and the server are meant to write, with correct lengths.
ClientMessages ==
  {p_play(Numeral(Widths[n] + 1), <<n>>) : n \in DOMAIN Widths} \cup
  {p_move(<<"6">>, <<"X">>, <<"2", ",", "2">>), p_draw(<<"2">>, <<"S">>),
   p_rsgn(<<"0">>)}
ServerMessages ==
  PROTOCOL \cup {generate_MOVD(r, k, 2) : r \in {"X", "O"}, k \in 0..2}
           \cup {generate_BEGN("O", <<n>>) : n \in {"bob", "anna", "longest"}}
AllMessages == ClientMessages \cup ServerMessages

\* PLAY and RSGN a field at a time, with fields that do not belong there.
LoginReads ==
  {<<"PLAY", Bar>>, <<"RSGN">>, <<Bar>>, <<"0">>, <<"1">>, <<"4">>, <<"bob">>}

\* MOVE and DRAW in larger pieces, well-formed and not; two have a NUL inside.
GameReads ==
  {<<"MOVE", Bar>>, <<"6", Bar>>, <<"X", Bar>>, <<"2", ",", "2", Bar>>, <<Bar>>,
   <<"DRAW", Bar>>, <<"2", Bar>>, <<"3", Bar>>, <<"S", Bar>>, <<"S", Nul, "R">>,
   <<"-", Nul, "1">>}

\* What the server writes, each message cut in two inside its length field.
Cut == 3
ServerReads == {SubSeq(m, 1, Cut) : m \in ServerMessages}
          \cup {SubSeq(m, Cut + 1, Len(m)) : m \in ServerMessages}

\* PLAY with each name.
LongReads == {p_play(Numeral(Widths[n] + 1), <<n>>) : n \in DOMAIN Widths}

ReadsOf == [login |-> LoginReads, game |-> GameReads, server |-> ServerReads,
            long  |-> LongReads]
Bounds  == [login |-> 6, game |-> 5, server |-> 4, long |-> 2]

\* Clients write anything; the server writes whole messages, of which two at
\* most are unread.
Unread(s, b) ==
  s = "server" => \E m, n \in ServerMessages : IsPrefix(b, m \o n)
=============================================================================
