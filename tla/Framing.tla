------------------------------ MODULE Framing -------------------------------
(***************************************************************************)
(* How msg.h finds the messages in a buffer of bytes and what the parsers  *)
(* make of them: is_complete_msg with get_remaining_bytes and check_num_-  *)
(* of_bars, get_complete_message, parse_play, parse_move, parse_draw and   *)
(* parse_rsgn, over the tokenizer strTokenize of helper.c.  Both ends use  *)
(* them: the server on what clients write, the test driver on what the     *)
(* server writes.  Module MessageStream has the system calls around them.  *)
(*                                                                         *)
(* The tokenizer joins runs of bars, and it is given the whole buffer, not *)
(* the message, so which bytes a check is about takes some care.           *)
(* (The definitions no other uses are faulty variants of the one that      *)
(* follows them, for the mutation of the checks.)                          *)
(***************************************************************************)
EXTENDS Messages, FiniteSets

CONSTANTS
  Exchanged,      \* the messages the parties are meant to exchange
  Reads,          \* what one read may return, for each sort of sender
  Sendable(_, _), \* what may be unread from a sender
  MaxReads        \* bound on the number of reads, for each sort of sender

Nul == "NUL"    \* the byte that ends a C string

ASSUME FramingAssumption ==
  DOMAIN MaxReads = DOMAIN Reads /\ \A s \in DOMAIN Reads : MaxReads[s] \in Nat

VARIABLES
  sender,        \* which sort of sender the other end is
  msg_buffer,    \* what has been read and not returned
  reads,         \* how many reads there have been
  msg,           \* the message returned last
  player_name,   \* what parse_play made of it
  received       \* history: all that has been read

vars == <<sender, msg_buffer, reads, msg, player_name, received>>

-----------------------------------------------------------------------------
(* strTokenize: the maximal runs without the delimiter.  Leading, trailing  *)
(* and repeated delimiters separate nothing (strStrip and the loop).        *)

TokenStarts(s, d) == {i \in DOMAIN s : s[i] # d /\ (i = 1 \/ s[i - 1] = d)}
TokenEnd(s, d, i) == CHOOSE j \in i..Len(s) :
                       /\ j = Len(s) \/ s[j + 1] = d
                       /\ \A k \in i..j : s[k] # d
strTokenize(s, d) ==
  LET starts == TokenStarts(s, d)
      Nth(k) == CHOOSE i \in starts : Cardinality({j \in starts : j <= i}) = k
  IN  [k \in 1..Cardinality(starts) |-> SubSeq(s, Nth(k), TokenEnd(s, d, Nth(k)))]

-----------------------------------------------------------------------------
(* to_unsigned_long: strtoull skips a blank, takes a sign, and converts the *)
(* digits it finds; no digits give 0, and a minus wraps round.              *)

Huge == 1000000   \* more than any buffer holds: 2^64 - n, or out of range

DigitValue(c) == (CHOOSE k \in DOMAIN Digit : Digit[k] = c) - 1
Digits        == {Digit[k] : k \in DOMAIN Digit}
LeadingDigits(t) ==
  CHOOSE n \in 0..Len(t) : /\ \A i \in 1..n : t[i] \in Digits
                           /\ n = Len(t) \/ t[n + 1] \notin Digits
Magnitude(t) == FoldLeft(LAMBDA n, c : 10 * n + DigitValue(c), 0,
                         SubSeq(t, 1, LeadingDigits(t)))

to_unsigned_long(t) ==
  LET u == IF Head(t) = " " THEN Tail(t) ELSE t
  IN  IF u # <<>> /\ Head(u) \in {"-", "+"}
      THEN IF Head(u) = "-" /\ Magnitude(Tail(u)) > 0 THEN Huge
           ELSE Magnitude(Tail(u))
      ELSE Magnitude(u)

-----------------------------------------------------------------------------
(* is_complete_msg.                                                         *)

\* The first k symbols, and the places where a bar is the n-th byte.
Prefix(b, k)  == SubSeq(b, 1, k)
BarEnds(b, n) == {k \in DOMAIN b : b[k] = Bar /\ Width(Prefix(b, k)) = n}

check_protocol(b, code) ==
  LET tokens == strTokenize(b, Bar) IN tokens # <<>> /\ tokens[1] = <<code>>

\* get_remaining_bytes succeeds; the second token of the buffer is then taken
\* for the length field.
NumberField(b)        == strTokenize(b, Bar)[2]
get_remaining_bytes(b) ==
  /\ BarEnds(b, 5) # {}
  /\ Len(strTokenize(b, Bar)) >= 2
  /\ Width(NumberField(b)) \in 1..3
  /\ to_unsigned_long(NumberField(b)) < Width(b)

correct_num_of_bars(code) ==
  CASE code \in {"PLAY", "DRAW", "INVL"} -> 3
    [] code \in {"MOVE", "BEGN", "OVER"} -> 4
    [] code \in {"RSGN", "WAIT"}         -> 2
    [] code = "MOVD"                     -> 5
overlap_bars(code) == correct_num_of_bars(code) - 2

\* The bytes of a whole message: code, length field, two bars, and the rest.
max_size_CountsAllBars(b, code) ==
  4 + Width(NumberField(b)) + to_unsigned_long(NumberField(b))
    + correct_num_of_bars(code)

max_size(b, code) ==
  4 + Width(NumberField(b)) + to_unsigned_long(NumberField(b))
    + correct_num_of_bars(code) - overlap_bars(code)

check_num_of_bars_WholeBuffer(b, code) ==
  /\ max_size(b, code) <= Width(b)
  /\ BarEnds(b, max_size(b, code)) # {}
  /\ Cardinality({k \in DOMAIN b : b[k] = Bar}) = correct_num_of_bars(code)

check_num_of_bars(b, code) ==
  /\ max_size(b, code) <= Width(b)
  /\ BarEnds(b, max_size(b, code)) # {}
  /\ Cardinality({k \in DOMAIN b : b[k] = Bar /\ Width(Prefix(b, k)) <= max_size(b, code)})
       = correct_num_of_bars(code)

is_complete_msg(b) ==
  /\ Width(b) >= 7
  /\ \E code \in Code : /\ check_protocol(b, code)
                        /\ get_remaining_bytes(b)
                        /\ check_num_of_bars(b, code)

\* The symbols of the message at the front of a buffer that holds one.
FrontLength(b) ==
  LET code == CHOOSE c \in Code : check_protocol(b, c)
  IN  CHOOSE k \in BarEnds(b, max_size(b, code)) : TRUE
FrontMessage(b) == Prefix(b, FrontLength(b))

-----------------------------------------------------------------------------
(* The parsers.  A result of none is a message that is refused.             *)

none    == <<>>
garbage == <<"garbage">>   \* what lies behind the end of the list of tokens
NULL    == <<"NULL">>

\* parse_play does not count the tokens: tokens[2] may be the NULL that ends
\* the list, of which the repository's strdup makes NULL (helper.c:415), or lie
\* behind it.  get_client answers NULL with "name in use" and reads on.
parse_play(m) ==
  LET tokens == strTokenize(m, Bar)
  IN  CASE ~check_protocol(m, "PLAY") -> {none}
        [] Len(tokens) >= 3           -> {tokens[3]}
        [] Len(tokens) = 2            -> {NULL}
        [] OTHER                      -> {NULL, garbage}

parse_move(m) ==
  LET tokens == strTokenize(m, Bar)
      cell   == strTokenize(tokens[4], ",")
  IN  /\ check_protocol(m, "MOVE")
      /\ Len(tokens) = 4
      /\ tokens[3] \in {<<"X">>, <<"O">>}
      /\ Len(cell) = 2
      /\ \A k \in 1..2 : to_unsigned_long(cell[k]) \in 1..3

parse_rsgn(m) == check_protocol(m, "RSGN")

parse_draw(m) ==
  /\ check_protocol(m, "DRAW")
  /\ Len(strTokenize(m, Bar)) = 3
  /\ strTokenize(m, Bar)[3] \in {<<"S">>, <<"R">>, <<"A">>}

-----------------------------------------------------------------------------
(* The checks that the clients of the test driver make of what the server   *)
(* wrote (commands.h).  Of these parse_begn, parse_invl and parse_over do    *)
(* not count the tokens; what the server writes has enough.                 *)

Field(m, k) == strTokenize(m, Bar)[k + 2]
Fields(m)   == Len(strTokenize(m, Bar)) - 2

parse_wait(m) == check_protocol(m, "WAIT")
parse_begn(m, role, opponent_name) ==
  check_protocol(m, "BEGN") /\ Field(m, 1) = role /\ Field(m, 2) = opponent_name
parse_movd(m, role, row, col, board) ==
  /\ check_protocol(m, "MOVD")
  /\ Fields(m) = 3
  /\ Field(m, 1) = role
  /\ strTokenize(Field(m, 2), ",") = <<row, col>>
  /\ Field(m, 3) = board
parse_invl(m, error) == check_protocol(m, "INVL") /\ Field(m, 1) = error

parse_over_SkipsOutcome(m, outcome, explanation) ==
  check_protocol(m, "OVER") /\ Field(m, 2) = explanation

parse_over(m, outcome, explanation) ==
  check_protocol(m, "OVER") /\ Field(m, 1) = outcome /\ Field(m, 2) = explanation
parse_draw_from_server(m, action) ==
  check_protocol(m, "DRAW") /\ Fields(m) = 1 /\ Field(m, 1) = action

-----------------------------------------------------------------------------
Init ==
  /\ sender \in DOMAIN Reads
  /\ msg_buffer = <<>>
  /\ reads = 0
  /\ msg = <<>>
  /\ player_name = none
  /\ received = <<>>

\* receive_and_add copies with strcat, so what follows a NUL in the same read
\* is left out.
UpToNul(data) ==
  IF Contains(data, Nul)
  THEN SubSeq(data, 1, (CHOOSE k \in DOMAIN data :
                          data[k] = Nul /\ \A j \in 1..(k - 1) : data[j] # Nul) - 1)
  ELSE data

receive_and_add(data) ==
  /\ reads < MaxReads[sender]
  /\ Sendable(sender, msg_buffer \o data)
  /\ reads' = reads + 1
  /\ msg_buffer' = msg_buffer \o UpToNul(data)
  /\ received' = received \o data
  /\ UNCHANGED <<sender, msg, player_name>>

\* get_complete_message, and the parse_play of get_client.
get_complete_message ==
  LET k == FrontLength(msg_buffer) IN
  /\ is_complete_msg(msg_buffer)
  /\ msg' = FrontMessage(msg_buffer)
  /\ msg_buffer' = SubSeq(msg_buffer, k + 1, Len(msg_buffer))
  /\ player_name' \in parse_play(msg')
  /\ UNCHANGED <<sender, reads, received>>

Next ==
  \/ \E data \in Reads[sender] : receive_and_add(data)
  \/ get_complete_message

Spec == Init /\ [][Next]_vars

-----------------------------------------------------------------------------
(* Safety.                                                                  *)

\* Each message the parties are meant to exchange is found at the front of a
\* buffer exactly when its last byte is there, and is then cut out whole,
\* whatever follows it: is_complete_msg and the lengths that PROTOCOL,
\* generate_MOVD, generate_BEGN and the clients state agree on what is counted.
FramedExactly ==
  \A m \in Exchanged :
    (IsPrefix(m, msg_buffer) \/ IsPrefix(msg_buffer, m)) =>
      /\ is_complete_msg(msg_buffer) <=> IsPrefix(m, msg_buffer)
      /\ is_complete_msg(msg_buffer) => FrontMessage(msg_buffer) = m

\* What B.1 and B.2 of requirements.txt ask: a code, a length field that counts
\* what follows it, and exactly the fields of the code, none of them empty.
FieldsOf == [PLAY |-> 1, MOVE |-> 2, DRAW |-> 1, RSGN |-> 0]
WellFormed(m) ==
  LET tokens == strTokenize(m, Bar)
      fields == SubSeq(tokens, 3, Len(tokens))
  IN  /\ Len(tokens) >= 2
      /\ tokens[1] \in {<<code>> : code \in DOMAIN FieldsOf}
      /\ Len(fields) = FieldsOf[tokens[1][1]]
      /\ m = Assemble(tokens[1][1], tokens[2], fields)
      /\ Width(FlattenSeq([i \in DOMAIN fields |-> Append(fields[i], Bar)]))
           = to_unsigned_long(tokens[2])

\* The messages get_client and process_client_message do not refuse: a PLAY
\* from which a name is taken, whatever lies there, and what the other parsers
\* accept.
ActedOn == player_name \notin {none, NULL}
             \/ parse_move(msg) \/ parse_draw(msg) \/ parse_rsgn(msg)

\* A message that is acted on is well-formed, a PLAY gives the name it carries,
\* and the bytes of the message came one after the other unless a NUL byte was
\* among what was read: receive_and_add drops the rest of that read and joins
\* what is left.  No single check says so: the tokenizer hides empty fields, the
\* bars are counted elsewhere, and parse_play counts no tokens.  There is one
\* exception, a PLAY of nothing but bars, which is complete when what follows
\* it passes for its length field: of that one parse_play reads past the tokens.
OnlyBars == <<"PLAY", Bar, Bar, Bar>>
ActedOnIsWellFormed ==
  (msg # <<>> /\ ActedOn) =>
    /\ \/ /\ WellFormed(msg)
          /\ player_name = IF msg[1] = "PLAY" THEN strTokenize(msg, Bar)[3] ELSE none
       \/ msg = OnlyBars /\ player_name = garbage
    /\ \/ Contains(received, Nul)
       \/ \E i \in 0..Len(received) :
            msg = SubSeq(received, i + 1, i + Len(msg))

\* A message that has arrived whole stays what it is when more arrives: the
\* length field and the bars of a message that holds its own length field do
\* not depend on what follows.
ArrivalKeepsMessage ==
  [][(/\ reads' # reads
      /\ is_complete_msg(msg_buffer)
      /\ Len(strTokenize(FrontMessage(msg_buffer), Bar)) >= 2)
       => /\ is_complete_msg(msg_buffer')
          /\ FrontMessage(msg_buffer') = FrontMessage(msg_buffer)]_vars

\* Nothing refuses a name for its length, though C.1.c of requirements.txt has
\* INVL for a name that is too long and B.2.b ends lengths at 255: every name
\* whose PLAY has room for its length in three digits is taken.  The BEGN that
\* tells the opponent the name, with three bytes more, states at most 255 if and
\* only if the name has at most 252 bytes, and can be read back by the same
\* functions if and only if it has at most 996.
NoNameIsTooLong ==
  \A name \in DOMAIN NameWidth :
    LET play == p_play(Numeral(NameWidth[name] + 1), << name >>)
        begn == generate_BEGN("X", << name >>)
    IN  IsPrefix(play, received) =>
          /\ msg = <<>> => is_complete_msg(msg_buffer)
          /\ msg = play => player_name = << name >>
          /\ to_unsigned_long(strTokenize(begn, Bar)[2]) <= 255 <=> NameWidth[name] <= 252
          /\ (is_complete_msg(begn) /\ FrontMessage(begn) = begn)
               <=> NameWidth[name] <= 996

\* A check of the test driver accepts exactly the message that the server
\* writes for it, however the message was cut and whatever came before: the
\* checks look at the fields only, so this rests on the framing before them.
\* (parse_wait looks at the code alone, and accepts the server's WAIT.)
ChecksExact ==
  msg \in Exchanged =>
    /\ msg = p_wait(<<"0">>) => parse_wait(msg)
    /\ \A r \in {"X", "O"} :
         /\ \A n \in DOMAIN NameWidth :
              parse_begn(msg, <<r>>, <<n>>) <=> msg = generate_BEGN(r, <<n>>)
         /\ \A k, l \in 0..2 :
              parse_movd(msg, <<r>>, <<Digit[k + 2]>>, <<Digit[l + 2]>>, <<"grid">>)
                <=> msg = generate_MOVD(r, k, l)
    /\ \A e \in {"occupied", "error", "in_use"} :
         parse_invl(msg, <<e>>)
           <=> msg = Assemble("INVL", Numeral(TextWidth[e] + 1), << <<e>> >>)
    /\ \A o \in {"W", "L", "D"}, e \in {"line", "resigned", "agreed", "full"} :
         parse_over(msg, <<o>>, <<e>>)
           <=> msg = Assemble("OVER", Numeral(TextWidth[e] + 3), << <<o>>, <<e>> >>)
    /\ \A a \in {"S", "A", "R"} :
         parse_draw_from_server(msg, <<a>>) <=> msg = p_draw(<<"2">>, <<a>>)

=============================================================================
