------------------------------- MODULE Client -------------------------------
(***************************************************************************)
(* The program ttt: its main thread, which sends to the server the lines   *)
(* it reads from standard input, and the thread from_server, which prints  *)
(* what the server sends.  The two share the socket and the process: when  *)
(* the main thread exits, so does the other.                               *)
(*                                                                         *)
(* A line is typed in keys, of which the program sees one at a time, and   *)
(* is named by its place in what was typed.  The server's side is the      *)
(* network: pieces it writes, its close, and the reset that follows when   *)
(* it closes with input unread or is written to afterwards.                *)
(*                                                                         *)
(* Definitions that no other definition uses (read_eof_DropsLastLine, ...) *)
(* are faulty variants of the one that follows them.  Put in its place,    *)
(* each makes one of the properties fail.                                  *)
(***************************************************************************)
EXTENDS Naturals, Sequences

CONSTANTS
  MaxTyped,   \* most keys that are typed
  MaxSent,    \* most pieces the server writes
  Signals     \* whether SIGINT or SIGTERM may come

ASSUME ClientAssumption ==
  /\ MaxTyped \in Nat
  /\ MaxSent \in Nat
  /\ Signals \in BOOLEAN

VARIABLES
  typed,   \* what was typed so far: keys and enters
  ended,   \* whether standard input has ended
  taken,   \* how much of it read_file has read
  start,   \* where the line in the buffer of read_file starts
  main,    \* where the main thread is
  message, \* msg_to_send: a part of what was typed, or EOF
  conn,    \* the connection as the client sees it
  inq,     \* pieces in the socket
  reader,  \* where from_server is
  buffer,  \* what receive_message has read so far
  sent,    \* history: how many pieces the server wrote
  shown,   \* history: the pieces printed
  wrote,   \* history: the lines written to the socket, without EOF
  cuts     \* history: where a signal interrupted read_file

input   == <<typed, ended>>
output  == <<taken, start, main, message>>
network == <<conn, inq, sent>>
reading == <<reader, buffer, shown>>
vars    == <<input, output, network, reading, wrote, cuts>>

EOF      == <<0, 0>>
Place    == 0..MaxTyped
Numbers(m, n) == [k \in 1..(n - m) |-> m + k]

Init ==
  /\ typed = <<>> /\ ended = FALSE
  /\ taken = 0 /\ start = 0 /\ main = "read" /\ message = EOF
  /\ conn = "up" /\ inq = <<>> /\ sent = 0
  /\ reader = "read" /\ buffer = <<>> /\ shown = <<>>
  /\ wrote = <<>> /\ cuts = {}

-----------------------------------------------------------------------------
(* The user and the network.                                                *)

Type(x) ==
  /\ ~ended /\ Len(typed) < MaxTyped
  /\ typed' = Append(typed, x)
  /\ UNCHANGED <<ended, output, network, reading, wrote, cuts>>

EndInput ==
  /\ ~ended
  /\ ended' = TRUE
  /\ UNCHANGED <<typed, output, network, reading, wrote, cuts>>

ServerWrites ==
  /\ conn = "up" /\ sent < MaxSent
  /\ sent' = sent + 1
  /\ inq' = Append(inq, sent + 1)
  /\ UNCHANGED <<input, output, conn, reading, wrote, cuts>>

\* "fin": an orderly close.  "answered": the server's host has been written to
\* since, and its reset is on the way.
ServerCloses ==
  /\ conn = "up"
  /\ conn' = "fin"
  /\ UNCHANGED <<input, output, inq, sent, reading, wrote, cuts>>

\* A close with unread input, the answer to a write after the close, or a
\* server that died.  What the client has not read may be lost with it.
Reset ==
  /\ conn \in {"up", "answered"}
  /\ conn' = "reset"
  /\ inq' \in {inq, <<>>}
  /\ UNCHANGED <<input, output, sent, reading, wrote, cuts>>

-----------------------------------------------------------------------------
(* read_file, one read of one byte at a time, and the main loop.            *)

Prepare(m) ==
  /\ message' = m
  /\ main' = "send"
  /\ start' = taken'

read_key ==
  /\ main = "read" /\ taken < Len(typed)
  /\ typed[taken + 1] = "key"
  /\ taken' = taken + 1
  /\ UNCHANGED <<input, start, main, message, network, reading, wrote, cuts>>

\* An empty line is not sent.
read_line ==
  /\ main = "read" /\ taken < Len(typed)
  /\ typed[taken + 1] = "enter"
  /\ taken' = taken + 1
  /\ IF start = taken
     THEN start' = taken' /\ UNCHANGED <<main, message>>
     ELSE Prepare(<<start, taken>>)
  /\ UNCHANGED <<input, network, reading, wrote, cuts>>

read_eof_DropsLastLine ==
  /\ main = "read" /\ taken = Len(typed) /\ ended
  /\ taken' = taken
  /\ Prepare(EOF)
  /\ UNCHANGED <<input, network, reading, wrote, cuts>>

\* End of input: what is left without an enter is a line; after that read_file
\* returns NULL at every call, and EOF is sent each time.
read_eof ==
  /\ main = "read" /\ taken = Len(typed) /\ ended
  /\ taken' = taken
  /\ Prepare(IF start < taken THEN <<start, taken>> ELSE EOF)
  /\ UNCHANGED <<input, network, reading, wrote, cuts>>

\* A signal fails the blocked read (no SA_RESTART): read_file frees its buffer
\* and returns NULL, and EOF is sent in place of the line.
read_interrupted ==
  /\ Signals
  /\ main = "read" /\ taken = Len(typed) /\ ~ended
  /\ taken' = taken
  /\ Prepare(EOF)
  /\ cuts' = cuts \cup {taken}
  /\ UNCHANGED <<input, network, reading, wrote>>

send_message_IgnoresError ==
  /\ main = "send"
  /\ main' = "read"
  /\ conn' = IF conn = "fin" THEN "answered" ELSE conn
  /\ wrote' = IF message = EOF THEN wrote ELSE Append(wrote, message)
  /\ UNCHANGED <<input, taken, start, message, inq, sent, reading, cuts>>

\* A write fails once the reset is there, and the process exits.
send_message ==
  /\ main = "send"
  /\ main' = IF conn = "reset" THEN "exited" ELSE "read"
  /\ conn' = IF conn = "fin" THEN "answered" ELSE conn
  /\ wrote' = IF message = EOF \/ conn = "reset" THEN wrote
              ELSE Append(wrote, message)
  /\ UNCHANGED <<input, taken, start, message, inq, sent, reading, cuts>>

Main == read_key \/ read_line \/ read_eof \/ send_message

-----------------------------------------------------------------------------
(* from_server and receive_message.                                         *)

Running(where) == main # "exited" /\ reader = where

\* A read takes what is there, as far as it fits.
TakeSome ==
  /\ \E n \in 1..Len(inq) :
       /\ buffer' = buffer \o SubSeq(inq, 1, n)
       /\ inq' = SubSeq(inq, n + 1, Len(inq))
  /\ reader' = "poll"
  /\ UNCHANGED shown

ReadFirst == Running("read") /\ TakeSome

\* End of file or an error: the thread exits.
ReadFirstFails ==
  /\ Running("read") /\ inq = <<>> /\ conn # "up"
  /\ reader' = "exited"
  /\ UNCHANGED <<inq, buffer, shown>>

ReadInterrupted ==
  /\ Signals
  /\ Running("read") /\ inq = <<>> /\ conn = "up"
  /\ reader' = "exited"
  /\ UNCHANGED <<inq, buffer, shown>>

ReadMore == Running("poll") /\ TakeSome

ShowForgetsToReset ==
  /\ Running("poll") /\ inq = <<>> /\ conn # "reset"
  /\ shown' = shown \o buffer
  /\ reader' = "read"
  /\ UNCHANGED <<inq, buffer>>

\* Nothing more, or end of file: what was read is printed.
Show ==
  /\ Running("poll") /\ inq = <<>> /\ conn # "reset"
  /\ shown' = shown \o buffer
  /\ buffer' = <<>>
  /\ reader' = "read"
  /\ UNCHANGED inq

ReadMoreFailsEarly ==
  /\ Running("poll") /\ inq = <<>> /\ conn # "up"
  /\ buffer' = <<>>
  /\ reader' = "exited"
  /\ UNCHANGED <<inq, shown>>

\* The read after the first one fails: receive_message frees what it has.
ReadMoreFails ==
  /\ Running("poll") /\ inq = <<>> /\ conn = "reset"
  /\ buffer' = <<>>
  /\ reader' = "exited"
  /\ UNCHANGED <<inq, shown>>

from_server ==
  /\ ReadFirst \/ ReadFirstFails \/ ReadMore \/ Show \/ ReadMoreFails
  /\ UNCHANGED <<input, output, conn, sent, wrote, cuts>>

-----------------------------------------------------------------------------
Next ==
  \/ Main
  \/ from_server
  \/ read_interrupted
  \/ ReadInterrupted /\ UNCHANGED <<input, output, conn, sent, wrote, cuts>>
  \/ Type("key") \/ Type("enter")
  \/ EndInput
  \/ ServerWrites
  \/ ServerCloses
  \/ Reset

\* Both threads run, and a reset that is on its way arrives.
Fairness == /\ WF_vars(Main)
            /\ WF_vars(from_server)
            /\ WF_vars(conn = "answered" /\ Reset)
Spec     == Init /\ [][Next]_vars /\ Fairness

-----------------------------------------------------------------------------
(* Safety.                                                                  *)

\* Between two enters, or from the start: where lines begin and end.
LineStarts(p) == p = 0 \/ typed[p] = "enter"
LineEnds(p)   == IF p = Len(typed) THEN ended ELSE typed[p + 1] = "enter"

\* What is written are whole lines, and every key the main thread is done with
\* was written, once and in the order it was typed.  Signals make the exception:
\* what came before one in its line is lost with the buffer of read_file, and
\* what comes after it goes out as a line.
IsLine(p, q) == /\ LineStarts(p) \/ p \in cuts
                /\ LineEnds(q)
                /\ \A k \in (p + 1)..q : typed[k] = "key"
Written(p)   == \E k \in DOMAIN wrote : wrote[k][1] < p /\ p <= wrote[k][2]
Cut(p)       == \E c \in cuts : p <= c /\ \A q \in p..c : typed[q] = "key"
LinesAreWritten ==
  /\ \A k \in DOMAIN wrote : IsLine(wrote[k][1], wrote[k][2])
  /\ \A j, k \in DOMAIN wrote :
       j < k => wrote[j][2] < wrote[k][1] \/ wrote[k][1] \in cuts
  /\ main = "read" =>
       \A p \in 1..start : typed[p] = "key" => Written(p) \/ Cut(p)

\* What the user sees is what the server wrote, nothing twice and nothing left
\* out in between, whatever reads it came in; at the end only may be missing
\* what was lost with the connection or with the thread.
ShownInOrder ==
  /\ \E n \in 0..sent : shown = Numbers(0, n)
  /\ (reader # "exited" /\ conn # "reset") => shown \o buffer \o inq = Numbers(0, sent)

-----------------------------------------------------------------------------
(* Liveness.                                                                *)

\* A server that writes and then closes in order is seen to the end by a user
\* who types nothing that provokes a reset, unless a signal ended from_server.
OrderlyEndIsShown ==
  [](conn # "reset" /\ ~(reader = "exited" /\ conn = "up")) =>
    (conn = "fin" ~> (main = "exited" \/ Len(shown) = sent))

\* The program ends after the game, once its input has ended too: the EOF it
\* keeps sending meets the reset, whatever from_server is doing.
ProgramEnds == (ended /\ conn # "up") ~> main = "exited"
=============================================================================
