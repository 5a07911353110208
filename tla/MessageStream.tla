---------------------------- MODULE MessageStream ---------------------------
(***************************************************************************)
(* How the server gets messages out of one connection: get_message of      *)
(* msg.h over receive_message and get_readable_socket of net.c.  TCP keeps *)
(* the client's bytes in order but not the boundaries of its writes, so    *)
(* get_message keeps what it has read in a buffer of the caller, returns   *)
(* the message at the front of it when there is a complete one, and else   *)
(* reads until the connection has been quiet for 501 milliseconds.         *)
(*                                                                         *)
(* A byte is not a useful unit here.  A message is cut, anywhere, into two *)
(* pieces; junk stands for any run of bytes that can neither begin nor     *)
(* complete a message.                                                     *)
(*                                                                         *)
(* Definitions that no other definition uses (PopAll, ReceiveOverwrites,   *)
(* ...) are faulty variants of the one that follows them.  Put in its      *)
(* place, each makes one of the properties fail.                           *)
(***************************************************************************)
EXTENDS Naturals, Sequences

CONSTANTS
  MaxMessages,  \* how many messages the client writes at most
  Junk          \* a run of bytes that is part of no message

Part  == {"front", "rest"}
Piece == [msg : 1..MaxMessages, part : Part]

ASSUME StreamAssumption == MaxMessages \in Nat /\ Junk \notin Piece

VARIABLES
  wire,       \* written by the client, on its way
  socket,     \* arrived, not read
  msg_buffer, \* read, not returned to the caller
  pc,         \* where get_message is
  peer,       \* whether the client has closed or reset the connection
  sent,       \* history: all the client wrote
  received    \* history: the messages returned, as their pieces

vars == <<wire, socket, msg_buffer, pc, peer, sent, received>>

\* One run of junk after another is one run.
Join(s, t) ==
  IF s # <<>> /\ t # <<>> /\ s[Len(s)] = Junk /\ Head(t) = Junk
  THEN s \o Tail(t) ELSE s \o t

Whole(m) == <<[msg |-> m, part |-> "front"], [msg |-> m, part |-> "rest"]>>

TypeOK ==
  /\ wire \in Seq(Piece \cup {Junk})
  /\ socket \in Seq(Piece \cup {Junk})
  /\ msg_buffer \in Seq(Piece \cup {Junk})
  /\ pc \in {"call", "receive", "gather", "return", "failed"}
  /\ peer \in {"up", "closed", "reset"}
  /\ sent \in Seq(Piece \cup {Junk})
  /\ received \in Seq(Piece)

Init ==
  /\ wire = <<>>
  /\ socket = <<>>
  /\ msg_buffer = <<>>
  /\ pc = "call"
  /\ peer = "up"
  /\ sent = <<>>
  /\ received = <<>>

-----------------------------------------------------------------------------
(* The client and the network.                                              *)

Write(data) ==
  /\ peer = "up"
  /\ pc # "failed"
  /\ wire' = Join(wire, data)
  /\ sent' = Join(sent, data)
  /\ UNCHANGED <<socket, msg_buffer, pc, peer, received>>

\* The messages are numbered in the order they are begun; a message may be
\* given up half way, and the rest of it never written.
Begun(m)  == \E k \in DOMAIN sent : sent[k] = Whole(m)[1]
NextMessage == CHOOSE m \in 1..(MaxMessages + 1) :
                 /\ m \in 1..MaxMessages => ~Begun(m)
                 /\ \A j \in 1..(m - 1) : Begun(j)

WriteFront ==
  /\ NextMessage <= MaxMessages
  /\ Write(<<Whole(NextMessage)[1]>>)

WriteRest ==
  /\ sent # <<>> /\ sent[Len(sent)] \in Piece
  /\ sent[Len(sent)].part = "front"
  /\ Write(<<Whole(sent[Len(sent)].msg)[2]>>)

WriteJunk == Write(<<Junk>>)

Arrive ==
  /\ wire # <<>>
  /\ wire' = Tail(wire)
  /\ socket' = Join(socket, <<Head(wire)>>)
  /\ UNCHANGED <<msg_buffer, pc, peer, sent, received>>

\* The end of file comes after the data; a reset destroys what is on its way.
HangUp ==
  /\ peer = "up"
  /\ \/ peer' = "closed" /\ UNCHANGED wire
     \/ peer' = "reset" /\ wire' = <<>>
  /\ UNCHANGED <<socket, msg_buffer, pc, sent, received>>

-----------------------------------------------------------------------------
(* get_message.                                                             *)

CompleteExactly(buffer) ==
  /\ Len(buffer) = 2
  /\ buffer[1] \in Piece
  /\ buffer = Whole(buffer[1].msg)

\* is_complete_msg looks at the front of the buffer only.
Complete(buffer) ==
  /\ Len(buffer) >= 2
  /\ buffer[1] \in Piece
  /\ SubSeq(buffer, 1, 2) = Whole(buffer[1].msg)

PopAll ==
  /\ received' = received \o SubSeq(msg_buffer, 1, 2)
  /\ msg_buffer' = <<>>
  /\ pc' = "call"

\* get_complete_message returns the first message and keeps what follows it.
Pop ==
  /\ received' = received \o SubSeq(msg_buffer, 1, 2)
  /\ msg_buffer' = SubSeq(msg_buffer, 3, Len(msg_buffer))
  /\ pc' = "call"

AtEof == peer # "up" /\ wire = <<>>

\* What receive_message returns: all the socket has.  It fails at end of file,
\* and when it runs into a reset, though it may by then hold data.
ReceiveSucceeds == socket # <<>>
ReceiveFails == \/ AtEof /\ socket = <<>>
                \/ peer = "reset"

ReceiveOverwrites == msg_buffer' = socket /\ socket' = <<>>

Receive == msg_buffer' = Join(msg_buffer, socket) /\ socket' = <<>>

Fail ==
  /\ pc' = "failed"
  /\ UNCHANGED <<wire, peer, sent, received>>

\* A complete message in the buffer is returned without reading.
CallBuffered ==
  /\ pc = "call" /\ Complete(msg_buffer)
  /\ Pop
  /\ UNCHANGED <<wire, socket, peer, sent>>

CallAlwaysReceives ==
  /\ pc = "call" /\ ~Complete(msg_buffer)
  /\ pc' = "receive"
  /\ UNCHANGED <<wire, socket, msg_buffer, peer, sent, received>>

Call ==
  /\ pc = "call" /\ ~Complete(msg_buffer)
  /\ pc' = IF msg_buffer = <<>> THEN "receive" ELSE "gather"
  /\ UNCHANGED <<wire, socket, msg_buffer, peer, sent, received>>

\* The first read blocks for as long as it takes.
ReceiveFirst ==
  /\ pc = "receive" /\ ReceiveSucceeds
  /\ Receive
  /\ pc' = "gather"
  /\ UNCHANGED <<wire, peer, sent, received>>

ReceiveFirstFails ==
  /\ pc = "receive" /\ ReceiveFails
  /\ socket' = <<>>
  /\ Fail
  /\ UNCHANGED msg_buffer

\* The loop goes round for as long as the socket is readable ...
GatherMore ==
  /\ pc = "gather" /\ ReceiveSucceeds
  /\ Receive
  /\ UNCHANGED <<wire, pc, peer, sent, received>>

\* ... and ends when poll times out, which takes a quiet connection, or when
\* the read fails.
Quiet ==
  /\ pc = "gather"
  /\ socket = <<>>
  /\ pc' = "return"
  /\ UNCHANGED <<wire, socket, msg_buffer, peer, sent, received>>

GatherFails ==
  /\ pc = "gather" /\ ReceiveFails
  /\ socket # <<>>
  /\ socket' = <<>>
  /\ pc' = "return"
  /\ UNCHANGED <<wire, msg_buffer, peer, sent, received>>

ReturnMessage ==
  /\ pc = "return" /\ Complete(msg_buffer)
  /\ Pop
  /\ UNCHANGED <<wire, socket, peer, sent>>

\* Both callers answer the failure with INVL and close the connection.
ReturnError ==
  /\ pc = "return" /\ ~Complete(msg_buffer)
  /\ msg_buffer' = <<>>
  /\ socket' = socket
  /\ Fail

GetMessage ==
  \/ CallBuffered
  \/ Call
  \/ ReceiveFirst
  \/ ReceiveFirstFails
  \/ GatherMore
  \/ Quiet
  \/ GatherFails
  \/ ReturnMessage
  \/ ReturnError

-----------------------------------------------------------------------------
Next ==
  \/ WriteFront
  \/ WriteRest
  \/ WriteJunk
  \/ HangUp
  \/ Arrive
  \/ GetMessage

\* The thread runs and TCP delivers; nothing makes the client write or stop.
Fairness == WF_vars(GetMessage) /\ WF_vars(Arrive)
Spec     == Init /\ [][Next]_vars /\ Fairness

-----------------------------------------------------------------------------
(* Safety.                                                                  *)

\* Nothing is lost, repeated or reordered between the client's writes and the
\* callers of get_message, however the stream is cut and however many messages
\* arrive in one read.
NothingLost ==
  (pc # "failed" /\ peer # "reset")
    => Join(Join(Join(received, msg_buffer), socket), wire) = sent

\* The messages returned are the first ones the client wrote, in order, also
\* on a connection that breaks or turns malformed.
InOrder ==
  /\ Len(received) <= Len(sent)
  /\ \A k \in DOMAIN received : received[k] = sent[k]

\* get_message fails only when the front of what it read is no message, never
\* because of what follows it: a client is not cut off for its next message
\* arriving in halves.
FailsOnlyIncomplete ==
  [][pc # "failed" /\ pc' = "failed"
       => \A m \in 1..MaxMessages :
            ~(Len(msg_buffer) >= 2 /\ SubSeq(msg_buffer, 1, 2) = Whole(m))]_vars

-----------------------------------------------------------------------------
(* Liveness.                                                                *)

\* From some time on the client writes nothing.
EventuallySilent == <>[][sent' = sent /\ ~WriteJunk]_vars

\* Once the client falls silent, every message it completed is returned or the
\* connection is failed, and on what is no message it is failed (INVL and close,
\* what requirements.txt J.3 says), however it was cut.  Not before: while junk
\* keeps coming the loop that waits for a quiet connection goes on.
MessageReturned ==
  EventuallySilent =>
    /\ \A m \in 1..MaxMessages :
         (\E k \in DOMAIN sent : sent[k] = Whole(m)[2])
           ~> (pc = "failed" \/ \E k \in DOMAIN received :
                                  received[k] = Whole(m)[2])
    /\ (msg_buffer # <<>> /\ Head(msg_buffer) = Junk) ~> pc = "failed"
=============================================================================
