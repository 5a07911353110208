---------------------------- MODULE ClientProofs ----------------------------
(***************************************************************************)
(* Proofs about Client, for any number of keys, pieces and signals: lines  *)
(* go out whole, once and in order, and what the server wrote is shown in  *)
(* order.                                                                  *)
(***************************************************************************)
EXTENDS Client, SequenceTheorems, TLAPS

-----------------------------------------------------------------------------
(* The inductive invariant.                                                 *)

\* The main thread and what is typed.
MainTypes ==
  /\ typed \in Seq({"key", "enter"}) /\ ended \in BOOLEAN
  /\ taken \in 0..Len(typed) /\ start \in 0..taken
  /\ main \in {"read", "send", "exited"}
  /\ message \in Nat \X Nat
  /\ wrote \in Seq(Nat \X Nat)
  /\ cuts \subseteq 0..taken

\* The connection and from_server.
ReaderTypes ==
  /\ conn \in {"up", "fin", "answered", "reset"}
  /\ inq \in Seq(Nat) /\ sent \in Nat
  /\ reader \in {"read", "poll", "exited"}
  /\ buffer \in Seq(Nat) /\ shown \in Seq(Nat)

\* Where the next line may start: after an enter, at a signal, or nowhere.
AtEnd    == ended /\ start = Len(typed)
StartOK  == LineStarts(start) \/ start \in cuts \/ AtEnd
EndsBefore(q) == q < start \/ start \in cuts \/ AtEnd

\* The keys of the line in the buffer of read_file.
KeysBuffered == main = "read" => \A k \in (start + 1)..taken : typed[k] = "key"

IsWhole(m) == m[1] < m[2] /\ m[2] <= start /\ IsLine(m[1], m[2]) /\ EndsBefore(m[2])
Follows(m) == \A j \in DOMAIN wrote : wrote[j][2] < m[1] \/ m[1] \in cuts
WroteLines ==
  /\ \A k \in DOMAIN wrote : IsWhole(wrote[k])
  /\ \A j, k \in DOMAIN wrote :
       j < k => wrote[j][2] < wrote[k][1] \/ wrote[k][1] \in cuts

\* The line that read_file returned is yet to be written.
Pending ==
  main = "send" => /\ start = taken
                   /\ message # EOF => IsWhole(message) /\ Follows(message)

Covered(p) == \/ Written(p) \/ Cut(p)
              \/ main = "send" /\ message[1] < p /\ p <= message[2]
NothingDropped ==
  main # "exited" => \A p \in 1..start : typed[p] = "key" => Covered(p)

LinesInv == StartOK /\ KeysBuffered /\ WroteLines /\ Pending /\ NothingDropped

\* The pieces, by their numbers, from the first on.
InSequence(s) == \A k \in DOMAIN s : s[k] = k
Arrived == shown \o buffer \o inq
PiecesInv ==
  /\ InSequence(shown) /\ Len(shown) <= sent
  /\ reader # "exited" => InSequence(Arrived) /\ Len(Arrived) <= sent
  /\ reader # "exited" /\ conn # "reset" => Len(Arrived) = sent
  /\ reader = "read" => buffer = <<>>

CInv == MainTypes /\ ReaderTypes /\ LinesInv /\ PiecesInv

LEMMA InitClient == Init => CInv
<1> SUFFICES ASSUME Init PROVE CInv
  OBVIOUS
<1>1. MainTypes
  <2>1. Len(typed) = 0 /\ typed \in Seq({"key", "enter"}) /\ wrote \in Seq(Nat \X Nat)
    BY DEF Init
  <2>2. taken \in 0..Len(typed) /\ start \in 0..taken /\ message \in Nat \X Nat
    BY <2>1 DEF Init, EOF
  <2> QED BY <2>1, <2>2 DEF Init, MainTypes
<1>2. ReaderTypes
  BY DEF Init, ReaderTypes
<1>3. LinesInv
  BY DEF Init, LinesInv, StartOK, LineStarts, KeysBuffered, WroteLines, Pending,
     NothingDropped
<1>4. PiecesInv
  BY DEF Init, PiecesInv, InSequence, Arrived
<1> QED BY <1>1, <1>2, <1>3, <1>4 DEF CInv

-----------------------------------------------------------------------------
(* What each part of the program leaves alone.                              *)

outgoing == <<typed, ended, taken, start, main, message, wrote, cuts>>
incoming == <<inq, reader, buffer, shown, sent>>

LEMMA Parts ==
  ASSUME [Next]_vars
  PROVE  \/ UNCHANGED vars
         \/ Main \/ read_interrupted
         \/ (Type("key") \/ Type("enter") \/ EndInput)
         \/ (ServerWrites \/ ServerCloses \/ Reset) /\ UNCHANGED outgoing
         \/ /\ \/ reader \in {"read", "poll"} /\ TakeSome
               \/ ReadFirstFails \/ Show \/ ReadMoreFails \/ ReadInterrupted
            /\ UNCHANGED <<outgoing, conn, sent>>
<1>1. ServerWrites \/ ServerCloses \/ Reset => UNCHANGED outgoing
  BY DEF ServerWrites, ServerCloses, Reset, outgoing, input, output
<1>2. UNCHANGED <<input, output, conn, sent, wrote, cuts>>
        => UNCHANGED <<outgoing, conn, sent>>
  BY DEF outgoing, input, output
<1>3. from_server => UNCHANGED <<input, output, conn, sent, wrote, cuts>>
  BY DEF from_server
<1>4. from_server => \/ reader \in {"read", "poll"} /\ TakeSome
                     \/ ReadFirstFails \/ Show \/ ReadMoreFails
  BY DEF from_server, ReadFirst, ReadMore, Running
<1> QED BY <1>1, <1>2, <1>3, <1>4 DEF Next

-----------------------------------------------------------------------------
(* What is shown.                                                           *)

\* Sequences of numbers, put together.
LEMMA Numbered ==
  ASSUME NEW s \in Seq(Nat), NEW t \in Seq(Nat)
  PROVE  /\ s \o t \in Seq(Nat) /\ Len(s \o t) = Len(s) + Len(t)
         /\ \A k \in 1..Len(s) : (s \o t)[k] = s[k]
         /\ \A k \in 1..Len(t) : (s \o t)[Len(s) + k] = t[k]
  OBVIOUS

LEMMA Thirds ==
  ASSUME NEW s \in Seq(Nat), NEW t \in Seq(Nat), NEW u \in Seq(Nat)
  PROVE  InSequence(s \o t \o u) <=>
           /\ InSequence(s)
           /\ \A k \in 1..Len(t) : t[k] = Len(s) + k
           /\ \A k \in 1..Len(u) : u[k] = Len(s) + Len(t) + k
<1> DEFINE r == s \o t
           q == r \o u
<1>1. /\ r \in Seq(Nat) /\ Len(r) = Len(s) + Len(t)
      /\ \A k \in 1..Len(s) : r[k] = s[k]
      /\ \A k \in 1..Len(t) : r[Len(s) + k] = t[k]
  BY Numbered
<1> HIDE DEF r
<1>2. /\ q \in Seq(Nat) /\ Len(q) = Len(r) + Len(u)
      /\ \A k \in 1..Len(r) : q[k] = r[k]
      /\ \A k \in 1..Len(u) : q[Len(r) + k] = u[k]
  BY <1>1, Numbered
<1> HIDE DEF q
<1>3. Len(s) \in Nat /\ Len(t) \in Nat /\ Len(u) \in Nat
  OBVIOUS
<1>4. /\ DOMAIN s = 1..Len(s)
      /\ DOMAIN q = 1..(Len(s) + Len(t) + Len(u))
  BY <1>1, <1>2
<1>5. /\ \A k \in 1..Len(s) : q[k] = s[k]
      /\ \A k \in 1..Len(t) : q[Len(s) + k] = t[k]
      /\ \A k \in 1..Len(u) : q[Len(s) + Len(t) + k] = u[k]
  <2>1. \A k \in 1..Len(s) : k \in 1..Len(r)
    BY <1>1, <1>3
  <2>2. \A k \in 1..Len(t) : Len(s) + k \in 1..Len(r)
    BY <1>1, <1>3
  <2> QED BY <1>1, <1>2, <2>1, <2>2
<1>6. ASSUME InSequence(q)
      PROVE  /\ InSequence(s)
             /\ \A k \in 1..Len(t) : t[k] = Len(s) + k
             /\ \A k \in 1..Len(u) : u[k] = Len(s) + Len(t) + k
  <2>1. \A k \in 1..Len(s) : k \in DOMAIN q
    BY <1>3, <1>4
  <2>2. \A k \in 1..Len(t) : Len(s) + k \in DOMAIN q
    BY <1>3, <1>4
  <2>3. \A k \in 1..Len(u) : Len(s) + Len(t) + k \in DOMAIN q
    BY <1>3, <1>4
  <2> QED BY <1>4, <1>5, <1>6, <2>1, <2>2, <2>3 DEF InSequence
<1>7. ASSUME InSequence(s),
             \A k \in 1..Len(t) : t[k] = Len(s) + k,
             \A k \in 1..Len(u) : u[k] = Len(s) + Len(t) + k,
             NEW k \in 1..(Len(s) + Len(t) + Len(u))
      PROVE  q[k] = k
  <2>1. CASE k <= Len(s)
    <3>1. k \in 1..Len(s)
      BY <1>3, <2>1
    <3> QED BY <1>4, <1>5, <1>7, <3>1 DEF InSequence
  <2>2. CASE k > Len(s) /\ k <= Len(s) + Len(t)
    <3>1. k - Len(s) \in 1..Len(t) /\ k = Len(s) + (k - Len(s))
      BY <1>3, <2>2
    <3> QED BY <1>3, <1>5, <1>7, <3>1
  <2>3. CASE k > Len(s) + Len(t)
    <3>1. /\ k - Len(s) - Len(t) \in 1..Len(u)
          /\ k = Len(s) + Len(t) + (k - Len(s) - Len(t))
      BY <1>3, <2>3
    <3> QED BY <1>3, <1>5, <1>7, <3>1
  <2> QED BY <1>3, <2>1, <2>2, <2>3
<1>8. q = s \o t \o u
  BY DEF q, r
<1> QED BY <1>4, <1>6, <1>7, <1>8 DEF InSequence

LEMMA ThirdsLength ==
  ASSUME NEW s \in Seq(Nat), NEW t \in Seq(Nat), NEW u \in Seq(Nat)
  PROVE  Len(s \o t \o u) = Len(s) + Len(t) + Len(u)
  OBVIOUS

\* A read moves the front of inq to the end of the buffer.
LEMMA Taking ==
  ASSUME ReaderTypes, TakeSome
  PROVE  /\ buffer' \in Seq(Nat) /\ inq' \in Seq(Nat) /\ reader' = "poll"
         /\ Len(buffer') + Len(inq') = Len(buffer) + Len(inq)
         /\ InSequence(Arrived) => InSequence(Arrived')
<1>1. PICK n \in 1..Len(inq) : /\ buffer' = buffer \o SubSeq(inq, 1, n)
                               /\ inq' = SubSeq(inq, n + 1, Len(inq))
  BY DEF TakeSome
<1> DEFINE f == SubSeq(inq, 1, n)
           b == Len(buffer)
<1>2. /\ inq \in Seq(Nat) /\ buffer \in Seq(Nat) /\ shown \in Seq(Nat)
      /\ Len(inq) \in Nat /\ b \in Nat /\ n \in Nat /\ n <= Len(inq)
  BY DEF ReaderTypes
<1>3. /\ f \in Seq(Nat) /\ Len(f) = n
      /\ \A k \in 1..n : f[k] = inq[k]
  BY <1>2
<1>4. /\ inq' \in Seq(Nat) /\ Len(inq') = Len(inq) - n
      /\ \A k \in 1..(Len(inq) - n) : inq'[k] = inq[n + k]
  BY <1>1, <1>2
<1> HIDE DEF f
<1>5. /\ buffer' \in Seq(Nat) /\ Len(buffer') = b + n
      /\ \A k \in 1..b : buffer'[k] = buffer[k]
      /\ \A k \in 1..n : buffer'[b + k] = inq[k]
  <2>1. buffer' = buffer \o f
    BY <1>1 DEF f
  <2> QED BY <1>2, <1>3, <2>1, Numbered
<1>6. shown' = shown /\ reader' = "poll"
  BY DEF TakeSome
<1>7. ASSUME InSequence(Arrived) PROVE InSequence(Arrived')
  <2> DEFINE s == Len(shown)
  <2>1. /\ InSequence(shown)
        /\ \A k \in 1..b : buffer[k] = s + k
        /\ \A k \in 1..Len(inq) : inq[k] = s + b + k
    BY <1>2, <1>7, Thirds DEF Arrived
  <2>2. s \in Nat
    BY <1>2
  <2>3. ASSUME NEW k \in 1..Len(buffer') PROVE buffer'[k] = s + k
    <3>1. CASE k <= b
      BY <1>2, <1>5, <2>1, <3>1
    <3>2. CASE k > b
      <4>1. k - b \in 1..n /\ k - b \in 1..Len(inq) /\ k = b + (k - b)
        BY <1>2, <1>5, <3>2
      <4>2. buffer'[k] = inq[k - b]
        BY <1>5, <4>1
      <4> QED BY <1>2, <2>1, <2>2, <4>1, <4>2
    <3> QED BY <1>2, <3>1, <3>2
  <2>4. ASSUME NEW k \in 1..Len(inq') PROVE inq'[k] = s + Len(buffer') + k
    <3>1. n + k \in 1..Len(inq) /\ inq'[k] = inq[n + k]
      BY <1>2, <1>4
    <3> QED BY <1>2, <1>5, <2>1, <2>2, <3>1
  <2> QED BY <1>2, <1>4, <1>5, <1>6, <2>1, <2>3, <2>4, Thirds DEF Arrived
<1> QED BY <1>2, <1>4, <1>5, <1>6, <1>7

LEMMA ArrivedInSequence ==
  ASSUME shown' \in Seq(Nat), buffer' \in Seq(Nat), inq' \in Seq(Nat),
         InSequence(shown'),
         \A k \in 1..Len(buffer') : buffer'[k] = Len(shown') + k,
         \A k \in 1..Len(inq') : inq'[k] = Len(shown') + Len(buffer') + k
  PROVE  InSequence(Arrived')
  BY Thirds DEF Arrived

LEMMA ReaderTypesStep == ReaderTypes /\ [Next]_vars => ReaderTypes'
<1> SUFFICES ASSUME ReaderTypes, [Next]_vars PROVE ReaderTypes'
  OBVIOUS
<1> USE DEF ReaderTypes
<1>1. CASE UNCHANGED vars \/ Type("key") \/ Type("enter") \/ EndInput
  BY <1>1 DEF vars, Type, EndInput, network, reading
<1>2. CASE Main \/ read_interrupted
  BY <1>2 DEF Main, read_key, read_line, read_eof, read_interrupted, send_message,
     network, reading
<1>3. CASE ServerWrites
  BY <1>3 DEF ServerWrites, reading
<1>4. CASE ServerCloses
  BY <1>4 DEF ServerCloses, reading
<1>5. CASE Reset
  <2>1. inq' = inq \/ inq' = <<>>
    BY <1>5 DEF Reset
  <2>2. inq' \in Seq(Nat)
    <3>1. inq \in Seq(Nat) /\ <<>> \in Seq(Nat)
      OBVIOUS
    <3> QED BY <2>1, <3>1
  <2> QED BY <1>5, <2>2 DEF Reset, reading
<1>6. CASE TakeSome /\ UNCHANGED <<conn, sent>>
  <2>1. shown' = shown
    BY <1>6 DEF TakeSome
  <2> QED BY <1>6, <2>1, Taking
<1>7. CASE /\ ReadFirstFails \/ Show \/ ReadMoreFails \/ ReadInterrupted
           /\ UNCHANGED <<conn, sent>>
  <2>1. buffer' \in Seq(Nat) /\ inq' = inq /\ reader' \in {"read", "exited"}
    BY <1>7 DEF ReadFirstFails, Show, ReadMoreFails, ReadInterrupted
  <2>2. shown' = shown \/ shown' = shown \o buffer
    BY <1>7 DEF ReadFirstFails, Show, ReadMoreFails, ReadInterrupted
  <2>3. shown' \in Seq(Nat)
    <3>1. shown \in Seq(Nat) /\ shown \o buffer \in Seq(Nat)
      OBVIOUS
    <3> QED BY <2>2, <3>1
  <2> QED BY <1>7, <2>1, <2>3
<1> QED BY <1>1, <1>2, <1>3, <1>4, <1>5, <1>6, <1>7, Parts

LEMMA PiecesStep == ReaderTypes /\ PiecesInv /\ [Next]_vars => PiecesInv'
<1> SUFFICES ASSUME ReaderTypes, PiecesInv, [Next]_vars PROVE PiecesInv'
  OBVIOUS
<1>1. /\ inq \in Seq(Nat) /\ buffer \in Seq(Nat) /\ shown \in Seq(Nat) /\ sent \in Nat
      /\ Arrived \in Seq(Nat)
      /\ Len(Arrived) = Len(shown) + Len(buffer) + Len(inq)
  BY ThirdsLength, Numbered DEF ReaderTypes, Arrived
<1>2. /\ inq' \in Seq(Nat) /\ buffer' \in Seq(Nat) /\ shown' \in Seq(Nat)
      /\ Len(Arrived') = Len(shown') + Len(buffer') + Len(inq')
  BY ReaderTypesStep, ThirdsLength DEF ReaderTypes, Arrived
<1>3. CASE UNCHANGED <<incoming, conn>>
  BY <1>3 DEF incoming, PiecesInv, Arrived, InSequence
<1>4. CASE \/ UNCHANGED vars \/ Type("key") \/ Type("enter") \/ EndInput
           \/ read_key \/ read_line \/ read_eof \/ read_interrupted
  <2>1. UNCHANGED <<incoming, conn>>
    BY <1>4 DEF vars, Type, EndInput, read_key, read_line, read_eof,
       read_interrupted, network, reading, incoming
  <2> QED BY <1>3, <2>1
<1>5. CASE send_message \/ ServerCloses
  <2>1. UNCHANGED incoming /\ (conn' # "reset" => conn # "reset")
    BY <1>5 DEF send_message, ServerCloses, reading, incoming
  <2> QED BY <2>1 DEF incoming, PiecesInv, Arrived, InSequence
<1>6. CASE ServerWrites
  <2>1. /\ inq' = Append(inq, sent + 1) /\ sent' = sent + 1 /\ conn = "up"
        /\ UNCHANGED <<shown, buffer, reader, conn>>
    BY <1>6 DEF ServerWrites, reading
  <2>2. CASE reader = "exited"
    BY <1>1, <2>1, <2>2 DEF PiecesInv
  <2>3. CASE reader # "exited"
    <3>1. /\ InSequence(shown)
          /\ \A k \in 1..Len(buffer) : buffer[k] = Len(shown) + k
          /\ \A k \in 1..Len(inq) : inq[k] = Len(shown) + Len(buffer) + k
          /\ sent = Len(shown) + Len(buffer) + Len(inq)
      BY <1>1, <2>1, <2>3, Thirds DEF PiecesInv, Arrived
    <3>2. /\ Len(inq') = Len(inq) + 1 /\ inq'[Len(inq) + 1] = sent + 1
          /\ \A k \in 1..Len(inq) : inq'[k] = inq[k]
      BY <1>1, <2>1
    <3>3. \A k \in 1..Len(inq') : inq'[k] = Len(shown) + Len(buffer) + k
      <4>1. ASSUME NEW k \in 1..Len(inq')
            PROVE  inq'[k] = Len(shown) + Len(buffer) + k
        <5>1. k \in 1..Len(inq) \/ k = Len(inq) + 1
          BY <1>1, <3>2
        <5> QED BY <1>1, <3>1, <3>2, <5>1
      <4> QED BY <4>1
    <3>4. InSequence(Arrived')
      BY <1>2, <2>1, <3>1, <3>3, ArrivedInSequence
    <3> QED BY <1>1, <1>2, <2>1, <3>1, <3>2, <3>4 DEF PiecesInv
  <2> QED BY <2>2, <2>3
<1>7. CASE Reset
  <2>1. /\ inq' = inq \/ inq' = <<>>
        /\ conn' = "reset" /\ UNCHANGED <<shown, buffer, reader, sent>>
    BY <1>7 DEF Reset, reading
  <2>2. CASE inq' = inq
    BY <2>1, <2>2 DEF PiecesInv, Arrived, InSequence
  <2>3. CASE inq' = <<>>
    <3>1. InSequence(Arrived) => InSequence(Arrived')
      <4> SUFFICES ASSUME InSequence(Arrived) PROVE InSequence(Arrived')
        OBVIOUS
      <4>1. /\ InSequence(shown)
            /\ \A k \in 1..Len(buffer) : buffer[k] = Len(shown) + k
        BY <1>1, Thirds DEF Arrived
      <4>2. Len(inq') = 0
        BY <2>3
      <4> QED BY <1>2, <2>1, <4>1, <4>2, ArrivedInSequence
    <3>2. Len(Arrived') <= Len(Arrived)
      BY <1>1, <1>2, <2>1, <2>3
    <3> QED BY <1>1, <1>2, <2>1, <3>1, <3>2 DEF PiecesInv
  <2> QED BY <2>1, <2>2, <2>3
<1>8. CASE reader \in {"read", "poll"} /\ TakeSome /\ UNCHANGED <<conn, sent>>
  <2>1. shown' = shown
    BY <1>8 DEF TakeSome
  <2>2. /\ reader' = "poll" /\ (InSequence(Arrived) => InSequence(Arrived'))
        /\ Len(buffer') + Len(inq') = Len(buffer) + Len(inq)
    BY <1>8, Taking
  <2>3. Len(Arrived') = Len(Arrived)
    <3>1. /\ Len(buffer) \in Nat /\ Len(inq) \in Nat /\ Len(shown) \in Nat
          /\ Len(buffer') \in Nat /\ Len(inq') \in Nat /\ Len(shown') = Len(shown)
      BY <1>1, <1>2, <2>1
    <3>2. Len(Arrived) = Len(shown) + Len(buffer) + Len(inq)
      BY <1>1
    <3>3. Len(Arrived') = Len(shown') + Len(buffer') + Len(inq')
      BY <1>2
    <3> QED BY <2>2, <3>1, <3>2, <3>3
  <2> QED BY <1>8, <2>1, <2>2, <2>3 DEF PiecesInv
<1>9. CASE Show /\ UNCHANGED <<conn, sent>>
  <2>1. /\ inq = <<>> /\ inq' = <<>> /\ buffer' = <<>> /\ reader = "poll"
        /\ reader' = "read" /\ shown' = shown \o buffer
    BY <1>9 DEF Show, Running
  <2>2. shown \o buffer \o <<>> = shown \o buffer
    BY <1>1, Numbered
  <2>3. Arrived = shown \o buffer
    BY <2>1, <2>2 DEF Arrived
  <2>4. shown' \o <<>> = shown' /\ shown' \o <<>> \o <<>> = shown'
    BY <1>2
  <2>5. Arrived' = Arrived /\ Len(inq) = 0
    BY <2>1, <2>3, <2>4 DEF Arrived
  <2> QED BY <1>1, <1>2, <1>9, <2>1, <2>3, <2>5 DEF PiecesInv
<1>10. CASE /\ ReadFirstFails \/ ReadMoreFails \/ ReadInterrupted
            /\ UNCHANGED <<conn, sent>>
  <2>1. reader' = "exited" /\ shown' = shown
    BY <1>10 DEF ReadFirstFails, ReadMoreFails, ReadInterrupted
  <2> QED BY <1>10, <2>1 DEF PiecesInv
<1> QED BY <1>4, <1>5, <1>6, <1>7, <1>8, <1>9, <1>10, Parts DEF Main

-----------------------------------------------------------------------------
(* What is written.                                                         *)

LEMMA Measures ==
  ASSUME MainTypes
  PROVE  /\ Len(typed) \in Nat /\ DOMAIN typed = 1..Len(typed)
         /\ taken \in Nat /\ taken <= Len(typed) /\ start \in Nat /\ start <= taken
         /\ \A c \in cuts : c \in Nat /\ c <= Len(typed)
         /\ message[1] \in Nat /\ message[2] \in Nat
         /\ \A k \in DOMAIN wrote : /\ wrote[k] \in Nat \X Nat
                                    /\ wrote[k][1] \in Nat /\ wrote[k][2] \in Nat
  BY DEF MainTypes

LEMMA MainTypesStep == MainTypes /\ [Next]_vars => MainTypes'
<1> SUFFICES ASSUME MainTypes, [Next]_vars PROVE MainTypes'
  OBVIOUS
<1> USE DEF MainTypes
<1>1. CASE UNCHANGED vars
  BY <1>1 DEF vars, input, output
<1>2. CASE Type("key") \/ Type("enter")
  <2>1. PICK x \in {"key", "enter"} : typed' = Append(typed, x)
    BY <1>2 DEF Type
  <2>2. typed' \in Seq({"key", "enter"}) /\ Len(typed') = Len(typed) + 1
    BY <2>1
  <2>3. UNCHANGED <<ended, taken, start, main, message, wrote, cuts>>
    BY <1>2 DEF Type, output
  <2> QED BY <2>2, <2>3
<1>3. CASE EndInput
  BY <1>3 DEF EndInput, output
<1>4. CASE read_key
  BY <1>4 DEF read_key, input
<1>5. CASE read_line
  BY <1>5 DEF read_line, Prepare, input
<1>6. CASE read_eof
  BY <1>6 DEF read_eof, Prepare, EOF, input
<1>7. CASE read_interrupted
  BY <1>7 DEF read_interrupted, Prepare, EOF, input
<1>8. CASE send_message
  BY <1>8 DEF send_message, input
<1>9. CASE UNCHANGED outgoing
  BY <1>9 DEF outgoing
<1> QED BY <1>1, <1>2, <1>3, <1>4, <1>5, <1>6, <1>7, <1>8, <1>9, Parts
        DEF Main, outgoing

\* A step that types or reads on, or is cut by a signal.
OnlyMore ==
  /\ Len(typed) <= Len(typed') /\ \A k \in 1..Len(typed) : typed'[k] = typed[k]
  /\ ended => ended' /\ typed' = typed
  /\ start <= start'
  /\ cuts \subseteq cuts'

LEMMA LinesStay ==
  ASSUME MainTypes, MainTypes', OnlyMore
  PROVE  /\ \A p, q \in 0..Len(typed) : IsLine(p, q) => IsLine(p, q)'
         /\ \A p \in 0..Len(typed) : LineStarts(p) => LineStarts(p)'
         /\ \A p \in Nat \ {0} : Cut(p) => Cut(p)'
         /\ \A m \in Nat \X Nat : IsWhole(m) => IsWhole(m)'
<1> USE Measures DEF OnlyMore
<1>1. ASSUME NEW p \in 0..Len(typed), LineStarts(p) PROVE LineStarts(p)'
  BY <1>1 DEF LineStarts
<1>2. ASSUME NEW q \in 0..Len(typed), LineEnds(q) PROVE LineEnds(q)'
  <2>1. CASE q = Len(typed)
    BY <1>2, <2>1 DEF LineEnds
  <2>2. CASE q # Len(typed)
    <3>1. q + 1 \in 1..Len(typed) /\ Len(typed') \in Nat
      BY <2>2, MainTypes' DEF MainTypes
    <3> QED BY <1>2, <2>2, <3>1 DEF LineEnds
  <2> QED BY <2>1, <2>2
<1>3. ASSUME NEW p \in 0..Len(typed), NEW q \in 0..Len(typed), IsLine(p, q)
      PROVE  IsLine(p, q)'
  <2>1. LineStarts(p)' \/ p \in cuts'
    BY <1>1, <1>3 DEF IsLine
  <2>2. LineEnds(q)'
    BY <1>2, <1>3 DEF IsLine
  <2>3. \A k \in (p + 1)..q : k \in 1..Len(typed)
    OBVIOUS
  <2>4. \A k \in (p + 1)..q : typed'[k] = "key"
    BY <1>3, <2>3 DEF IsLine
  <2> QED BY <2>1, <2>2, <2>4 DEF IsLine
<1>4. ASSUME NEW p \in Nat \ {0}, Cut(p) PROVE Cut(p)'
  <2>1. PICK c \in cuts : p <= c /\ \A q \in p..c : typed[q] = "key"
    BY <1>4 DEF Cut
  <2>2. c \in cuts' /\ c \in Nat /\ c <= Len(typed)
    OBVIOUS
  <2>3. \A q \in p..c : q \in 1..Len(typed)
    BY <2>2
  <2>4. \A q \in p..c : typed'[q] = "key"
    BY <2>1, <2>3
  <2> QED BY <2>1, <2>2, <2>4 DEF Cut
<1>5. ASSUME NEW m \in Nat \X Nat, IsWhole(m) PROVE IsWhole(m)'
  <2>1. m[1] \in 0..Len(typed) /\ m[2] \in 0..Len(typed)
    BY <1>5 DEF IsWhole
  <2>2. IsLine(m[1], m[2])'
    BY <1>3, <1>5, <2>1 DEF IsWhole
  <2>3. m[1] < m[2] /\ m[2] <= start'
    <3>1. m[1] < m[2] /\ m[2] <= start /\ start <= start'
      BY <1>5 DEF IsWhole
    <3>2. start' \in Nat
      BY DEF MainTypes
    <3> QED BY <2>1, <3>1, <3>2, Measures
  <2>4. EndsBefore(m[2])'
    <3>1. CASE start' > start
      <4>1. m[2] <= start
        BY <1>5 DEF IsWhole
      <4>2. start' \in Nat
        BY DEF MainTypes
      <4> QED BY <2>1, <3>1, <4>1, <4>2, Measures DEF EndsBefore
    <3>2. CASE start' = start
      BY <1>5, <2>1, <3>2 DEF IsWhole, EndsBefore, AtEnd
    <3>3. start' \in Nat /\ start \in Nat
      BY DEF MainTypes
    <3> QED BY <3>1, <3>2, <3>3
  <2> QED BY <2>2, <2>3, <2>4 DEF IsWhole
<1> QED BY <1>1, <1>3, <1>4, <1>5

\* Such a step that writes nothing keeps what was written.
LEMMA WroteStays ==
  ASSUME MainTypes, MainTypes', OnlyMore, WroteLines, wrote' = wrote
  PROVE  WroteLines'
<1>1. \A k \in DOMAIN wrote : wrote[k] \in Nat \X Nat
  BY DEF MainTypes
<1>2. ASSUME NEW k \in DOMAIN wrote PROVE IsWhole(wrote[k])'
  <2>1. PICK m \in Nat \X Nat : m = wrote[k]
    BY <1>1
  <2>2. IsWhole(m)'
    BY <2>1, LinesStay DEF WroteLines
  <2> QED BY <2>1, <2>2 DEF IsWhole, IsLine, EndsBefore
<1>3. cuts \subseteq cuts'
  BY DEF OnlyMore
<1>4. \A j, k \in DOMAIN wrote :
        j < k => wrote'[j][2] < wrote'[k][1] \/ wrote'[k][1] \in cuts'
  BY <1>3 DEF WroteLines
<1> QED BY <1>2, <1>4 DEF WroteLines

LEMMA InputStep ==
  ASSUME MainTypes, MainTypes', LinesInv, Type("key") \/ Type("enter") \/ EndInput
  PROVE  LinesInv'
<1>1. /\ UNCHANGED <<taken, start, main, message, wrote, cuts>>
      /\ OnlyMore
  <2>1. CASE EndInput
    BY <2>1 DEF EndInput, output, OnlyMore, MainTypes
  <2>2. CASE Type("key") \/ Type("enter")
    <3>1. ~ended
      BY <2>2 DEF Type
    <3>2. Len(typed) <= Len(typed') /\ \A k \in 1..Len(typed) : typed'[k] = typed[k]
      <4>1. PICK x : typed' = Append(typed, x)
        BY <2>2 DEF Type
      <4> QED BY <4>1 DEF MainTypes
    <3>3. UNCHANGED <<taken, start, main, message, wrote, cuts>>
      BY <2>2 DEF Type, output
    <3> QED BY <3>1, <3>2, <3>3, Measures DEF OnlyMore
  <2> QED BY <2>1, <2>2
<1> USE <1>1
<1>2. /\ start \in 0..Len(typed) /\ taken \in 0..Len(typed) /\ start <= taken
      /\ Len(typed) \in Nat
  BY DEF MainTypes
<1>3. StartOK'
  BY <1>2, LinesStay DEF LinesInv, StartOK, AtEnd, OnlyMore
<1>4. KeysBuffered'
  BY <1>2 DEF LinesInv, KeysBuffered, OnlyMore
<1>5. WroteLines'
  BY WroteStays DEF LinesInv
<1>6. Pending'
  <2>1. message \in Nat \X Nat
    BY DEF MainTypes
  <2> QED BY <2>1, LinesStay DEF LinesInv, Pending, Follows
<1>7. NothingDropped'
  <2> SUFFICES ASSUME main # "exited", NEW p \in 1..start, typed'[p] = "key"
               PROVE  Covered(p)'
    BY DEF NothingDropped
  <2>1. typed[p] = "key" /\ p \in Nat \ {0}
    BY <1>2 DEF OnlyMore
  <2>2. Covered(p)
    BY <2>1 DEF LinesInv, NothingDropped
  <2>3. Cut(p) => Cut(p)'
    BY <2>1, LinesStay
  <2> QED BY <2>2, <2>3 DEF Covered, Written
<1> QED BY <1>3, <1>4, <1>5, <1>6, <1>7 DEF LinesInv

LEMMA KeyStep ==
  ASSUME MainTypes, MainTypes', LinesInv, read_key
  PROVE  LinesInv'
<1>1. /\ UNCHANGED <<typed, ended, start, main, message, wrote, cuts>>
      /\ main = "read" /\ typed[taken + 1] = "key" /\ taken' = taken + 1
  BY DEF read_key, input
<1>2. KeysBuffered'
  BY <1>1 DEF LinesInv, KeysBuffered, MainTypes
<1>3. StartOK' /\ WroteLines' /\ Pending' /\ NothingDropped'
  <2>1. \A q : EndsBefore(q)' <=> EndsBefore(q)
    BY <1>1 DEF EndsBefore, AtEnd
  <2>2. \A p, q : IsLine(p, q)' <=> IsLine(p, q)
    BY <1>1 DEF IsLine, LineStarts, LineEnds
  <2>3. \A m : IsWhole(m)' <=> IsWhole(m)
    BY <1>1, <2>1, <2>2 DEF IsWhole
  <2> QED BY <1>1, <2>3 DEF LinesInv, StartOK, LineStarts, AtEnd, WroteLines, Pending,
          NothingDropped, Covered, Written, Cut
<1> QED BY <1>2, <1>3 DEF LinesInv

\* read_file returns what it has, a line that ends where it has read to.
LEMMA LineReturned ==
  ASSUME MainTypes, MainTypes', LinesInv, main = "read", start < taken,
         LineEnds(taken), message' = <<start, taken>>, main' = "send",
         \/ start' = taken + 1 /\ typed[taken + 1] = "enter"
         \/ start' = taken /\ ended /\ taken = Len(typed),
         start' = taken', UNCHANGED <<typed, ended, wrote, cuts>>
  PROVE  LinesInv'
<1>1. OnlyMore
  BY DEF OnlyMore, MainTypes
<1>2. StartOK'
  BY DEF StartOK, LineStarts, AtEnd, MainTypes
<1>3. /\ LineStarts(start) \/ start \in cuts
      /\ \A q \in Nat : EndsBefore(q) => q < start \/ start \in cuts
  BY DEF LinesInv, StartOK, EndsBefore, AtEnd, MainTypes
<1>4. IsLine(start, taken)
  BY <1>3 DEF IsLine, LinesInv, KeysBuffered
<1>5. IsWhole(message)'
  <2>1. IsLine(message[1], message[2])'
    <3>1. start \in 0..Len(typed) /\ taken \in 0..Len(typed)
      BY Measures
    <3>2. PICK p, q \in 0..Len(typed) : p = start /\ q = taken
      BY <3>1
    <3>3. IsLine(p, q)'
      BY <1>1, <1>4, <3>2, LinesStay
    <3> QED BY <3>2, <3>3 DEF IsLine
  <2>2. taken < start' \/ (ended' /\ start' = Len(typed'))
    BY Measures
  <2>3. start < taken /\ taken <= start'
    BY Measures
  <2> QED BY <2>1, <2>2, <2>3 DEF IsWhole, EndsBefore, AtEnd
<1>6. Follows(message)'
  <2>1. \A j \in DOMAIN wrote : wrote[j][2] \in Nat /\ EndsBefore(wrote[j][2])
    BY Measures DEF LinesInv, WroteLines, IsWhole
  <2>2. \A j \in DOMAIN wrote : wrote[j][2] < start \/ start \in cuts
    BY <1>3, <2>1
  <2>3. message'[1] = start /\ wrote' = wrote /\ cuts' = cuts
    OBVIOUS
  <2> QED BY <2>2, <2>3 DEF Follows
<1>7. WroteLines'
  BY <1>1, WroteStays DEF LinesInv
<1>8. NothingDropped'
  <2> SUFFICES ASSUME NEW p \in 1..start', typed[p] = "key" PROVE Covered(p)'
    BY DEF NothingDropped
  <2>1. CASE p <= start
    <3>1. p \in 1..start /\ p \in Nat \ {0}
      BY <2>1 DEF MainTypes
    <3>2. Written(p) \/ Cut(p)
      BY <3>1 DEF LinesInv, NothingDropped, Covered
    <3>3. Cut(p) => Cut(p)'
      BY <1>1, <3>1, LinesStay
    <3> QED BY <3>2, <3>3 DEF Covered, Written
  <2>2. CASE p > start
    <3>1. p <= taken
      BY <2>2 DEF MainTypes
    <3> QED BY <2>2, <3>1 DEF Covered
  <2> QED BY <2>1, <2>2 DEF MainTypes
<1>9. KeysBuffered'
  BY DEF KeysBuffered
<1>10. Pending'
  BY <1>5, <1>6 DEF Pending
<1> QED BY <1>2, <1>7, <1>8, <1>9, <1>10 DEF LinesInv

LEMMA ReadStep ==
  ASSUME MainTypes, MainTypes', LinesInv, read_line \/ read_eof
  PROVE  LinesInv'
<1>1. main = "read" /\ UNCHANGED <<typed, ended, wrote, cuts>>
  BY DEF read_line, read_eof, input
<1>2. CASE start < taken
  <2>1. /\ LineEnds(taken) /\ message' = <<start, taken>> /\ main' = "send"
        /\ start' = taken'
        /\ \/ start' = taken + 1 /\ typed[taken + 1] = "enter"
           \/ start' = taken /\ ended /\ taken = Len(typed)
    BY <1>2, Measures DEF read_line, read_eof, Prepare, LineEnds
  <2> QED BY <1>1, <1>2, <2>1, LineReturned
<1>3. CASE start = taken
  <2>1. /\ start' = taken' /\ OnlyMore
        /\ \/ /\ start' = taken + 1 /\ typed[taken + 1] = "enter"
              /\ main' = main
           \/ /\ start' = taken /\ ended /\ taken = Len(typed)
              /\ main' = "send" /\ message' = EOF
    BY <1>1, <1>3, Measures DEF read_line, read_eof, Prepare, OnlyMore
  <2>2. StartOK'
    BY <1>1, <2>1, Measures DEF StartOK, LineStarts, AtEnd
  <2>3. WroteLines'
    BY <1>1, <2>1, WroteStays DEF LinesInv
  <2>4. KeysBuffered' /\ Pending'
    BY <1>1, <2>1, Measures DEF KeysBuffered, Pending
  <2>5. NothingDropped'
    <3> SUFFICES ASSUME NEW p \in 1..start', typed[p] = "key" PROVE Covered(p)'
      BY <1>1 DEF NothingDropped
    <3>1. p \in 1..start /\ p \in Nat \ {0}
      BY <1>3, <2>1, Measures
    <3>2. Written(p) \/ Cut(p)
      BY <1>1, <3>1 DEF LinesInv, NothingDropped, Covered
    <3>3. Cut(p) => Cut(p)'
      BY <2>1, <3>1, LinesStay
    <3> QED BY <1>1, <3>2, <3>3 DEF Covered, Written
  <2> QED BY <2>2, <2>3, <2>4, <2>5 DEF LinesInv
<1> QED BY <1>2, <1>3, Measures

LEMMA SignalStep ==
  ASSUME MainTypes, MainTypes', LinesInv, read_interrupted
  PROVE  LinesInv'
<1>1. /\ main = "read" /\ main' = "send" /\ message' = EOF
      /\ taken' = taken /\ start' = taken /\ cuts' = cuts \cup {taken}
      /\ UNCHANGED <<typed, ended, wrote>>
  BY DEF read_interrupted, Prepare, input
<1>2. OnlyMore
  BY <1>1, Measures DEF OnlyMore
<1>3. StartOK'
  BY <1>1 DEF StartOK
<1>4. WroteLines'
  BY <1>1, <1>2, WroteStays DEF LinesInv
<1>5. KeysBuffered' /\ Pending'
  BY <1>1 DEF KeysBuffered, Pending
<1>6. NothingDropped'
  <2> SUFFICES ASSUME NEW p \in 1..taken, typed[p] = "key" PROVE Covered(p)'
    BY <1>1 DEF NothingDropped
  <2>1. CASE p <= start
    <3>1. p \in 1..start /\ p \in Nat \ {0}
      BY <2>1, Measures
    <3>2. Written(p) \/ Cut(p)
      BY <1>1, <3>1 DEF LinesInv, NothingDropped, Covered
    <3>3. Cut(p) => Cut(p)'
      BY <1>2, <3>1, LinesStay
    <3> QED BY <1>1, <3>2, <3>3 DEF Covered, Written
  <2>2. CASE p > start
    <3>1. \A q \in p..taken : q \in (start + 1)..taken
      BY <2>2, Measures
    <3>2. \A q \in p..taken : typed[q] = "key"
      BY <1>1, <3>1 DEF LinesInv, KeysBuffered
    <3>3. taken \in cuts' /\ p <= taken
      BY <1>1, Measures
    <3> QED BY <1>1, <3>2, <3>3 DEF Covered, Cut
  <2> QED BY <2>1, <2>2, Measures
<1> QED BY <1>3, <1>4, <1>5, <1>6 DEF LinesInv

LEMMA SendStep ==
  ASSUME MainTypes, MainTypes', LinesInv, send_message
  PROVE  LinesInv'
<1>1. /\ main = "send" /\ main' \in {"read", "exited"} /\ start = taken
      /\ UNCHANGED <<typed, ended, taken, start, message, cuts>>
  BY DEF send_message, input, LinesInv, Pending
<1>2. OnlyMore
  BY <1>1, Measures DEF OnlyMore
<1>3. StartOK' /\ KeysBuffered' /\ Pending'
  BY <1>1, Measures DEF LinesInv, StartOK, LineStarts, AtEnd, KeysBuffered, Pending
<1>4. CASE wrote' = wrote /\ (main' = "exited" \/ message = EOF)
  <2>1. WroteLines'
    BY <1>2, <1>4, WroteStays DEF LinesInv
  <2>2. NothingDropped'
    <3> SUFFICES ASSUME message = EOF, NEW p \in 1..start, typed[p] = "key"
                 PROVE  Covered(p)'
      BY <1>1, <1>4 DEF NothingDropped
    <3>1. Written(p) \/ Cut(p)
      BY <1>1, Measures DEF LinesInv, NothingDropped, Covered, EOF
    <3> QED BY <1>1, <1>4, <3>1 DEF Covered, Written, Cut
  <2> QED BY <1>3, <2>1, <2>2 DEF LinesInv
<1>5. CASE wrote' = Append(wrote, message) /\ message # EOF
  <2>1. IsWhole(message) /\ Follows(message) /\ message \in Nat \X Nat
    BY <1>1, <1>5 DEF LinesInv, Pending, MainTypes
  <2>2. /\ DOMAIN wrote' = 1..(Len(wrote) + 1) /\ DOMAIN wrote = 1..Len(wrote)
        /\ wrote'[Len(wrote) + 1] = message /\ Len(wrote) \in Nat
        /\ \A k \in DOMAIN wrote : k \in DOMAIN wrote' /\ wrote'[k] = wrote[k]
    <3>1. wrote \in Seq(Nat \X Nat) /\ message \in Nat \X Nat
      BY DEF MainTypes
    <3>2. /\ Len(wrote) \in Nat /\ DOMAIN wrote = 1..Len(wrote)
          /\ Len(wrote') = Len(wrote) + 1 /\ DOMAIN wrote' = 1..(Len(wrote) + 1)
      BY <1>5, <3>1, AppendProperties
    <3>3. /\ wrote'[Len(wrote) + 1] = message
          /\ \A k \in 1..Len(wrote) : wrote'[k] = wrote[k]
      BY <1>5, <3>1, AppendProperties
    <3> QED BY <3>2, <3>3
  <2>3. \A k \in DOMAIN wrote' : k \in DOMAIN wrote \/ k = Len(wrote) + 1
    BY <2>2
  <2>4. \A m : IsWhole(m)' <=> IsWhole(m)
    BY <1>1 DEF IsWhole, IsLine, LineStarts, LineEnds, EndsBefore, AtEnd
  <2>5. WroteLines'
    <3>1. ASSUME NEW k \in DOMAIN wrote' PROVE IsWhole(wrote[k])'
      <4>1. PICK m : m = wrote'[k] /\ IsWhole(m)
        BY <2>1, <2>2, <2>3 DEF LinesInv, WroteLines
      <4>2. IsWhole(m)'
        BY <2>4, <4>1
      <4> QED BY <4>1, <4>2 DEF IsWhole, IsLine, EndsBefore
    <3>2. ASSUME NEW j \in DOMAIN wrote', NEW k \in DOMAIN wrote', j < k
          PROVE  wrote'[j][2] < wrote'[k][1] \/ wrote'[k][1] \in cuts
      <4>1. j \in DOMAIN wrote /\ wrote'[j] = wrote[j]
        BY <2>2, <2>3, <3>2
      <4>2. CASE k \in DOMAIN wrote
        BY <2>2, <3>2, <4>1, <4>2 DEF LinesInv, WroteLines
      <4>3. CASE k = Len(wrote) + 1
        BY <2>1, <2>2, <4>1, <4>3 DEF Follows
      <4> QED BY <2>3, <4>2, <4>3
    <3> QED BY <1>1, <3>1, <3>2 DEF WroteLines
  <2>6. NothingDropped'
    <3> SUFFICES ASSUME NEW p \in 1..start, typed[p] = "key" PROVE Covered(p)'
      BY <1>1 DEF NothingDropped
    <3>1. CASE Written(p) \/ Cut(p)
      BY <1>1, <2>2, <3>1 DEF Covered, Written, Cut
    <3>2. CASE message[1] < p /\ p <= message[2]
      <4>1. Len(wrote) + 1 \in DOMAIN wrote'
        BY <2>2
      <4> QED BY <2>2, <3>2, <4>1 DEF Covered, Written
    <3> QED BY <1>1, <3>1, <3>2 DEF LinesInv, NothingDropped, Covered
  <2> QED BY <1>3, <2>5, <2>6 DEF LinesInv
<1> QED BY <1>4, <1>5 DEF send_message

LEMMA LinesStep == MainTypes /\ LinesInv /\ [Next]_vars => LinesInv'
<1> SUFFICES ASSUME MainTypes, LinesInv, [Next]_vars PROVE LinesInv'
  OBVIOUS
<1>1. MainTypes'
  BY MainTypesStep
<1>2. CASE UNCHANGED outgoing
  <2>1. UNCHANGED <<typed, ended, taken, start, main, message, wrote, cuts>>
    BY <1>2 DEF outgoing
  <2> QED BY <2>1 DEF LinesInv, StartOK, LineStarts, AtEnd, KeysBuffered, WroteLines,
          Pending, Follows, IsWhole, IsLine, LineEnds, EndsBefore, NothingDropped,
          Covered, Written, Cut
<1>3. UNCHANGED vars => UNCHANGED outgoing
  BY DEF vars, outgoing, input, output
<1>4. UNCHANGED <<outgoing, conn, sent>> => UNCHANGED outgoing
  OBVIOUS
<1> QED BY <1>1, <1>2, <1>3, <1>4, InputStep, KeyStep, ReadStep, SignalStep, SendStep,
        Parts DEF Main

-----------------------------------------------------------------------------
LEMMA Invariance == Spec => []CInv
<1>1. CInv /\ [Next]_vars => CInv'
  BY MainTypesStep, ReaderTypesStep, LinesStep, PiecesStep DEF CInv
<1> QED BY <1>1, InitClient, PTL DEF Spec

\* Whatever is typed, and wherever signals cut it: what ttt writes are whole
\* lines, in the order they were typed, and no key is written twice or dropped
\* but for the ones that a signal cut off in their line.
THEOREM WholeLines == Spec => []LinesAreWritten
<1>1. CInv => LinesAreWritten
  <2> SUFFICES ASSUME CInv PROVE LinesAreWritten
    OBVIOUS
  <2>1. \A k \in DOMAIN wrote : IsLine(wrote[k][1], wrote[k][2])
    BY DEF CInv, LinesInv, WroteLines, IsWhole
  <2>2. \A j, k \in DOMAIN wrote :
          j < k => wrote[j][2] < wrote[k][1] \/ wrote[k][1] \in cuts
    BY DEF CInv, LinesInv, WroteLines
  <2>3. main = "read" =>
          \A p \in 1..start : typed[p] = "key" => Written(p) \/ Cut(p)
    BY DEF CInv, LinesInv, NothingDropped, Covered
  <2> QED BY <2>1, <2>2, <2>3 DEF LinesAreWritten
<1> QED BY <1>1, Invariance, PTL

LEMMA NumbersFromZero ==
  ASSUME NEW s \in Seq(Nat), InSequence(s)
  PROVE  s = Numbers(0, Len(s))
<1>1. Len(s) \in Nat /\ Len(s) - 0 = Len(s) /\ DOMAIN s = 1..Len(s)
  OBVIOUS
<1>2. s = [k \in 1..Len(s) |-> s[k]]
  BY <1>1
<1>3. \A k \in 1..Len(s) : s[k] = 0 + k
  BY <1>1 DEF InSequence
<1> QED BY <1>1, <1>2, <1>3 DEF Numbers

\* However what the server wrote is cut into reads, the user sees it in order
\* and without gaps, also after a reset.
THEOREM PiecesInOrder == Spec => []ShownInOrder
<1>1. CInv => ShownInOrder
  <2> SUFFICES ASSUME CInv PROVE ShownInOrder
    OBVIOUS
  <2>1. shown \in Seq(Nat) /\ Arrived \in Seq(Nat) /\ sent \in Nat
    BY Numbered DEF CInv, ReaderTypes, Arrived
  <2>2. shown = Numbers(0, Len(shown)) /\ Len(shown) \in 0..sent
    BY <2>1, NumbersFromZero DEF CInv, PiecesInv
  <2>3. reader # "exited" /\ conn # "reset" => Arrived = Numbers(0, sent)
    BY <2>1, NumbersFromZero DEF CInv, PiecesInv
  <2> QED BY <2>2, <2>3 DEF ShownInOrder, Arrived
<1> QED BY <1>1, Invariance, PTL
=============================================================================
