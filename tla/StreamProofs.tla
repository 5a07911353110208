---------------------------- MODULE StreamProofs ----------------------------
(***************************************************************************)
(* Proofs about MessageStream, for any number of messages: what the client *)
(* writes, what is on its way, what is in the socket and in the buffer and *)
(* what was returned always make up one stream.                            *)
(***************************************************************************)
EXTENDS MessageStream, SequenceTheorems, WellFoundedInduction, TLAPS

-----------------------------------------------------------------------------
(* Join, by length and element: t follows s, one element short if a run of   *)
(* junk ends the one and begins the other.                                   *)

Overlap(s, t) ==
  IF s # <<>> /\ t # <<>> /\ s[Len(s)] = Junk /\ t[1] = Junk THEN 1 ELSE 0

Joined(s, t, d, r) ==
  /\ d \in {0, 1} /\ d <= Len(s) /\ d <= Len(t)
  /\ Len(r) = Len(s) + Len(t) - d
  /\ \A k \in 1..Len(s) : r[k] = s[k]
  /\ \A k \in 1..Len(t) : r[Len(s) - d + k] = t[k]

LEMMA JoinProperties ==
  ASSUME NEW S, NEW s \in Seq(S), NEW t \in Seq(S)
  PROVE  Join(s, t) \in Seq(S) /\ Joined(s, t, Overlap(s, t), Join(s, t))
<1>1. Len(s) \in Nat /\ Len(t) \in Nat
  OBVIOUS
<1>2. Head(t) = t[1]
  OBVIOUS
<1>3. CASE s # <<>> /\ t # <<>> /\ s[Len(s)] = Junk /\ t[1] = Junk
  <2> DEFINE u == Tail(t)
  <2>1. Overlap(s, t) = 1 /\ Join(s, t) = s \o u
    BY <1>2, <1>3 DEF Overlap, Join
  <2>2. /\ u \in Seq(S) /\ Len(u) = Len(t) - 1 /\ Len(u) \in Nat
        /\ \A k \in 1..Len(u) : u[k] = t[k + 1]
    BY <1>1, <1>3, HeadTailProperties
  <2> HIDE DEF u
  <2>3. Len(s) >= 1 /\ Len(t) >= 1
    BY <1>1, <1>3, EmptySeq
  <2>4. /\ s \o u \in Seq(S) /\ Len(s \o u) = Len(s) + Len(u)
        /\ \A k \in 1..(Len(s) + Len(u)) :
             (s \o u)[k] = IF k <= Len(s) THEN s[k] ELSE u[k - Len(s)]
    BY <2>2, ConcatProperties
  <2>5. \A k \in 1..Len(s) : (s \o u)[k] = s[k]
    BY <1>1, <2>2, <2>4
  <2>6. ASSUME NEW k \in 1..Len(t) PROVE (s \o u)[Len(s) - 1 + k] = t[k]
    <3>1. CASE k = 1
      <4>1. Len(s) - 1 + k = Len(s)
        BY <1>1, <3>1
      <4> QED BY <1>3, <2>3, <2>5, <3>1, <4>1
    <3>2. CASE k > 1
      <4>1. /\ k - 1 \in 1..Len(u) /\ ~(Len(s) - 1 + k <= Len(s))
            /\ Len(s) - 1 + k \in 1..(Len(s) + Len(u))
            /\ (Len(s) - 1 + k) - Len(s) = k - 1 /\ (k - 1) + 1 = k
        BY <1>1, <2>2, <2>3, <3>2
      <4> QED BY <2>2, <2>4, <4>1
    <3>3. k = 1 \/ k > 1
      BY <1>1
    <3> QED BY <3>1, <3>2, <3>3
  <2> QED BY <1>1, <2>1, <2>2, <2>3, <2>4, <2>5, <2>6 DEF Joined
<1>4. CASE ~(s # <<>> /\ t # <<>> /\ s[Len(s)] = Junk /\ t[1] = Junk)
  <2>1. Overlap(s, t) = 0 /\ Join(s, t) = s \o t
    BY <1>2, <1>4 DEF Overlap, Join
  <2>2. /\ s \o t \in Seq(S) /\ Len(s \o t) = Len(s) + Len(t)
        /\ \A k \in 1..(Len(s) + Len(t)) :
             (s \o t)[k] = IF k <= Len(s) THEN s[k] ELSE t[k - Len(s)]
    BY ConcatProperties
  <2>3. \A k \in 1..Len(s) : (s \o t)[k] = s[k]
    BY <1>1, <2>2
  <2>4. ASSUME NEW k \in 1..Len(t) PROVE (s \o t)[Len(s) - 0 + k] = t[k]
    <3>1. /\ Len(s) + k \in 1..(Len(s) + Len(t)) /\ ~(Len(s) + k <= Len(s))
          /\ (Len(s) + k) - Len(s) = k /\ Len(s) - 0 + k = Len(s) + k
      BY <1>1
    <3> QED BY <2>2, <3>1
  <2> QED BY <1>1, <2>1, <2>2, <2>3, <2>4 DEF Joined
<1> QED BY <1>3, <1>4

LEMMA JoinEmpty ==
  ASSUME NEW S, NEW s \in Seq(S)
  PROVE  Join(s, <<>>) = s /\ Join(<<>>, s) = s
BY ConcatEmptySeq DEF Join

\* Nothing depends on how the stream is divided among the buffers.
LEMMA JoinAssociative ==
  ASSUME NEW S, NEW s \in Seq(S), NEW t \in Seq(S), NEW u \in Seq(S)
  PROVE  Join(Join(s, t), u) = Join(s, Join(t, u))
<1>1. CASE t = <<>>
  BY <1>1, JoinEmpty
<1>2. CASE t # <<>>
  <2> DEFINE st == Join(s, t)
             tu == Join(t, u)
             lhs == Join(st, u)
             rhs == Join(s, tu)
             d == Overlap(s, t)
             e == Overlap(t, u)
  <2>1. /\ Len(s) \in Nat /\ Len(t) \in Nat /\ Len(u) \in Nat /\ Len(t) >= 1
    BY <1>2, EmptySeq
  <2>2. st \in Seq(S) /\ Joined(s, t, d, st)
    BY JoinProperties
  <2>3. tu \in Seq(S) /\ Joined(t, u, e, tu)
    BY JoinProperties
  <2> HIDE DEF st, tu
  <2>4. Overlap(st, u) = e
    <3>1. st # <<>> /\ st[Len(st)] = t[Len(t)]
      <4>1. Len(st) >= 1 /\ Len(t) \in 1..Len(t) /\ Len(s) - d + Len(t) = Len(st)
        BY <2>1, <2>2 DEF Joined
      <4> QED BY <2>2, <4>1, EmptySeq DEF Joined
    <3> QED BY <1>2, <3>1 DEF Overlap
  <2>5. Overlap(s, tu) = d
    <3>1. tu # <<>> /\ tu[1] = t[1]
      <4>1. Len(tu) >= 1 /\ 1 \in 1..Len(t)
        BY <2>1, <2>3 DEF Joined
      <4> QED BY <2>3, <4>1, EmptySeq DEF Joined
    <3> QED BY <1>2, <3>1 DEF Overlap
  <2>6. lhs \in Seq(S) /\ Joined(st, u, e, lhs)
    BY <2>2, <2>4, JoinProperties
  <2>7. rhs \in Seq(S) /\ Joined(s, tu, d, rhs)
    BY <2>3, <2>5, JoinProperties
  <2> HIDE DEF lhs, rhs, d, e
  <2>8. Len(lhs) = Len(rhs)
    BY <2>1, <2>2, <2>3, <2>6, <2>7 DEF Joined
  <2>9. ASSUME NEW k \in 1..Len(lhs) PROVE lhs[k] = rhs[k]
    <3>1. CASE k <= Len(s)
      <4>1. k \in 1..Len(s) /\ k \in 1..Len(st)
        BY <2>1, <2>2, <3>1 DEF Joined
      <4> QED BY <2>2, <2>6, <2>7, <4>1 DEF Joined
    <3>2. CASE k > Len(s) /\ k <= Len(st)
      <4> DEFINE j == k - (Len(s) - d)
      <4>1. /\ j \in 1..Len(t) /\ j \in 1..Len(tu) /\ k \in 1..Len(st)
            /\ k = Len(s) - d + j
        BY <2>1, <2>2, <2>3, <3>2 DEF Joined
      <4> HIDE DEF j
      <4>2. lhs[k] = st[k] /\ st[k] = t[j] /\ rhs[k] = tu[j] /\ tu[j] = t[j]
        BY <2>2, <2>3, <2>6, <2>7, <4>1 DEF Joined
      <4> QED BY <4>2
    <3>3. CASE k > Len(st)
      <4> DEFINE j == k - (Len(st) - e)
                 m == Len(t) - e + j
      <4>1. /\ Len(st) = Len(s) + Len(t) - d /\ Len(tu) = Len(t) + Len(u) - e
            /\ Len(lhs) = Len(st) + Len(u) - e
            /\ d \in {0, 1} /\ e \in {0, 1} /\ e <= Len(t)
        BY <2>2, <2>3, <2>6 DEF Joined
      <4>2. k = Len(st) - e + j /\ k = Len(s) - d + m
        BY <2>1, <4>1
      <4>3. j \in 1..Len(u) /\ m \in 1..Len(tu)
        BY <2>1, <3>3, <4>1
      <4>4. m = Len(t) - e + j
        OBVIOUS
      <4> HIDE DEF j, m
      <4>5. lhs[k] = u[j]
        BY <2>6, <4>2, <4>3 DEF Joined
      <4>6. tu[m] = u[j]
        BY <2>3, <4>3, <4>4 DEF Joined
      <4>7. rhs[k] = tu[m]
        BY <2>7, <4>2, <4>3 DEF Joined
      <4> QED BY <4>5, <4>6, <4>7
    <3> QED BY <2>1, <2>2, <3>1, <3>2, <3>3 DEF Joined
  <2>10. lhs = rhs
    BY <2>6, <2>7, <2>8, <2>9, SeqEqual
  <2> QED BY <2>10 DEF lhs, rhs, st, tu
<1> QED BY <1>1, <1>2

\* What a message or a run of junk is appended to keeps it at its front.
Prefix(s, t) == Len(s) <= Len(t) /\ \A k \in DOMAIN s : s[k] = t[k]

LEMMA JoinExtends ==
  ASSUME NEW S, NEW s \in Seq(S), NEW t \in Seq(S)
  PROVE  Prefix(s, Join(s, t))
<1>1. Joined(s, t, Overlap(s, t), Join(s, t))
  BY JoinProperties
<1>2. Len(s) \in Nat /\ Len(t) \in Nat /\ DOMAIN s = 1..Len(s)
  OBVIOUS
<1> QED BY <1>1, <1>2 DEF Joined, Prefix

LEMMA PrefixTransitive ==
  ASSUME NEW S, NEW s \in Seq(S), NEW t \in Seq(S), NEW u \in Seq(S),
         Prefix(s, t), Prefix(t, u)
  PROVE  Prefix(s, u)
<1>1. /\ Len(s) \in Nat /\ Len(t) \in Nat /\ Len(u) \in Nat
      /\ DOMAIN s = 1..Len(s) /\ DOMAIN t = 1..Len(t)
  OBVIOUS
<1>2. Len(s) <= Len(t) /\ Len(t) <= Len(u)
  BY DEF Prefix
<1>3. \A k \in DOMAIN s : k \in DOMAIN t
  BY <1>1, <1>2
<1> QED BY <1>1, <1>2, <1>3 DEF Prefix

LEMMA Single ==
  ASSUME NEW S, NEW x \in S
  PROVE  \E o \in Seq(S) : o = <<x>> /\ Len(o) = 1 /\ o[1] = x /\ o # <<>>
<1> DEFINE o == <<x>>
<1>1. o \in Seq(S) /\ Len(o) = 1 /\ o[1] = x /\ o # <<>>
  OBVIOUS
<1>2. o = <<x>>
  OBVIOUS
<1> HIDE DEF o
<1> QED BY <1>1, <1>2

\* No run of junk follows another.
NoRuns(s) == \A k \in DOMAIN s : k < Len(s) /\ s[k] = Junk => s[k + 1] # Junk

LEMMA JoinNoRuns ==
  ASSUME NEW S, NEW s \in Seq(S), NEW x \in S, NoRuns(s)
  PROVE  NoRuns(Join(s, <<x>>))
<1>1. PICK o \in Seq(S) : o = <<x>> /\ Len(o) = 1 /\ o[1] = x /\ o # <<>>
  BY Single
<1> DEFINE r == Join(s, o)
           d == Overlap(s, o)
<1>2. r \in Seq(S) /\ Joined(s, o, d, r)
  BY JoinProperties
<1>3. d = IF s # <<>> /\ s[Len(s)] = Junk /\ x = Junk THEN 1 ELSE 0
  BY <1>1 DEF Overlap
<1>4. Len(s) \in Nat /\ DOMAIN s = 1..Len(s) /\ (s # <<>> <=> Len(s) # 0)
  BY EmptySeq
<1> HIDE DEF r, d
<1>5. /\ Len(r) = Len(s) + 1 - d /\ DOMAIN r = 1..Len(r)
      /\ \A k \in 1..Len(s) : r[k] = s[k]
      /\ d = 0 => r[Len(s) + 1] = x
  BY <1>1, <1>2, <1>4 DEF Joined
<1>6. ASSUME NEW k \in DOMAIN r, k < Len(r), r[k] = Junk PROVE r[k + 1] # Junk
  <2>1. CASE k < Len(s)
    <3>1. k \in 1..Len(s) /\ k + 1 \in 1..Len(s)
      BY <1>4, <1>5, <2>1
    <3>2. s[k] = Junk /\ s[k + 1] # Junk
      BY <1>4, <1>5, <1>6, <2>1, <3>1 DEF NoRuns
    <3> QED BY <1>5, <3>1, <3>2
  <2>2. CASE ~(k < Len(s))
    <3>1. k = Len(s) /\ d = 0 /\ k \in 1..Len(s) /\ s # <<>>
      BY <1>3, <1>4, <1>5, <1>6, <2>2
    <3>2. s[Len(s)] = Junk
      BY <1>5, <1>6, <3>1
    <3> QED BY <1>3, <1>5, <3>1, <3>2
  <2> QED BY <2>1, <2>2
<1>7. NoRuns(r)
  BY <1>6 DEF NoRuns
<1> QED BY <1>1, <1>7 DEF r

LEMMA TailNoRuns ==
  ASSUME NEW S, NEW s \in Seq(S), s # <<>>, NoRuns(s)
  PROVE  NoRuns(Tail(s)) /\ Join(<<Head(s)>>, Tail(s)) = s
<1> DEFINE h == Head(s)
           t == Tail(s)
<1>1. /\ Len(s) \in Nat /\ Len(s) >= 1 /\ DOMAIN s = 1..Len(s)
      /\ h = s[1] /\ h \in S
  BY EmptySeq
<1>2. /\ t \in Seq(S) /\ Len(t) = Len(s) - 1 /\ DOMAIN t = 1..Len(t)
      /\ \A k \in 1..Len(t) : t[k] = s[k + 1]
  BY HeadTailProperties
<1> HIDE DEF h, t
<1>3. NoRuns(t)
  <2> SUFFICES ASSUME NEW k \in 1..Len(t), k < Len(t), t[k] = Junk
               PROVE  t[k + 1] # Junk
    BY <1>2 DEF NoRuns
  <2>1. k + 1 \in 1..Len(t) /\ k + 1 \in 1..Len(s) /\ k + 1 < Len(s)
    BY <1>1, <1>2
  <2>2. t[k] = s[k + 1] /\ t[k + 1] = s[k + 2] /\ (k + 1) + 1 = k + 2
    BY <1>2, <2>1
  <2> QED BY <1>1, <2>1, <2>2 DEF NoRuns
<1>4. PICK o \in Seq(S) : o = <<h>> /\ Len(o) = 1 /\ o[1] = h
  BY <1>1, Single
<1>5. Overlap(o, t) = 0
  <2> SUFFICES ASSUME t # <<>>, h = Junk PROVE t[1] # Junk
    BY <1>4 DEF Overlap
  <2>1. Len(t) >= 1
    BY <1>2, EmptySeq
  <2>2. 1 \in DOMAIN s /\ 1 < Len(s) /\ 1 \in 1..Len(t)
    BY <1>1, <1>2, <2>1
  <2> QED BY <1>1, <1>2, <2>2 DEF NoRuns
<1> DEFINE r == Join(o, t)
<1>6. r \in Seq(S) /\ Joined(o, t, 0, r)
  BY <1>2, <1>5, JoinProperties
<1> HIDE DEF r
<1>7. /\ Len(r) = Len(s) /\ r[1] = h
      /\ \A k \in 1..Len(t) : r[1 + k] = t[k]
  BY <1>1, <1>2, <1>6, <1>4 DEF Joined
<1>8. ASSUME NEW k \in 1..Len(r) PROVE r[k] = s[k]
  <2>1. CASE k = 1
    BY <1>1, <1>7, <2>1
  <2>2. CASE k > 1
    <3>1. k - 1 \in 1..Len(t) /\ 1 + (k - 1) = k /\ (k - 1) + 1 = k
      BY <1>1, <1>2, <1>7, <2>2
    <3> QED BY <1>2, <1>7, <3>1
  <2>3. k = 1 \/ k > 1
    BY <1>1, <1>7
  <2> QED BY <2>1, <2>2, <2>3
<1>9. r = s
  BY <1>6, <1>7, <1>8, SeqEqual
<1> QED BY <1>3, <1>9, <1>4 DEF r, h, t

\* A message is taken off the front: what was returned ends in no junk, and so
\* does the message.
LEMMA PopKeeps ==
  ASSUME NEW r \in Seq(Piece), NEW b \in Seq(Piece \cup {Junk}), Len(b) >= 2,
         SubSeq(b, 1, 2) \in Seq(Piece)
  PROVE  /\ r \o SubSeq(b, 1, 2) \in Seq(Piece)
         /\ SubSeq(b, 3, Len(b)) \in Seq(Piece \cup {Junk})
         /\ Join(r \o SubSeq(b, 1, 2), SubSeq(b, 3, Len(b))) = Join(r, b)
<1> DEFINE P == Piece \cup {Junk}
           m == SubSeq(b, 1, 2)
           c == SubSeq(b, 3, Len(b))
<1>1. Len(b) \in Nat /\ DOMAIN b = 1..Len(b)
  OBVIOUS
<1>2. \A k \in 1..Len(b) : b[k] \in P
  BY <1>1, ElementOfSeq
<1>3. Len(m) = 2
  BY <1>1, <1>2, SubSeqProperties
<1>4. c \in Seq(P)
  BY <1>1, <1>2, SubSeqProperties
<1>5. b = m \o c
  BY <1>1, SubSeqFull, ConcatAdjacentSubSeq
<1> HIDE DEF m, c
<1>6. r \o m \in Seq(Piece) /\ Len(r \o m) = Len(r) + 2 /\ Len(r) \in Nat
  BY <1>3, ConcatProperties DEF m
<1>7. \A s \in Seq(Piece), t \in Seq(P) : Join(s, t) = s \o t
  <2> SUFFICES ASSUME NEW s \in Seq(Piece), NEW t \in Seq(P), s # <<>>
               PROVE  s[Len(s)] # Junk
    BY DEF Join
  <2>1. Len(s) \in 1..Len(s)
    BY EmptySeq
  <2>2. s[Len(s)] \in Piece
    BY <2>1, ElementOfSeq
  <2> QED BY <2>2, StreamAssumption
<1>8. r \in Seq(P) /\ m \in Seq(P)
  BY SeqMonotonic DEF m
<1>9. (r \o m) \o c = r \o b
  <2> HIDE DEF P
  <2> QED BY <1>4, <1>5, <1>8, ConcatAssociative
<1>10. Join(r \o m, c) = Join(r, b)
  BY <1>4, <1>6, <1>7, <1>9
<1> QED BY <1>4, <1>6, <1>10 DEF m, c

-----------------------------------------------------------------------------
(* The inductive invariant.                                                 *)

Data == Piece \cup {Junk}

\* What has left the network, wherever it is now.
Taken == Join(Join(received, msg_buffer), socket)

SInv ==
  /\ TypeOK
  /\ NoRuns(wire)
  /\ peer = "reset" => wire = <<>>
  /\ pc = "receive" => msg_buffer = <<>>
  /\ Prefix(received, sent)
  /\ pc # "failed" => IF peer = "reset" THEN Prefix(Taken, sent)
                                        ELSE Join(Taken, wire) = sent

LEMMA Typed ==
  ASSUME TypeOK
  PROVE  /\ received \in Seq(Data) /\ msg_buffer \in Seq(Data)
         /\ socket \in Seq(Data) /\ wire \in Seq(Data) /\ sent \in Seq(Data)
         /\ Join(received, msg_buffer) \in Seq(Data) /\ Taken \in Seq(Data)
<1>1. /\ received \in Seq(Data) /\ msg_buffer \in Seq(Data)
      /\ socket \in Seq(Data) /\ wire \in Seq(Data) /\ sent \in Seq(Data)
  BY SeqMonotonic DEF TypeOK, Data
<1>2. Join(received, msg_buffer) \in Seq(Data)
  BY <1>1, JoinProperties
<1>3. Taken \in Seq(Data)
  BY <1>1, <1>2, JoinProperties DEF Taken
<1> QED BY <1>1, <1>2, <1>3

\* What is taken begins the stream; so does what was returned.
LEMMA TakenBegins ==
  ASSUME SInv, pc # "failed"
  PROVE  /\ Prefix(Taken, sent)
         /\ Prefix(Join(received, msg_buffer), Taken)
         /\ Prefix(Join(received, msg_buffer), sent)
<1>1. /\ Join(received, msg_buffer) \in Seq(Data) /\ Taken \in Seq(Data)
      /\ socket \in Seq(Data) /\ wire \in Seq(Data) /\ sent \in Seq(Data)
  BY Typed DEF SInv
<1>2. Prefix(Taken, sent)
  <2>1. CASE peer = "reset"
    BY <2>1 DEF SInv
  <2>2. CASE peer # "reset"
    <3>1. Join(Taken, wire) = sent
      BY <2>2 DEF SInv
    <3> QED BY <1>1, <3>1, JoinExtends
  <2> QED BY <2>1, <2>2
<1>3. Prefix(Join(received, msg_buffer), Taken)
  BY <1>1, JoinExtends DEF Taken
<1> QED BY <1>1, <1>2, <1>3, PrefixTransitive

LEMMA InitStream == Init => SInv
<1> SUFFICES ASSUME Init PROVE SInv
  OBVIOUS
<1>1. <<>> \in Seq(Data) /\ <<>> \in Seq(Piece)
  BY EmptySeq
<1>2. TypeOK
  BY <1>1 DEF Init, TypeOK, Data
<1>3. Join(Taken, wire) = sent
  BY <1>1, JoinEmpty DEF Init, Taken
<1>4. NoRuns(wire) /\ Prefix(received, sent)
  BY DEF Init, NoRuns, Prefix
<1> QED BY <1>2, <1>3, <1>4 DEF Init, SInv

\* There is a next number, if only the one after the last.
LEMMA NextExists == NextMessage \in 1..(MaxMessages + 1)
<1> DEFINE Free == {m \in 1..(MaxMessages + 1) : m \in 1..MaxMessages => ~Begun(m)}
           R == {ss \in Nat \X Nat : ss[1] < ss[2]}
<1>1. Free \subseteq Nat /\ MaxMessages + 1 \in Free
  BY StreamAssumption
<1>2. IsWellFoundedOn(R, Nat)
  BY NatLessThanWellFounded DEF OpToRel
<1> HIDE DEF R
<1>3. PICK m \in Free : \A j \in Free : ~(<<j, m>> \in R)
  <2> HIDE DEF Free
  <2> QED BY <1>1, <1>2, WFMin
<1> USE DEF R
<1>4. \A j \in Free : ~(j < m)
  BY <1>1, <1>3
<1>5. ASSUME NEW j \in 1..(m - 1) PROVE Begun(j)
  <2>1. j \in 1..(MaxMessages + 1) /\ j < m /\ m \in 1..(MaxMessages + 1)
    BY StreamAssumption
  <2>2. j \notin Free
    BY <1>4, <2>1
  <2> QED BY <2>1, <2>2
<1>6. /\ m \in 1..(MaxMessages + 1) /\ (m \in 1..MaxMessages => ~Begun(m))
      /\ \A j \in 1..(m - 1) : Begun(j)
  BY <1>5
<1> QED BY <1>6 DEF NextMessage

\* The client writes one piece.
LEMMA WriteStream ==
  ASSUME SInv, NEW x \in Data, Write(<<x>>)
  PROVE  SInv'
<1>1. /\ peer = "up" /\ pc # "failed"
      /\ wire' = Join(wire, <<x>>) /\ sent' = Join(sent, <<x>>)
      /\ UNCHANGED <<socket, msg_buffer, pc, peer, received>>
  BY DEF Write
<1>2. /\ Taken \in Seq(Data) /\ wire \in Seq(Data) /\ sent \in Seq(Data)
      /\ <<x>> \in Seq(Data) /\ received \in Seq(Data)
  <2>1. <<x>> \in Seq(Data)
    OBVIOUS
  <2> QED BY <2>1, Typed DEF SInv
<1>3. wire' \in Seq(Data) /\ sent' \in Seq(Data)
  BY <1>1, <1>2, JoinProperties
<1>4. TypeOK'
  BY <1>1, <1>3 DEF SInv, TypeOK, Data
<1>5. NoRuns(wire')
  BY <1>1, <1>2, JoinNoRuns DEF SInv
<1>6. Join(Taken, wire') = sent'
  <2>1. Join(Taken, wire) = sent
    BY <1>1 DEF SInv
  <2>2. PICK o \in Seq(Data) : o = <<x>>
    BY Single
  <2>3. Join(Join(Taken, wire), o) = Join(Taken, Join(wire, o))
    BY <1>2, JoinAssociative
  <2> QED BY <1>1, <2>1, <2>2, <2>3
<1>7. Prefix(received, sent')
  <2>1. Prefix(sent, sent') /\ Prefix(received, sent)
    BY <1>1, <1>2, JoinExtends DEF SInv
  <2> QED BY <1>2, <1>3, <2>1, PrefixTransitive
<1>8. Taken' = Taken
  BY <1>1 DEF Taken
<1> QED BY <1>1, <1>4, <1>5, <1>6, <1>7, <1>8 DEF SInv

LEMMA ClientWrites ==
  ASSUME SInv, WriteFront \/ WriteRest \/ WriteJunk
  PROVE  SInv'
<1>1. \A m \in 1..MaxMessages : Whole(m)[1] \in Data /\ Whole(m)[2] \in Data
  BY DEF Whole, Data, Piece, Part
<1>2. CASE WriteFront
  <2>1. NextMessage \in 1..MaxMessages /\ Write(<<Whole(NextMessage)[1]>>)
    BY <1>2, NextExists, StreamAssumption DEF WriteFront
  <2> QED BY <1>1, <2>1, WriteStream
<1>3. CASE WriteRest
  <2>1. /\ sent[Len(sent)] \in Piece
        /\ Write(<<Whole(sent[Len(sent)].msg)[2]>>)
    BY <1>3 DEF WriteRest
  <2>2. sent[Len(sent)].msg \in 1..MaxMessages
    BY <2>1 DEF Piece
  <2> QED BY <1>1, <2>1, <2>2, WriteStream
<1>4. CASE WriteJunk
  BY <1>4, WriteStream DEF WriteJunk, Data
<1> QED BY <1>2, <1>3, <1>4

LEMMA ArriveStream == ASSUME SInv, Arrive PROVE SInv'
<1>1. /\ wire # <<>> /\ wire' = Tail(wire) /\ socket' = Join(socket, <<Head(wire)>>)
      /\ UNCHANGED <<msg_buffer, pc, peer, sent, received>>
      /\ peer # "reset"
  BY DEF Arrive, SInv
<1> DEFINE h == Head(wire)
           t == Tail(wire)
           r == Join(received, msg_buffer)
<1>2. /\ r \in Seq(Data) /\ Taken \in Seq(Data) /\ socket \in Seq(Data)
      /\ wire \in Seq(Data) /\ sent \in Seq(Data) /\ Taken = Join(r, socket)
  BY Typed DEF SInv, Taken
<1>3. h \in Data /\ t \in Seq(Data)
  BY <1>1, <1>2, HeadTailProperties
<1>4. NoRuns(t) /\ Join(<<h>>, t) = wire
  BY <1>1, <1>2, TailNoRuns DEF SInv
<1>5. PICK o \in Seq(Data) : o = <<h>>
  BY <1>3, Single
<1>6. socket' \in Seq(Data)
  BY <1>1, <1>2, <1>5, JoinProperties
<1>7. TypeOK'
  BY <1>1, <1>3, <1>6 DEF SInv, TypeOK, Data
<1>8. Taken' = Join(Taken, o)
  <2>1. Taken' = Join(r, Join(socket, o))
    BY <1>1, <1>5 DEF Taken
  <2> HIDE DEF r
  <2> QED BY <1>2, <2>1, JoinAssociative
<1> HIDE DEF h, t, r
<1>9. pc # "failed" => Join(Taken', t) = sent
  <2>1. Join(Join(Taken, o), t) = Join(Taken, Join(o, t))
    BY <1>2, <1>3, JoinAssociative
  <2>2. Join(Join(Taken, o), t) = Join(Taken, wire)
    BY <1>4, <1>5, <2>1
  <2> QED BY <1>1, <1>8, <2>2 DEF SInv
<1> QED BY <1>1, <1>4, <1>7, <1>9 DEF SInv, t

LEMMA HangUpStream == ASSUME SInv, HangUp PROVE SInv'
<1>1. /\ peer = "up"
      /\ UNCHANGED <<socket, msg_buffer, pc, sent, received>>
      /\ \/ peer' = "closed" /\ wire' = wire
         \/ peer' = "reset" /\ wire' = <<>>
  BY DEF HangUp
<1>2. <<>> \in Seq(Data)
  BY EmptySeq
<1>3. TypeOK'
  BY <1>1, <1>2 DEF SInv, TypeOK, Data
<1>4. Taken' = Taken /\ (pc # "failed" => Prefix(Taken, sent))
  BY <1>1, TakenBegins DEF Taken
<1>5. NoRuns(wire')
  BY <1>1 DEF NoRuns, SInv
<1> QED BY <1>1, <1>3, <1>4, <1>5 DEF SInv

-----------------------------------------------------------------------------
(* The steps of get_message.                                                *)

LEMMA CompleteMeans ==
  ASSUME TypeOK, Complete(msg_buffer)
  PROVE  Len(msg_buffer) >= 2 /\ SubSeq(msg_buffer, 1, 2) \in Seq(Piece)
<1>1. /\ Len(msg_buffer) >= 2 /\ msg_buffer[1] \in Piece
      /\ SubSeq(msg_buffer, 1, 2) = Whole(msg_buffer[1].msg)
  BY DEF Complete
<1>2. \A m \in 1..MaxMessages : Whole(m) \in Seq(Piece)
  <2> TAKE m \in 1..MaxMessages
  <2>1. [msg |-> m, part |-> "front"] \in Piece /\ [msg |-> m, part |-> "rest"] \in Piece
    BY DEF Piece, Part
  <2> QED BY <2>1 DEF Whole
<1>3. msg_buffer[1].msg \in 1..MaxMessages
  BY <1>1 DEF Piece
<1> QED BY <1>1, <1>2, <1>3

LEMMA PopStream ==
  ASSUME SInv, pc # "failed", Complete(msg_buffer), Pop,
         UNCHANGED <<wire, socket, peer, sent>>
  PROVE  SInv'
<1> DEFINE r == received \o SubSeq(msg_buffer, 1, 2)
           b == SubSeq(msg_buffer, 3, Len(msg_buffer))
<1>1. received' = r /\ msg_buffer' = b /\ pc' = "call"
  BY DEF Pop
<1>2. /\ received \in Seq(Piece) /\ msg_buffer \in Seq(Piece \cup {Junk})
      /\ Len(msg_buffer) >= 2 /\ SubSeq(msg_buffer, 1, 2) \in Seq(Piece)
  BY CompleteMeans DEF SInv, TypeOK
<1>3. /\ r \in Seq(Piece) /\ b \in Seq(Piece \cup {Junk})
      /\ Join(r, b) = Join(received, msg_buffer)
  BY <1>2, PopKeeps
<1> HIDE DEF r, b
<1>4. TypeOK'
  BY <1>1, <1>3 DEF SInv, TypeOK
<1>5. Taken' = Taken
  BY <1>1, <1>3 DEF Taken
<1>6. Prefix(r, sent)
  <2>1. r \in Seq(Data) /\ b \in Seq(Data) /\ sent \in Seq(Data)
    BY <1>3, SeqMonotonic, Typed DEF Data, SInv
  <2>2. Join(r, b) \in Seq(Data)
    BY <2>1, JoinProperties
  <2>3. Prefix(r, Join(r, b)) /\ Prefix(Join(r, b), sent)
    BY <1>3, <2>1, JoinExtends, TakenBegins
  <2> QED BY <2>1, <2>2, <2>3, PrefixTransitive
<1> QED BY <1>1, <1>4, <1>5, <1>6 DEF SInv

\* What the socket has goes to the end of the buffer.
LEMMA ReceiveStream ==
  ASSUME SInv, pc # "failed", Receive, pc' = "gather",
         UNCHANGED <<wire, peer, sent, received>>
  PROVE  SInv'
<1>1. msg_buffer' = Join(msg_buffer, socket) /\ socket' = <<>>
  BY DEF Receive
<1>2. /\ received \in Seq(Data) /\ msg_buffer \in Seq(Data) /\ socket \in Seq(Data)
      /\ Taken \in Seq(Data)
  BY Typed DEF SInv
<1>3. Join(msg_buffer, socket) \in Seq(Data) /\ <<>> \in Seq(Data)
  BY <1>2, JoinProperties, EmptySeq
<1>4. TypeOK'
  BY <1>1, <1>3 DEF SInv, TypeOK, Data
<1>5. Taken' = Taken
  <2>1. Join(received, Join(msg_buffer, socket)) = Taken
    BY <1>2, JoinAssociative DEF Taken
  <2>2. Taken' = Join(Join(received, Join(msg_buffer, socket)), <<>>)
    BY <1>1 DEF Taken
  <2> QED BY <1>2, <2>1, <2>2, JoinEmpty
<1> QED BY <1>4, <1>5 DEF SInv

\* A failed read takes what the socket has with it.
LEMMA LoseStream ==
  ASSUME SInv, pc # "failed", peer = "reset", socket' = <<>>, pc' = "return",
         UNCHANGED <<wire, msg_buffer, peer, sent, received>>
  PROVE  SInv'
<1>1. <<>> \in Seq(Data)
  BY EmptySeq
<1>2. TypeOK'
  BY <1>1 DEF SInv, TypeOK, Data
<1>3. Taken' = Join(received, msg_buffer)
  <2>1. Join(received, msg_buffer) \in Seq(Data)
    BY Typed DEF SInv
  <2> QED BY <2>1, JoinEmpty DEF Taken
<1>4. Prefix(Taken', sent)
  BY <1>3, TakenBegins
<1> QED BY <1>2, <1>4 DEF SInv

LEMMA GetMessageStream == ASSUME SInv, GetMessage PROVE SInv'
<1>1. CASE CallBuffered
  BY <1>1, PopStream DEF CallBuffered
<1>2. CASE Call
  BY <1>2 DEF Call, SInv, TypeOK, Taken
<1>3. CASE ReceiveFirst
  BY <1>3, ReceiveStream DEF ReceiveFirst
<1>4. CASE ReceiveFirstFails
  <2>1. <<>> \in Seq(Data)
    BY EmptySeq
  <2> QED BY <1>4, <2>1 DEF ReceiveFirstFails, Fail, SInv, TypeOK, Data
<1>5. CASE GatherMore
  BY <1>5, ReceiveStream DEF GatherMore
<1>6. CASE Quiet
  BY <1>6 DEF Quiet, SInv, TypeOK, Taken
<1>7. CASE GatherFails
  BY <1>7, LoseStream DEF GatherFails, ReceiveFails, AtEof
<1>8. CASE ReturnMessage
  BY <1>8, PopStream DEF ReturnMessage
<1>9. CASE ReturnError
  <2>1. <<>> \in Seq(Data)
    BY EmptySeq
  <2> QED BY <1>9, <2>1 DEF ReturnError, Fail, SInv, TypeOK, Data
<1> QED BY <1>1, <1>2, <1>3, <1>4, <1>5, <1>6, <1>7, <1>8, <1>9 DEF GetMessage

LEMMA NextStream == SInv /\ [Next]_vars => SInv'
<1> SUFFICES ASSUME SInv, [Next]_vars PROVE SInv'
  OBVIOUS
<1>1. CASE UNCHANGED vars
  BY <1>1 DEF vars, SInv, TypeOK, Taken
<1>2. CASE Next
  BY <1>2, ClientWrites, ArriveStream, HangUpStream, GetMessageStream DEF Next
<1> QED BY <1>1, <1>2

LEMMA Streams == Spec => []SInv
  BY InitStream, NextStream, PTL DEF Spec

\* However the writes are cut and gathered, nothing is lost, repeated or
\* reordered between the client and the callers of get_message.
THEOREM WholeStream == Spec => []NothingLost
<1>1. SInv => NothingLost
  BY DEF SInv, NothingLost, Taken
<1> QED BY <1>1, Streams, PTL

\* Also on a connection that is reset or failed, get_message has returned what
\* the client wrote first, in order.
THEOREM ReturnedInOrder == Spec => []InOrder
<1>1. SInv => InOrder
  BY DEF SInv, InOrder, Prefix
<1> QED BY <1>1, Streams, PTL

\* get_message fails with no complete message at the front of its buffer,
\* whatever follows it.
THEOREM FailsForNoMessage == Spec => FailsOnlyIncomplete
<1> DEFINE Kept == pc # "failed" /\ pc' = "failed"
                     => \A m \in 1..MaxMessages :
                          ~(Len(msg_buffer) >= 2 /\ SubSeq(msg_buffer, 1, 2) = Whole(m))
<1>1. ASSUME SInv, [Next]_vars PROVE Kept
  <2> SUFFICES ASSUME pc # "failed", pc' = "failed", NEW m \in 1..MaxMessages,
                      Len(msg_buffer) >= 2, SubSeq(msg_buffer, 1, 2) = Whole(m)
               PROVE  FALSE
    OBVIOUS
  <2>1. Next
    BY <1>1 DEF vars
  <2>2. ReceiveFirstFails \/ ReturnError
    BY <2>1 DEF Next, GetMessage, WriteFront, WriteRest, WriteJunk, Write, HangUp,
       Arrive, CallBuffered, Call, ReceiveFirst, GatherMore, Quiet, GatherFails,
       ReturnMessage, Pop
  <2>3. CASE ReceiveFirstFails
    <3>1. msg_buffer = <<>>
      BY <1>1, <2>3 DEF ReceiveFirstFails, SInv
    <3> QED BY <3>1
  <2>4. CASE ReturnError
    <3>1. msg_buffer \in Seq(Data)
      BY <1>1, Typed DEF SInv
    <3>2. msg_buffer[1] = SubSeq(msg_buffer, 1, 2)[1]
      BY <3>1
    <3>3. Whole(m)[1] = [msg |-> m, part |-> "front"]
      BY DEF Whole
    <3>4. msg_buffer[1] \in Piece /\ msg_buffer[1].msg = m
      BY <3>2, <3>3 DEF Piece, Part
    <3>5. Complete(msg_buffer)
      BY <3>4 DEF Complete
    <3> QED BY <2>4, <3>5 DEF ReturnError
  <2> QED BY <2>2, <2>3, <2>4
<1>2. Spec => [][Kept]_vars
  BY <1>1, Streams, PTL DEF Spec
<1> QED BY <1>2 DEF FailsOnlyIncomplete
=============================================================================
