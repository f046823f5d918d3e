--------------------------- MODULE RoutingProofs ----------------------------
(***************************************************************************)
(* The theorem about Routing: an answer comes to the requester it is for,  *)
(* with the results of its own request.                                    *)
(*                                                                         *)
(* The invariant says of each socket which messages can be on the way to   *)
(* it, that a pending request is in one place, that the slots filled in    *)
(* requests_ are those without a job, and that neither two jobs nor two    *)
(* requests can be taken for each other.  For it, what is printed must be  *)
(* read, what is joined must be split, and what is sent must be received.  *)
(***************************************************************************)
EXTENDS AlgorithmsProofs

-----------------------------------------------------------------------------
(* Messages and frames *)

\* A number that is printed is the one that is read.
LEMMA NumberPrinted ==
    ASSUME NEW n \in Numbers
    PROVE  /\ Number(Text(n)) = n
           /\ \A m \in Numbers : Text(m) = Text(n) => m = n
           /\ Text(n) # <<>>
<1>1. \A m \in Numbers : Text(m) = Text(n) => m = n
  BY MessagesAssumption DEF Text
<1>2. Number(Text(n)) = n
  BY <1>1 DEF Number
<1> QED
  BY <1>1, <1>2 DEF Text

\* The numbers up to n are finite, and n.
LEMMA UpTo ==
    ASSUME NEW n \in Nat
    PROVE  IsFiniteSet(1..n) /\ Cardinality(1..n) = n
<1>1. n \in Int /\ 1 \in Int
  OBVIOUS
<1>2. IsFiniteSet(1..n)
  BY ONLY <1>1, FS_Interval
<1>3. Cardinality(1..n) = IF 1 > n THEN 0 ELSE n - 1 + 1
  BY ONLY <1>1, FS_Interval
<1>4. Cardinality(1..n) = n
  BY <1>3
<1> QED
  BY <1>2, <1>4

\* Two sequences in a row: the length, and what is where.
LEMMA InARow ==
    ASSUME NEW U, NEW q \in Seq(U), NEW r \in Seq(U)
    PROVE  /\ q \o r \in Seq(U) /\ Len(q \o r) = Len(q) + Len(r)
           /\ \A i \in 1..Len(q) : (q \o r)[i] = q[i]
           /\ \A i \in 1..Len(r) : (q \o r)[Len(q) + i] = r[i]
OBVIOUS

\* A sequence the other way round.
LEMMA ReverseProperties ==
    ASSUME NEW U, NEW q \in Seq(U)
    PROVE  /\ Reverse(q) \in Seq(U) /\ Len(Reverse(q)) = Len(q)
           /\ \A i \in 1..Len(q) : Reverse(q)[i] = q[Len(q) - i + 1]
BY DEF Reverse

\* What is received is what was sent.
LEMMA FramesReceived ==
    ASSUME NEW F, NEW a \in Seq(F), <<>> \notin F, NEW subject, NEW D, NEW d \in Seq(D)
    PROVE  Received(Frames(Message(a, subject, d))) = Message(a, subject, d)
<1> DEFINE U  == F \cup D \cup {<<>>, <<subject>>}
           n  == Len(a)
           k  == Len(d)
           fr == Frames(Message(a, subject, d))
           ra == Reverse(a)
           mi == <<Empty, <<subject>> >>
<1>0. n \in Nat /\ k \in Nat
  OBVIOUS
<1>1. ra \in Seq(U) /\ Len(ra) = n /\ \A i \in 1..n : ra[i] = a[n - i + 1]
  BY <1>0 DEF Reverse
<1>2. mi \in Seq(U) /\ Len(mi) = 2 /\ mi[1] = <<>> /\ mi[2] = <<subject>> /\ d \in Seq(U)
  BY DEF Empty
<1>3. fr = ra \o mi \o d
  BY DEF Frames, Message
<1> HIDE DEF ra, mi, fr, U
<1>4. /\ fr \in Seq(U) /\ Len(fr) = n + 2 + k
      /\ \A i \in 1..n : fr[i] = a[n - i + 1]
      /\ fr[n + 1] = <<>> /\ fr[n + 2] = <<subject>>
      /\ \A i \in 1..k : fr[n + 2 + i] = d[i]
  <2> DEFINE two == ra \o mi
  <2>1. /\ two \in Seq(U) /\ Len(two) = n + 2
        /\ \A i \in 1..n : two[i] = ra[i]
        /\ two[n + 1] = mi[1] /\ two[n + 2] = mi[2]
    <3>1. /\ two \in Seq(U) /\ Len(two) = Len(ra) + Len(mi)
          /\ \A i \in 1..Len(ra) : two[i] = ra[i]
          /\ \A i \in 1..Len(mi) : two[Len(ra) + i] = mi[i]
      <4>1. ra \in Seq(U) /\ mi \in Seq(U)
        BY <1>1, <1>2
      <4> QED
        BY ONLY <4>1, InARow
    <3> HIDE DEF two
    <3> QED
      BY <1>0, <1>1, <1>2, <3>1
  <2>2. fr = two \o d
    BY <1>3
  <2> HIDE DEF two
  <2>3. /\ fr \in Seq(U) /\ Len(fr) = Len(two) + Len(d)
        /\ \A i \in 1..Len(two) : fr[i] = two[i]
        /\ \A i \in 1..Len(d) : fr[Len(two) + i] = d[i]
    <3>1. two \in Seq(U) /\ d \in Seq(U)
      BY <1>2, <2>1
    <3>2. fr = two \o d
      BY <2>2
    <3> QED
      BY ONLY <3>1, <3>2, InARow
  <2>4. n + 1 \in 1..(n + 2) /\ n + 2 \in 1..(n + 2) /\ \A i \in 1..n : i \in 1..(n + 2)
    BY <1>0
  <2> QED
    BY <1>1, <1>2, <2>1, <2>3, <2>4
<1>5. SelectInSeq(fr, LAMBDA f : f = Empty) = n + 1
  <2> DEFINE I == {i \in 1..Len(fr) : fr[i] = Empty}
  <2>1. n + 1 \in I
    BY <1>0, <1>4 DEF Empty
  <2>2. \A i \in I : n + 1 <= i /\ i \in Nat
    <3> SUFFICES ASSUME NEW i \in 1..Len(fr), fr[i] = <<>>, i <= n
                 PROVE  FALSE
      BY <1>0 DEF Empty
    <3>1. fr[i] = a[n - i + 1] /\ n - i + 1 \in 1..n
      BY <1>0, <1>4
    <3> QED
      BY <1>0, <3>1
  <2>3. SelectInSeq(fr, LAMBDA f : f = Empty) = IF I # {} THEN Min(I) ELSE 0
    BY DEF SelectInSeq
  <2>4. Min(I) = n + 1
    <3> HIDE DEF I
    <3> QED
      BY <1>0, <2>1, <2>2 DEF Min
  <2> QED
    BY <2>1, <2>3, <2>4
<1>6. Reverse(SubSeq(fr, 1, n)) = a
  <2> DEFINE h == SubSeq(fr, 1, n)
  <2>1. Len(h) = n /\ \A i \in 1..n : h[i] = a[n - i + 1]
    BY <1>0, <1>4
  <2>2. h \in Seq(U)
    BY <1>0, <1>4
  <2> HIDE DEF h
  <2>3. /\ Reverse(h) \in Seq(U) /\ Len(Reverse(h)) = n
        /\ \A i \in 1..n : Reverse(h)[i] = h[n - i + 1]
    BY <2>1, <2>2, ReverseProperties
  <2>4. ASSUME NEW i \in 1..n
        PROVE  Reverse(h)[i] = a[i]
    <3>1. n - i + 1 \in 1..n /\ n - (n - i + 1) + 1 = i
      BY <1>0
    <3> QED
      BY <2>1, <2>3, <3>1
  <2>5. a \in Seq(U)
    BY DEF U
  <2>6. Reverse(h) = a
    BY <2>3, <2>4, <2>5, SeqEqual
  <2> QED
    BY <2>6 DEF h
<1>7. SubSeq(fr, n + 3, Len(fr)) = d
  BY <1>0, <1>4
<1> QED
  <2>1. Received(fr) = Message(Reverse(SubSeq(fr, 1, (n + 1) - 1)), fr[(n + 1) + 1][1],
                               SubSeq(fr, (n + 1) + 2, Len(fr)))
    BY <1>5 DEF Received
  <2>2. (n + 1) - 1 = n /\ (n + 1) + 1 = n + 2 /\ (n + 1) + 2 = n + 3
    BY <1>0
  <2> QED
    <3>1. Received(fr) = Message(a, subject, d)
      <4>1. fr[n + 2][1] = subject
        BY <1>4
      <4> QED
        BY <1>6, <1>7, <2>1, <2>2, <4>1, Zenon
    <3> QED
      BY <3>1 DEF fr

\* The first of the frames and the rest, when a frame is put in front.
LEMMA InFront ==
    ASSUME NEW x, NEW U, NEW q \in Seq(U)
    PROVE  Head(<<x>> \o q) = x /\ Tail(<<x>> \o q) = q
<1> DEFINE V == U \cup {x}
           r == <<x>> \o q
<1>1. <<x>> \in Seq(V) /\ q \in Seq(V) /\ Len(<<x>>) = 1 /\ <<x>>[1] = x
  OBVIOUS
<1>2. /\ r \in Seq(V) /\ Len(r) = Len(<<x>>) + Len(q)
      /\ \A i \in 1..Len(<<x>>) : r[i] = <<x>>[i]
      /\ \A i \in 1..Len(q) : r[Len(<<x>>) + i] = q[i]
  <2> HIDE DEF V
  <2> QED
    BY ONLY <1>1, InARow
<1> HIDE DEF r, V
<1>3. r # <<>> /\ r[1] = x /\ Len(q) \in Nat /\ Len(r) = 1 + Len(q)
  BY <1>1, <1>2
<1>4. Tail(r) = q
  <2>1. Tail(r) \in Seq(V) /\ Len(Tail(r)) = Len(q) /\ \A i \in 1..Len(q) : Tail(r)[i] = r[i + 1]
    BY <1>2, <1>3
  <2>2. \A i \in 1..Len(q) : r[i + 1] = q[i]
    BY <1>1, <1>2, <1>3
  <2> QED
    BY ONLY <1>1, <2>1, <2>2, SeqEqual
<1> QED
  BY <1>2, <1>3, <1>4 DEF r

\* The frames of a message are a sequence.
LEMMA FramesAreSeq ==
    ASSUME NEW F, NEW a \in Seq(F), NEW subject, NEW D, NEW d \in Seq(D)
    PROVE  \E U : Frames(Message(a, subject, d)) \in Seq(U)
<1> DEFINE U  == F \cup D \cup {<<>>, <<subject>>}
<1>1. Reverse(a) \in Seq(U) /\ <<Empty, <<subject>> >> \in Seq(U) /\ d \in Seq(U)
  BY DEF Reverse, Empty
<1>2. Frames(Message(a, subject, d)) = Reverse(a) \o <<Empty, <<subject>> >> \o d
  BY DEF Frames, Message
<1> HIDE DEF U
<1> QED
  BY <1>1, <1>2

\* Short addresses, as sequences and the other way round.
LEMMA ShortAddresses ==
    ASSUME NEW x, NEW t, x # <<>>, t # <<>>
    PROVE  /\ <<>> \in Seq({t, x}) /\ <<t>> \in Seq({t, x})
           /\ <<x>> \in Seq({t, x}) /\ <<t, x>> \in Seq({t, x})
           /\ <<>> \notin {t, x}
           /\ Reverse(<<x>>) = <<x>> \o Reverse(<<>>)
           /\ Reverse(<<t, x>>) = <<x>> \o Reverse(<<t>>)
<1> DEFINE F == {t, x}
<1>1. <<>> \in Seq(F) /\ Len(<<>>) = 0
  OBVIOUS
<1>2. <<t>> \in Seq(F) /\ Len(<<t>>) = 1 /\ <<t>>[1] = t
  OBVIOUS
<1>3. <<x>> \in Seq(F) /\ Len(<<x>>) = 1 /\ <<x>>[1] = x
  OBVIOUS
<1>4. <<t, x>> \in Seq(F) /\ Len(<<t, x>>) = 2 /\ <<t, x>>[1] = t /\ <<t, x>>[2] = x
  OBVIOUS
<1> HIDE DEF F
<1>5. ASSUME NEW a \in Seq(F), NEW b \in Seq(F), Len(b) = Len(a) + 1, b[Len(b)] = x,
             \A i \in 1..Len(a) : b[i] = a[i]
      PROVE  Reverse(b) = <<x>> \o Reverse(a)
  <2> DEFINE ra == Reverse(a)
             rb == Reverse(b)
             xr == <<x>> \o ra
             n  == Len(a)
  <2>0. n \in Nat
    OBVIOUS
  <2>1. ra \in Seq(F) /\ Len(ra) = n /\ \A i \in 1..n : ra[i] = a[n - i + 1]
    BY <1>5, ReverseProperties
  <2>2. rb \in Seq(F) /\ Len(rb) = n + 1 /\ \A i \in 1..(n + 1) : rb[i] = b[(n + 1) - i + 1]
    BY <1>5, ReverseProperties
  <2> HIDE DEF ra, rb
  <2>3. /\ xr \in Seq(F) /\ Len(xr) = Len(<<x>>) + Len(ra)
        /\ \A i \in 1..Len(<<x>>) : xr[i] = <<x>>[i]
        /\ \A i \in 1..Len(ra) : xr[Len(<<x>>) + i] = ra[i]
    BY ONLY <1>3, <2>1, InARow
  <2> HIDE DEF xr
  <2>4. xr[1] = x /\ Len(xr) = n + 1 /\ \A i \in 1..n : xr[1 + i] = ra[i]
    BY <1>3, <2>0, <2>1, <2>3
  <2>5. ASSUME NEW i \in 1..(n + 1)
        PROVE  rb[i] = xr[i]
    <3>1. CASE i = 1
      <4>1. (n + 1) - i + 1 = n + 1
        BY <2>0, <3>1
      <4> QED
        BY <1>5, <2>2, <2>4, <3>1, <4>1
    <3>2. CASE i # 1
      <4>1. /\ i - 1 \in 1..n /\ 1 + (i - 1) = i
            /\ n - (i - 1) + 1 \in 1..n /\ (n + 1) - i + 1 = n - (i - 1) + 1
        BY <2>0, <3>2
      <4>2. xr[i] = ra[i - 1]
        BY <2>4, <4>1
      <4>3. ra[i - 1] = a[n - (i - 1) + 1]
        BY <2>1, <4>1
      <4>4. b[n - (i - 1) + 1] = a[n - (i - 1) + 1]
        BY <1>5, <4>1
      <4>5. rb[i] = b[n - (i - 1) + 1]
        BY <2>2, <4>1
      <4> QED
        BY <4>2, <4>3, <4>4, <4>5
    <3> QED
      BY <3>1, <3>2
  <2>6. rb = xr
    BY <2>2, <2>3, <2>4, <2>5, SeqEqual, SMTT(30)
  <2> QED
    BY <2>6 DEF rb, xr, ra
<1>6. Reverse(<<x>>) = <<x>> \o Reverse(<<>>)
  <2>1. \A i \in 1..Len(<<>>) : <<x>>[i] = <<>>[i]
    BY <1>1
  <2>2. Len(<<x>>) = Len(<<>>) + 1 /\ <<x>>[Len(<<x>>)] = x
    BY <1>1, <1>3
  <2> QED
    BY <1>1, <1>3, <1>5, <2>1, <2>2, Zenon
<1>7. Reverse(<<t, x>>) = <<x>> \o Reverse(<<t>>)
  <2>1. \A i \in 1..Len(<<t>>) : <<t, x>>[i] = <<t>>[i]
    BY <1>2, <1>4
  <2>2. Len(<<t, x>>) = Len(<<t>>) + 1 /\ <<t, x>>[Len(<<t, x>>)] = x
    BY <1>2, <1>4
  <2> QED
    BY <1>2, <1>4, <1>5, <2>1, <2>2, Zenon
<1> QED
  BY <1>1, <1>2, <1>3, <1>4, <1>6, <1>7 DEF F

\* What a hop adds to the frames of a short address: the sender's identity in front.
LEMMA ShortHops ==
    ASSUME NEW x, NEW t, x # <<>>, t # <<>>, NEW subject, NEW D, NEW d \in Seq(D)
    PROVE  /\ Frames(Message(<<x>>, subject, d)) = FromPeer(x, Frames(Message(<<>>, subject, d)))
           /\ Frames(Message(<<t, x>>, subject, d))
                  = FromPeer(x, Frames(Message(<<t>>, subject, d)))
<1> DEFINE F == {t, x}
<1>1. /\ <<>> \in Seq(F) /\ <<t>> \in Seq(F) /\ <<x>> \in Seq(F) /\ <<t, x>> \in Seq(F)
      /\ Reverse(<<x>>) = FromPeer(x, Reverse(<<>>))
      /\ Reverse(<<t, x>>) = FromPeer(x, Reverse(<<t>>))
  BY ShortAddresses, Zenon DEF FromPeer
<1> HIDE DEF F
<1>2. ASSUME NEW a \in Seq(F), NEW b \in Seq(F), Reverse(b) = FromPeer(x, Reverse(a))
      PROVE  Frames(Message(b, subject, d)) = FromPeer(x, Frames(Message(a, subject, d)))
  <2> DEFINE U  == F \cup D \cup {<<>>, <<subject>>, x}
             ra == Reverse(a)
             rb == Reverse(b)
             re == <<Empty, <<subject>> >>
  <2>1. ra \in Seq(U) /\ <<x>> \in Seq(U) /\ re \in Seq(U) /\ d \in Seq(U)
    BY DEF Reverse, Empty
  <2>2. rb = <<x>> \o ra
    BY <1>2 DEF FromPeer
  <2>3. /\ Frames(Message(b, subject, d)) = rb \o re \o d
        /\ Frames(Message(a, subject, d)) = ra \o re \o d
    BY DEF Frames, Message
  <2> HIDE DEF ra, rb, re, U
  <2>4. <<x>> \o (ra \o re \o d) = (<<x>> \o ra) \o re \o d
    BY <2>1, SMTT(30)
  <2> QED
    BY <2>2, <2>3, <2>4 DEF FromPeer
<1>3. Frames(Message(<<x>>, subject, d)) = FromPeer(x, Frames(Message(<<>>, subject, d)))
  BY <1>1, <1>2, Zenon
<1>4. Frames(Message(<<t, x>>, subject, d)) = FromPeer(x, Frames(Message(<<t>>, subject, d)))
  BY <1>1, <1>2, Zenon
<1> QED
  BY <1>3, <1>4

\* Frames of data.
IsData(d) == \E D : d \in Seq(D)

\* A few frames are data.
LEMMA ShortData ==
    ASSUME NEW a, NEW b, NEW c
    PROVE  IsData(<<>>) /\ IsData(<<a>>) /\ IsData(<<a, b>>) /\ IsData(<<a, b, c>>)
<1>1. /\ <<>> \in Seq({a}) /\ <<a>> \in Seq({a}) /\ <<a, b>> \in Seq({a, b})
      /\ <<a, b, c>> \in Seq({a, b, c})
  OBVIOUS
<1> QED
  BY <1>1 DEF IsData

\* Packet q brings message m to the socket at.
Arrives(q, at, m) == q.at = at /\ Received(q.frames) = m

\* What arrives of the messages between two sockets, by the length of the address: on a
\* PAIR or DEALER, ...
LEMMA PlainArrives ==
    ASSUME NEW at, NEW subject, NEW d, IsData(d)
    PROVE  /\ Arrives(Plain(at, Message(<<>>, subject, d)), at, Message(<<>>, subject, d))
           /\ \A x : x # <<>> =>
                 Arrives(Plain(at, Message(<<x>>, subject, d)), at, Message(<<x>>, subject, d))
<1>d. PICK D : d \in Seq(D)
  BY DEF IsData
<1>1. ASSUME NEW x, x # <<>>
      PROVE  /\ Received(Frames(Message(<<>>, subject, d))) = Message(<<>>, subject, d)
             /\ Received(Frames(Message(<<x>>, subject, d))) = Message(<<x>>, subject, d)
  <2>1. <<>> \in Seq({x}) /\ <<x>> \in Seq({x}) /\ <<>> \notin {x}
    BY <1>1
  <2> QED
    BY <1>d, <2>1, FramesReceived
<1>2. <<0>> # <<>>
  OBVIOUS
<1> QED
  BY <1>1, <1>2 DEF Arrives, Plain, Packet

\* ... from a DEALER at a ROUTER, ...
LEMMA DealtArrives ==
    ASSUME NEW socket, NEW name, NEW subject, NEW d, IsData(d)
    PROVE  /\ Arrives(Dealt(socket, name, Message(<<>>, subject, d)), Server(socket),
                      Message(<<Identity(name)>>, subject, d))
           /\ \A t : t # <<>> =>
                 Arrives(Dealt(socket, name, Message(<<t>>, subject, d)), Server(socket),
                         Message(<<t, Identity(name)>>, subject, d))
<1>d. PICK D : d \in Seq(D)
  BY DEF IsData
<1> DEFINE x == Identity(name)
<1>0. x # <<>>
  BY DEF Identity
<1> HIDE DEF x
<1>1. ASSUME NEW t, t # <<>>
      PROVE  /\ Received(FromPeer(x, Frames(Message(<<>>, subject, d))))
                    = Message(<<x>>, subject, d)
             /\ Received(FromPeer(x, Frames(Message(<<t>>, subject, d))))
                    = Message(<<t, x>>, subject, d)
  <2>1. /\ <<x>> \in Seq({t, x}) /\ <<t, x>> \in Seq({t, x}) /\ <<>> \notin {t, x}
    BY <1>0, <1>1, ShortAddresses, Zenon
  <2>2. /\ Frames(Message(<<x>>, subject, d)) = FromPeer(x, Frames(Message(<<>>, subject, d)))
        /\ Frames(Message(<<t, x>>, subject, d)) = FromPeer(x, Frames(Message(<<t>>, subject, d)))
    BY <1>d, <1>0, <1>1, ShortHops
  <2>3. /\ Received(Frames(Message(<<x>>, subject, d))) = Message(<<x>>, subject, d)
        /\ Received(Frames(Message(<<t, x>>, subject, d))) = Message(<<t, x>>, subject, d)
    BY <1>d, <2>1, FramesReceived
  <2> QED
    BY <2>2, <2>3
<1>2. <<0>> # <<>>
  OBVIOUS
<1> QED
  BY <1>1, <1>2 DEF Arrives, Dealt, Packet, x

\* ... and from a ROUTER at the peer it names.
LEMMA RoutedArrives ==
    ASSUME NEW socket, NEW subject, NEW d, IsData(d), NEW x, x # <<>>
    PROVE  /\ Arrives(Routed(socket, Message(<<x>>, subject, d)), At(socket, x),
                      Message(<<>>, subject, d))
           /\ \A t : t # <<>> =>
                 Arrives(Routed(socket, Message(<<t, x>>, subject, d)), At(socket, x),
                         Message(<<t>>, subject, d))
<1>d. PICK D : d \in Seq(D)
  BY DEF IsData
<1>1. ASSUME NEW t, t # <<>>
      PROVE  /\ Arrives(Routed(socket, Message(<<x>>, subject, d)), At(socket, x),
                        Message(<<>>, subject, d))
             /\ Arrives(Routed(socket, Message(<<t, x>>, subject, d)), At(socket, x),
                        Message(<<t>>, subject, d))
  <2> DEFINE f0 == Frames(Message(<<>>, subject, d))
             f1 == Frames(Message(<<t>>, subject, d))
  <2>1. /\ <<>> \in Seq({t, x}) /\ <<t>> \in Seq({t, x}) /\ <<>> \notin {t, x}
    BY <1>1, ShortAddresses, Zenon
  <2>2. /\ Frames(Message(<<x>>, subject, d)) = FromPeer(x, f0)
        /\ Frames(Message(<<t, x>>, subject, d)) = FromPeer(x, f1)
    BY <1>d, <1>1, ShortHops
  <2>3. Received(f0) = Message(<<>>, subject, d) /\ Received(f1) = Message(<<t>>, subject, d)
    BY <1>d, <2>1, FramesReceived
  <2>4. (\E U : f0 \in Seq(U)) /\ (\E U : f1 \in Seq(U))
    BY <1>d, <2>1, FramesAreSeq
  <2> HIDE DEF f0, f1
  <2>5. /\ Head(FromPeer(x, f0)) = x /\ Tail(FromPeer(x, f0)) = f0
        /\ Head(FromPeer(x, f1)) = x /\ Tail(FromPeer(x, f1)) = f1
    BY <2>4, InFront DEF FromPeer
  <2> QED
    BY <2>2, <2>3, <2>5 DEF Arrives, Routed, Packet, PeerOf, ToPeer
<1>2. <<0>> # <<>>
  OBVIOUS
<1> QED
  BY <1>1, <1>2

-----------------------------------------------------------------------------
(* A set of numbers in its order *)

\* Numbers can be put in order.
LEMMA AscendingExists ==
    ASSUME NEW S \in SUBSET Nat, IsFiniteSet(S)
    PROVE  \E q \in SetToSeqs(S) : \A i, j \in DOMAIN q : i < j => q[i] < q[j]
<1> DEFINE Asc(q)   == \A i, j \in DOMAIN q : i < j => q[i] < q[j]
           n        == Cardinality(S)
           T        == {k \in 0..n : \A U \in SUBSET S : Cardinality(U) = k =>
                                         \E q \in SetToSeqs(U) : Asc(q)}
<1>0. n \in Nat
  BY FS_CardinalityType
<1>1. 0 \in T
  <2> SUFFICES ASSUME NEW U \in SUBSET S, Cardinality(U) = 0
               PROVE  \E q \in SetToSeqs(U) : Asc(q)
    BY <1>0
  <2>1. U = {}
    BY FS_Subset, FS_EmptySet
  <2>2. <<>> \in SetToSeqs(U)
    BY <2>1, FS_EmptySet DEF SetToSeqs
  <2> QED
    BY <2>2
<1>2. ASSUME NEW k \in 0..n, k \in T, k < n
      PROVE  k + 1 \in T
  <2> SUFFICES ASSUME NEW U \in SUBSET S, Cardinality(U) = k + 1
               PROVE  \E q \in SetToSeqs(U) : Asc(q)
    BY <1>0, <1>2
  <2>0. k \in Nat /\ IsFiniteSet(U)
    <3>1. IsFiniteSet(U)
      BY FS_Subset
    <3> QED
      BY <1>0, <3>1
  <2>1. U # {}
    BY <2>0, FS_EmptySet
  <2>2. PICK least \in U : \A m \in U : least <= m
    <3>1. U \in SUBSET Nat
      OBVIOUS
    <3> QED
      BY <2>1, <3>1, LeastNumber
  <2> DEFINE W == U \ {least}
  <2>3. Cardinality(W) = k /\ W \in SUBSET S
    <3>1. Cardinality(W) = Cardinality(U) - 1
      BY <2>0, FS_RemoveElement
    <3> QED
      BY <2>0, <3>1
  <2>4. PICK q \in SetToSeqs(W) : Asc(q)
    BY <1>2, <2>3
  <2>5. q \in [1..k -> W] /\ \A i, j \in 1..k : i # j => q[i] # q[j]
    BY <2>3, <2>4 DEF SetToSeqs, IsInjective
  <2> DEFINE h == [i \in 1..(k + 1) |-> IF i = 1 THEN least ELSE q[i - 1]]
  <2>6. \A i \in 2..(k + 1) : i - 1 \in 1..k /\ h[i] = q[i - 1] /\ h[i] \in W
    <3> SUFFICES ASSUME NEW i \in 2..(k + 1)
                 PROVE  i - 1 \in 1..k /\ h[i] = q[i - 1] /\ h[i] \in W
      OBVIOUS
    <3>1. i - 1 \in 1..k /\ i \in 1..(k + 1) /\ i # 1
      BY <2>0
    <3>2. h[i] = q[i - 1]
      BY <3>1
    <3> HIDE DEF h, W
    <3> QED
      BY <2>5, <3>1, <3>2
  <2>7. h[1] = least /\ DOMAIN h = 1..(k + 1) /\ \A i \in 1..(k + 1) : i = 1 \/ i \in 2..(k + 1)
    BY <2>0
  <2>8. h \in [1..(k + 1) -> U]
    <3>1. \A i \in 1..(k + 1) : h[i] \in U
      <4> HIDE DEF h
      <4> QED
        BY <2>2, <2>6, <2>7
    <3> QED
      BY <3>1
  <2>9. ASSUME NEW i \in 1..(k + 1), NEW j \in 1..(k + 1), i < j
        PROVE  h[i] < h[j]
    <3> HIDE DEF h
    <3>1. j \in 2..(k + 1)
      BY <2>0, <2>9
    <3>2. CASE i = 1
      <4>1. h[j] \in U /\ h[j] # least /\ least <= h[j]
        BY <2>2, <2>6, <3>1
      <4>2. least \in Nat /\ h[j] \in Nat /\ h[i] = least
        BY <2>2, <2>7, <3>2, <4>1
      <4> QED
        BY <4>1, <4>2
    <3>3. CASE i # 1
      <4>1. i \in 2..(k + 1)
        BY <2>0, <3>3
      <4>2. i - 1 \in 1..k /\ j - 1 \in 1..k /\ i - 1 < j - 1 /\ DOMAIN q = 1..k
        BY <2>0, <2>5, <2>6, <2>9, <3>1, <4>1
      <4>3. q[i - 1] < q[j - 1]
        BY <2>4, <4>2
      <4> QED
        BY <2>6, <3>1, <4>1, <4>3
    <3> QED
      BY <3>2, <3>3
  <2>10. \A i, j \in 1..(k + 1) : i # j => h[i] # h[j]
    <3> HIDE DEF h
    <3> SUFFICES ASSUME NEW i \in 1..(k + 1), NEW j \in 1..(k + 1), i # j
                 PROVE  h[i] # h[j]
      OBVIOUS
    <3>1. i < j \/ j < i
      BY <2>0
    <3>2. h[i] \in Nat /\ h[j] \in Nat
      BY <2>8
    <3> QED
      BY <2>9, <3>1, <3>2
  <2>11. h \in SetToSeqs(U)
    <3> HIDE DEF h
    <3> QED
      BY <2>0, <2>8, <2>10 DEF SetToSeqs, IsInjective
  <2>12. Asc(h)
    <3>1. DOMAIN h = 1..(k + 1)
      BY <2>7
    <3> HIDE DEF h
    <3> QED
      BY <2>9, <3>1
  <2> QED
    BY <2>11, <2>12
<1>3. n \in T
  <2>1. 0..n \subseteq T
    <3> HIDE DEF T, n
    <3> QED
      BY <1>0, <1>1, <1>2, Induction
  <2> QED
    BY <1>0, <2>1
<1> QED
  BY <1>3

\* What Ascending gives.
LEMMA AscendingIsSeq ==
    ASSUME NEW S \in SUBSET Nat, IsFiniteSet(S)
    PROVE  /\ Ascending(S) \in Seq(S)
           /\ Len(Ascending(S)) \in Nat /\ DOMAIN Ascending(S) = 1..Len(Ascending(S))
<1> DEFINE q == Ascending(S)
<1>1. q \in SetToSeqs(S)
  BY AscendingExists DEF Ascending
<1>2. q \in [1..Cardinality(S) -> S]
  BY <1>1 DEF SetToSeqs
<1> HIDE DEF q
<1>3. q \in Seq(S)
  BY <1>2, FS_CardinalityType, IsASeq
<1>4. Len(q) \in Nat /\ DOMAIN q = 1..Len(q)
  BY <1>3, LenProperties
<1> QED
  BY <1>3, <1>4 DEF q

-----------------------------------------------------------------------------
(* Texts, joined and split *)

\* Segments of one character each, and the delimiters between them.
Segments(c) == [i \in DOMAIN c |-> <<c[i]>>]
Joined(c, i) == [j \in 1..(2 * i) |-> IF j % 2 = 1 THEN c[(j + 1) \div 2] ELSE ":"]

\* The odd and the even places.
LEMMA OddOrEven ==
    ASSUME NEW j \in Nat
    PROVE  \/ j % 2 = 0 /\ 2 * (j \div 2) = j
           \/ j % 2 = 1 /\ 2 * ((j + 1) \div 2) - 1 = j
BY Z3

\* The joined text is a sequence.
LEMMA JoinedIsSeq ==
    ASSUME NEW C, ":" \in C, NEW c \in Seq(C), NEW k \in 0..Len(c)
    PROVE  Joined(c, k) \in Seq(C) /\ Len(Joined(c, k)) = 2 * k
<1>1. \A j \in 1..(2 * k) : j % 2 = 1 => (j + 1) \div 2 \in 1..Len(c)
  BY Z3
<1>2. Joined(c, k) \in [1..(2 * k) -> C]
  BY <1>1 DEF Joined
<1>3. 2 * k \in Nat
  OBVIOUS
<1>4. Joined(c, k) \in Seq(C)
  BY <1>2, <1>3, IsASeq
<1> QED
  BY <1>2, <1>3, <1>4, LenProperties

\* One more segment is joined.
LEMMA JoinedStep ==
    ASSUME NEW C, ":" \in C, NEW c \in Seq(C), NEW i \in 1..Len(c)
    PROVE  Joined(c, i) = Joined(c, i - 1) \o Segments(c)[i] \o <<":">>
<1> DEFINE p == Joined(c, i - 1)
           q == Joined(c, i)
           s == Segments(c)[i]
           d == <<":">>
<1>0. i \in Nat /\ i >= 1 /\ i - 1 \in Nat /\ Len(c) \in Nat /\ DOMAIN c = 1..Len(c)
  OBVIOUS
<1>1. s = <<c[i]>> /\ s \in Seq(C) /\ Len(s) = 1 /\ s[1] = c[i] /\ c[i] \in C
  BY <1>0 DEF Segments
<1>2. d \in Seq(C) /\ Len(d) = 1 /\ d[1] = ":"
  OBVIOUS
<1>3. /\ p \in Seq(C) /\ Len(p) = 2 * (i - 1) /\ q \in Seq(C) /\ Len(q) = 2 * i
  <2>1. i \in 0..Len(c) /\ i - 1 \in 0..Len(c)
    BY <1>0
  <2> QED
    BY <2>1, JoinedIsSeq
<1>4. /\ \A j \in 1..(2 * (i - 1)) : q[j] = p[j]
      /\ q[2 * i - 1] = c[i] /\ q[2 * i] = ":"
  <2>1. ASSUME NEW j \in 1..(2 * (i - 1))
        PROVE  q[j] = p[j]
    <3>1. j \in 1..(2 * i)
      BY <1>0
    <3> QED
      BY <3>1 DEF Joined
  <2>2. 2 * i - 1 \in 1..(2 * i) /\ (2 * i - 1) % 2 = 1 /\ ((2 * i - 1) + 1) \div 2 = i
    BY <1>0, Z3
  <2>3. 2 * i \in 1..(2 * i) /\ (2 * i) % 2 # 1
    BY <1>0, Z3
  <2> QED
    BY <2>1, <2>2, <2>3 DEF Joined
<1> HIDE DEF p, q, s, d
<1>5. /\ p \o s \in Seq(C) /\ Len(p \o s) = Len(p) + Len(s)
      /\ \A j \in 1..Len(p) : (p \o s)[j] = p[j]
      /\ \A j \in 1..Len(s) : (p \o s)[Len(p) + j] = s[j]
  <2>1. p \in Seq(C) /\ s \in Seq(C)
    BY <1>1, <1>3
  <2> QED
    BY ONLY <2>1, InARow
<1> DEFINE ps == p \o s
<1> HIDE DEF ps
<1>6. ps \in Seq(C) /\ Len(ps) = 2 * i - 1 /\ \A j \in 1..(2 * i - 1) : ps[j] = q[j]
  <2>1. ps \in Seq(C) /\ Len(ps) = 2 * i - 1
    BY <1>0, <1>1, <1>3, <1>5 DEF ps
  <2>2. ASSUME NEW j \in 1..(2 * i - 1)
        PROVE  ps[j] = q[j]
    <3>1. CASE j \in 1..(2 * (i - 1))
      BY <1>3, <1>4, <1>5, <3>1 DEF ps
    <3>2. CASE j = 2 * i - 1
      <4>1. 2 * (i - 1) + 1 = 2 * i - 1 /\ 1 \in 1..1
        BY <1>0
      <4> QED
        BY <1>1, <1>3, <1>4, <1>5, <3>2, <4>1 DEF ps
    <3> QED
      BY <1>0, <3>1, <3>2
  <2> QED
    BY <2>1, <2>2
<1>7. /\ ps \o d \in Seq(C) /\ Len(ps \o d) = Len(ps) + Len(d)
      /\ \A j \in 1..Len(ps) : (ps \o d)[j] = ps[j]
      /\ \A j \in 1..Len(d) : (ps \o d)[Len(ps) + j] = d[j]
  <2>1. ps \in Seq(C) /\ d \in Seq(C)
    BY <1>2, <1>6
  <2> QED
    BY ONLY <2>1, InARow
<1> DEFINE r == ps \o d
<1> HIDE DEF r
<1>8. r \in Seq(C) /\ Len(r) = 2 * i /\ \A j \in 1..(2 * i) : r[j] = q[j]
  <2>1. r \in Seq(C) /\ Len(r) = 2 * i
    BY <1>0, <1>2, <1>6, <1>7 DEF r
  <2>2. ASSUME NEW j \in 1..(2 * i)
        PROVE  r[j] = q[j]
    <3>1. CASE j \in 1..(2 * i - 1)
      BY <1>6, <1>7, <3>1 DEF r
    <3>2. CASE j = 2 * i
      <4>1. (2 * i - 1) + 1 = 2 * i /\ 1 \in 1..1
        BY <1>0
      <4> QED
        BY <1>2, <1>4, <1>6, <1>7, <3>2, <4>1 DEF r
    <3> QED
      BY <1>0, <3>1, <3>2
  <2> QED
    BY <2>1, <2>2
<1>9. r = q
  BY <1>3, <1>8, SeqEqual
<1> QED
  BY <1>9 DEF r, ps, p, q, s, d

\* What joinStr makes of such segments.
LEMMA JoinedText ==
    ASSUME NEW C, ":" \in C, NEW c \in Seq(C)
    PROVE  joinStr(Segments(c)) = Front(Joined(c, Len(c)))
<1> DEFINE n == Len(c)
           q == Segments(c)
           g == [i \in 0..n |-> Joined(c, i)]
           v == CHOOSE f : f = [i \in 0..n |-> IF i = 0 THEN <<>>
                                               ELSE f[i - 1] \o q[i] \o <<":">>]
<1>0. n \in Nat /\ DOMAIN c = 1..n
  OBVIOUS
<1>1. Len(q) = n
  BY <1>0 DEF Segments
<1>2. Joined(c, 0) = <<>>
  BY DEF Joined
<1>3. g = [i \in 0..n |-> IF i = 0 THEN <<>> ELSE g[i - 1] \o q[i] \o <<":">>]
  <2>1. ASSUME NEW i \in 0..n, i # 0
        PROVE  g[i] = g[i - 1] \o q[i] \o <<":">>
    <3>1. i \in 1..n /\ i - 1 \in 0..n
      BY <1>0, <2>1
    <3>2. g[i] = Joined(c, i) /\ g[i - 1] = Joined(c, i - 1)
      BY <3>1
    <3> HIDE DEF g, q
    <3>3. Joined(c, i) = Joined(c, i - 1) \o q[i] \o <<":">>
      BY <3>1, JoinedStep DEF q
    <3> QED
      BY <3>2, <3>3
  <2>2. \A i \in 0..n : g[i] = Joined(c, i)
    OBVIOUS
  <2>3. g = [i \in 0..n |-> g[i]]
    OBVIOUS
  <2> HIDE DEF g, q
  <2> QED
    BY <1>0, <1>2, <2>1, <2>2, <2>3
<1>4. v = [i \in 0..n |-> IF i = 0 THEN <<>> ELSE v[i - 1] \o q[i] \o <<":">>]
  BY <1>3
<1>5. joinStr(q) = Front(v[n])
  BY <1>1 DEF joinStr
<1> HIDE DEF v, q
<1>6. v[0] = <<>> /\ \A i \in 1..n : v[i] = v[i - 1] \o q[i] \o <<":">>
  <2>1. \A i \in 0..n : v[i] = IF i = 0 THEN <<>> ELSE v[i - 1] \o q[i] \o <<":">>
    BY <1>4, Zenon
  <2>2. 0 \in 0..n /\ \A i \in 1..n : i \in 0..n /\ i # 0
    BY <1>0
  <2> QED
    BY <2>1, <2>2
<1> DEFINE T == {i \in 0..n : v[i] = Joined(c, i)}
<1>7. 0..n \subseteq T
  <2>1. 0 \in T
    BY <1>0, <1>2, <1>6
  <2>2. ASSUME NEW i \in 0..n, i \in T, i < n
        PROVE  i + 1 \in T
    <3>1. i + 1 \in 1..n /\ i + 1 \in 0..n /\ (i + 1) - 1 = i
      BY <1>0, <2>2
    <3>2. Joined(c, i + 1) = Joined(c, (i + 1) - 1) \o q[i + 1] \o <<":">>
      BY <3>1, JoinedStep DEF q
    <3>3. v[i + 1] = v[(i + 1) - 1] \o q[i + 1] \o <<":">>
      BY <1>6, <3>1
    <3> QED
      BY <2>2, <3>1, <3>2, <3>3
  <2> HIDE DEF T, n
  <2> QED
    BY <1>0, <2>1, <2>2, Induction
<1>8. v[n] = Joined(c, n)
  BY <1>0, <1>7
<1> QED
  BY <1>5, <1>8 DEF q

\* What splitStr has after j characters of such a text.
Firsts(c, k) == [x \in 1..k |-> <<c[x]>>]
SplitUpTo(c, j) ==
    [out |-> Firsts(c, j \div 2),
     segment |-> IF j % 2 = 1 THEN <<c[(j + 1) \div 2]>> ELSE <<>>]

\* One more segment of those that are split off.
LEMMA OneMoreSegment ==
    ASSUME NEW C, NEW c \in Seq(C), NEW k \in 1..Len(c)
    PROVE  Append(Firsts(c, k - 1), <<c[k]>>) = Firsts(c, k)
<1> DEFINE U == Seq(C)
           p == Firsts(c, k - 1)
           q == Firsts(c, k)
           x == <<c[k]>>
<1>0. k \in Nat /\ k - 1 \in Nat /\ Len(c) \in Nat /\ \A i \in 1..Len(c) : <<c[i]>> \in U
  OBVIOUS
<1>1. ASSUME NEW l \in Nat, l <= Len(c)
      PROVE  Firsts(c, l) \in Seq(U) /\ Len(Firsts(c, l)) = l
  <2>1. Firsts(c, l) \in [1..l -> U]
    <3>1. \A i \in 1..l : i \in 1..Len(c)
      BY <1>0, <1>1
    <3> QED
      BY <1>0, <3>1 DEF Firsts
  <2>2. Firsts(c, l) \in Seq(U)
    BY <2>1, IsASeq
  <2> QED
    BY <2>1, <2>2, LenProperties
<1>2. p \in Seq(U) /\ Len(p) = k - 1 /\ q \in Seq(U) /\ Len(q) = k
  <2>1. k <= Len(c) /\ k - 1 <= Len(c)
    BY <1>0
  <2> HIDE DEF U
  <2> QED
    BY <1>0, <1>1, <2>1
<1>3. q[k] = x /\ \A i \in 1..(k - 1) : q[i] = p[i]
  BY <1>0 DEF Firsts
<1>4. x \in U
  BY <1>0
<1> HIDE DEF p, q, x, U
<1> DEFINE r == Append(p, x)
<1>5. r \in Seq(U) /\ Len(r) = k /\ r[k] = x /\ \A i \in 1..(k - 1) : r[i] = p[i]
  BY <1>0, <1>2, <1>4, AppendProperties
<1> HIDE DEF r
<1>6. \A i \in 1..k : r[i] = q[i]
  BY <1>0, <1>3, <1>5
<1>7. r = q
  BY <1>2, <1>5, <1>6, SeqEqual
<1> QED
  BY <1>7 DEF r, p, q, x

\* One more character is read.
LEMMA SplitStep ==
    ASSUME NEW C, NEW c \in Seq(C), ":" \notin C, NEW j \in 1..(2 * Len(c) - 1), NEW w,
           w = Joined(c, Len(c))[j]
    PROVE  SplitUpTo(c, j) =
              LET s == SplitUpTo(c, j - 1)
              IN  IF w = ":" THEN [out |-> Append(s.out, s.segment), segment |-> <<>>]
                  ELSE [s EXCEPT !.segment = Append(@, w)]
<1> DEFINE s == SplitUpTo(c, j - 1)
           n == Len(c)
<1>0. n \in Nat /\ j \in Nat /\ j - 1 \in Nat /\ j \in 1..(2 * n)
  OBVIOUS
<1>1. CASE j % 2 = 0
  <2> DEFINE k == j \div 2
  <2>1. /\ (j - 1) % 2 = 1 /\ ((j - 1) + 1) \div 2 = k /\ (j - 1) \div 2 = k - 1
        /\ k \in 1..n
    BY <1>0, <1>1, Z3
  <2>2. w = ":"
    BY <1>0, <1>1 DEF Joined
  <2>3. s = [out |-> Firsts(c, k - 1), segment |-> <<c[k]>>]
    BY <2>1 DEF SplitUpTo
  <2>4. SplitUpTo(c, j) = [out |-> Firsts(c, k), segment |-> <<>>]
    BY <1>1 DEF SplitUpTo
  <2> HIDE DEF k, s
  <2>5. Append(Firsts(c, k - 1), <<c[k]>>) = Firsts(c, k)
    BY <2>1, OneMoreSegment
  <2>6. s.out = Firsts(c, k - 1) /\ s.segment = <<c[k]>>
    BY <2>3
  <2> QED
    BY <2>2, <2>4, <2>5, <2>6 DEF s
<1>2. CASE j % 2 = 1
  <2> DEFINE k == (j + 1) \div 2
  <2>1. (j - 1) % 2 # 1 /\ (j - 1) \div 2 = j \div 2 /\ k \in 1..n
    BY <1>0, <1>2, Z3
  <2>2. w = c[k] /\ w # ":"
    <3>1. w = c[k]
      BY <1>0, <1>2 DEF Joined
    <3>2. c[k] \in C
      BY <2>1
    <3> QED
      BY <3>1, <3>2
  <2>3. s = [out |-> Firsts(c, j \div 2), segment |-> <<>>]
    BY <2>1 DEF SplitUpTo
  <2>4. SplitUpTo(c, j) = [out |-> Firsts(c, j \div 2), segment |-> <<w>>]
    BY <1>2, <2>2 DEF SplitUpTo
  <2> HIDE DEF k, s
  <2>5. Append(<<>>, w) = <<w>>
    OBVIOUS
  <2>6. [s EXCEPT !.segment = Append(@, w)] = [out |-> Firsts(c, j \div 2), segment |-> <<w>>]
    BY <2>3, <2>5
  <2> QED
    BY <2>2, <2>4, <2>6 DEF s
<1> QED
  BY <1>0, <1>1, <1>2, OddOrEven

\* The last odd place.
LEMMA TwiceLessOne ==
    ASSUME NEW n \in Nat, n >= 1, NEW m, m = 2 * n - 1
    PROVE  m % 2 = 1 /\ (m + 1) \div 2 = n /\ m \div 2 = n - 1
BY Z3

\* Splitting takes apart what was joined, when no segment holds a delimiter.
LEMMA JoinSplit ==
    ASSUME NEW C, NEW c \in Seq(C), ":" \notin C
    PROVE  splitStr(joinStr(Segments(c))) = Segments(c)
<1> DEFINE n == Len(c)
           D == C \cup {":"}
           w == joinStr(Segments(c))
           m == Len(w)
           Read(s, i) == IF w[i] = ":" THEN [out |-> Append(s.out, s.segment), segment |-> <<>>]
                         ELSE [s EXCEPT !.segment = Append(@, w[i])]
           g == [i \in 0..m |-> SplitUpTo(c, i)]
           v == CHOOSE f : f = [i \in 0..m |->
                    IF i = 0 THEN [out |-> <<>>, segment |-> <<>>] ELSE Read(f[i - 1], i)]
<1>0. n \in Nat /\ DOMAIN c = 1..n
  OBVIOUS
<1>1. /\ m \in Nat /\ m = (IF n = 0 THEN 0 ELSE 2 * n - 1)
      /\ \A j \in 1..m : w[j] = Joined(c, n)[j]
  <2> DEFINE q == Joined(c, n)
  <2>1. w = Front(q)
    <3>1. c \in Seq(D) /\ ":" \in D
      OBVIOUS
    <3> HIDE DEF D
    <3> QED
      BY <3>1, JoinedText
  <2>2. q \in Seq(D) /\ Len(q) = 2 * n
    <3>1. c \in Seq(D) /\ ":" \in D /\ Len(c) \in 0..Len(c)
      BY <1>0
    <3> HIDE DEF D
    <3> QED
      BY <3>1, JoinedIsSeq
  <2> HIDE DEF q, n
  <2>3. CASE n = 0
    <3>1. w = <<>>
      BY <2>1, <2>2, <2>3 DEF Front
    <3> QED
      BY <2>3, <3>1
  <2>4. CASE n # 0
    <3>1. 2 * n - 1 \in Nat /\ 2 * n - 1 <= Len(q) /\ w = SubSeq(q, 1, 2 * n - 1)
      BY <1>0, <2>1, <2>2, <2>4 DEF Front
    <3> HIDE DEF w
    <3> DEFINE l == 2 * n - 1
    <3>2. l \in Nat /\ l <= Len(q) /\ w = SubSeq(q, 1, l)
      BY <3>1
    <3> HIDE DEF l
    <3>3. Len(w) = l /\ \A j \in 1..l : w[j] = q[j]
      BY <2>2, <3>2
    <3> QED
      BY <2>4, <3>2, <3>3 DEF l, q
  <2> QED
    BY <2>3, <2>4
<1>2. SplitUpTo(c, 0) = [out |-> <<>>, segment |-> <<>>]
  <2>1. 0 \div 2 = 0 /\ 0 % 2 # 1
    BY Z3
  <2>2. Firsts(c, 0) = <<>>
    BY DEF Firsts
  <2> QED
    BY <2>1, <2>2 DEF SplitUpTo
<1>3. \A i \in 1..m : SplitUpTo(c, i) = Read(SplitUpTo(c, i - 1), i)
  <2> SUFFICES ASSUME NEW i \in 1..m
               PROVE  SplitUpTo(c, i) = Read(SplitUpTo(c, i - 1), i)
    OBVIOUS
  <2>1. i \in 1..(2 * Len(c) - 1) /\ w[i] = Joined(c, Len(c))[i]
    BY <1>0, <1>1
  <2> HIDE DEF w
  <2> QED
    BY <2>1, SplitStep
<1>4. g = [i \in 0..m |-> IF i = 0 THEN [out |-> <<>>, segment |-> <<>>] ELSE Read(g[i - 1], i)]
  <2>1. ASSUME NEW i \in 0..m, i # 0
        PROVE  g[i] = Read(g[i - 1], i)
    <3>1. i \in 1..m /\ i - 1 \in 0..m
      BY <1>1, <2>1
    <3>2. g[i] = SplitUpTo(c, i) /\ g[i - 1] = SplitUpTo(c, i - 1)
      BY <3>1
    <3> HIDE DEF g, w
    <3> QED
      BY <1>3, <3>1, <3>2
  <2>2. \A i \in 0..m : g[i] = SplitUpTo(c, i)
    OBVIOUS
  <2>3. g = [i \in 0..m |-> g[i]]
    OBVIOUS
  <2> HIDE DEF g, Read
  <2> QED
    BY <1>1, <1>2, <2>1, <2>2, <2>3
<1>5. v = [i \in 0..m |-> IF i = 0 THEN [out |-> <<>>, segment |-> <<>>] ELSE Read(v[i - 1], i)]
  BY <1>4
<1>6. splitStr(w) = IF v[m].segment = <<>> THEN v[m].out ELSE Append(v[m].out, v[m].segment)
  BY DEF splitStr
<1> HIDE DEF v, Read
<1>7. v[0] = [out |-> <<>>, segment |-> <<>>] /\ \A i \in 1..m : v[i] = Read(v[i - 1], i)
  <2>1. \A i \in 0..m :
            v[i] = IF i = 0 THEN [out |-> <<>>, segment |-> <<>>] ELSE Read(v[i - 1], i)
    BY <1>5, Zenon
  <2>2. 0 \in 0..m /\ \A i \in 1..m : i \in 0..m /\ i # 0
    BY <1>1
  <2> QED
    BY <2>1, <2>2
<1> DEFINE T == {i \in 0..m : v[i] = SplitUpTo(c, i)}
<1>8. 0..m \subseteq T
  <2>1. 0 \in T
    BY <1>1, <1>2, <1>7
  <2>2. ASSUME NEW i \in 0..m, i \in T, i < m
        PROVE  i + 1 \in T
    <3>1. i + 1 \in 1..m /\ i + 1 \in 0..m /\ (i + 1) - 1 = i
      BY <1>1, <2>2
    <3>2. v[i + 1] = Read(v[i], i + 1) /\ SplitUpTo(c, i + 1) = Read(SplitUpTo(c, i), i + 1)
      <4>1. /\ v[i + 1] = Read(v[(i + 1) - 1], i + 1)
            /\ SplitUpTo(c, i + 1) = Read(SplitUpTo(c, (i + 1) - 1), i + 1)
        BY <1>3, <1>7, <3>1
      <4> QED
        BY <3>1, <4>1
    <3> QED
      BY <2>2, <3>1, <3>2
  <2> HIDE DEF T, m
  <2> QED
    BY <1>1, <2>1, <2>2, Induction
<1>9. v[m] = SplitUpTo(c, m)
  BY <1>1, <1>8
<1>10. Segments(c) = Firsts(c, n)
  BY <1>0 DEF Segments, Firsts
<1> HIDE DEF w
<1>11. CASE n = 0
  <2>1. v[m].out = <<>> /\ v[m].segment = <<>>
    BY <1>1, <1>2, <1>9, <1>11
  <2>2. Firsts(c, 0) = <<>>
    BY DEF Firsts
  <2> QED
    BY <1>6, <1>10, <1>11, <2>1, <2>2 DEF w
<1>12. CASE n # 0
  <2>0. m = 2 * n - 1 /\ n >= 1 /\ n \in 1..Len(c)
    BY <1>0, <1>1, <1>12
  <2>1. m % 2 = 1 /\ (m + 1) \div 2 = n /\ m \div 2 = n - 1 /\ n \in 1..Len(c)
    <3> HIDE DEF n, m
    <3> QED
      BY <1>0, <2>0, TwiceLessOne
  <2>2. v[m] = [out |-> Firsts(c, n - 1), segment |-> <<c[n]>>]
    BY <1>9, <2>1 DEF SplitUpTo
  <2>3. v[m].segment # <<>> /\ v[m].out = Firsts(c, n - 1) /\ v[m].segment = <<c[n]>>
    BY <2>2
  <2>4. Append(Firsts(c, n - 1), <<c[n]>>) = Firsts(c, n)
    <3> HIDE DEF n
    <3> QED
      BY <2>1, OneMoreSegment
  <2> QED
    BY <1>6, <1>10, <2>3, <2>4 DEF w
<1> QED
  BY <1>11, <1>12

-----------------------------------------------------------------------------
(* The invariant *)

\* The parts of a request, as they are printed, read and kept.
TypesAsked(s) == Ascending(ToSet(s.jobTypes))
TypeText(s)   == joinStr([i \in DOMAIN s.jobTypes |-> Text(s.jobTypes[i])])
DataText(s)   == joinStr([i \in DOMAIN s.data |-> PrintedDouble(s.data[i])])
AddressOf(s)  == <<Text(s.id), Identity(s.requester)>>
KeyOf(s)      == joinStr(AddressOf(s))

SampleIn(text) == [i \in DOMAIN splitStr(text) |-> ParsedDouble(splitStr(text)[i])]
ResultOf(type, text) == PrintedDouble(Likelihood(type, SampleIn(text)))

\* The results of all jobs of a request.
ResultsOf(s) == [x \in DOMAIN TypesAsked(s) |-> ResultOf(TypesAsked(s)[x], DataText(s))]

\* The jobs of which there is no result yet.
Unfinished == jobQueue \cup {e.job : e \in wip}

\* A job that has been given to a worker.
GivenOut(n) == n \in 0..(nextJobId - 1) /\ \A job \in jobQueue : job.id # n

\* What messages and minions say of a job in progress is what the Delegator knows of it.
JobMail(m) ==
    \E n \in Nat :
        /\ GivenOut(n) /\ m.data = <<m.data[1], Text(n), m.data[3]>>
        /\ \A e \in wip : e.job.id = n =>
               m.data[1] = Text(e.job.type) /\ m.data[3] = requests[e.job.key].data

ResultMail(m) ==
    \E n \in Nat :
        /\ GivenOut(n) /\ m.data = <<Text(n), m.data[2]>>
        /\ \A e \in wip : e.job.id = n =>
               m.data[2] = ResultOf(e.job.type, requests[e.job.key].data)

Computes(c) ==
    \E n \in Nat :
        /\ GivenOut(n) /\ currentJob[c].id = Text(n)
        /\ \A e \in wip : e.job.id = n =>
               /\ currentJob[c].type = e.job.type
               /\ currentJob[c].sample = SampleIn(requests[e.job.key].data)

\* The messages that there are, by the socket they reach.
RequestMail(at, m) ==
    \E i \in 1..asked :
        /\ at = Server("requests")
        /\ m = Message(AddressOf(Submissions[i]), "REQUEST",
                       <<TypeText(Submissions[i]), DataText(Submissions[i])>>)

AnswerMail(at, m) ==
    \E i \in 1..asked :
        /\ at = At("answers", Identity(Submissions[i].requester))
        /\ m = Message(<<Text(Submissions[i].id)>>, "RESULT", ResultsOf(Submissions[i]))

ToClientMail(at, m) ==
    \E c \in Client :
        \/ /\ at = At("client", Identity(c)) \/ at = At("minion", c)
           /\ m = Message(<<>>, "JOB", m.data) /\ JobMail(m)
        \/ at = At("client", Identity(c)) /\ m = Message(<<>>, "HEARTBEAT", <<>>)
        \/ at = Server("fromHeartbeat") /\ m = Message(<<Identity(c)>>, "HEARTBEAT", <<>>)

FromClientMail(at, m) ==
    \E c \in Client :
        /\ \/ /\ at \in {At("fromMinion", c), Server("network"), Server("heartbeat")}
              /\ m.subject = "HELLO" /\ m.data = <<m.data[1]>>
           \/ /\ at \in {At("fromMinion", c), Server("network")}
              /\ m.subject = "RESULT" /\ ResultMail(m)
        /\ m = Message(IF at = At("fromMinion", c) THEN <<>> ELSE <<Identity(c)>>,
                       m.subject, m.data)

Mail(at, m) ==
    RequestMail(at, m) \/ AnswerMail(at, m) \/ ToClientMail(at, m) \/ FromClientMail(at, m)

MailInv == \A p \in wire : Mail(p.at, Received(p.frames))

\* The messages with a request or its answer.
UnderWay(s) ==
    {p \in wire : \/ p.at = Server("requests") /\ Received(p.frames).address = AddressOf(s)
                  \/ /\ p.at = At("answers", Identity(s.requester))
                     /\ Received(p.frames).address = <<Text(s.id)>>}

\* What is pending is at one place, as a message or in requests_.
OneUnderWay ==
    \A i \in DOMAIN Submissions :
        LET s == Submissions[i]
        IN  /\ \A p, q \in UnderWay(s) : p = q
            /\ KeyOf(s) \in DOMAIN requests => UnderWay(s) = {}
            /\ UnderWay(s) # {} \/ KeyOf(s) \in DOMAIN requests => <<s.requester, s.id>> \in pending

\* The slots of a request that are filled are those without a job.
Open(k) == {job.index : job \in {j \in Unfinished : j.key = k}}

RequestFits(k, s) ==
    LET r == requests[k]
    IN  /\ k = KeyOf(s) /\ DOMAIN r.results = DOMAIN TypesAsked(s)
        /\ r = [address |-> AddressOf(s), data |-> DataText(s), nDone |-> r.nDone,
                results |-> [x \in DOMAIN TypesAsked(s) |-> r.results[x]]]
        /\ \A job \in Unfinished : job.key = k =>
               job.index \in DOMAIN TypesAsked(s) /\ job.type = TypesAsked(s)[job.index]
        /\ \A x \in DOMAIN TypesAsked(s) \ Open(k) : r.results[x] = ResultsOf(s)[x]
        /\ r.nDone = Cardinality(DOMAIN TypesAsked(s) \ Open(k))

RequestsInv == \A k \in DOMAIN requests : \E i \in 1..asked : RequestFits(k, Submissions[i])

JobsInv ==
    /\ nextJobId \in Nat /\ 0..(nextJobId - 1) \subseteq Numbers
    /\ \A job \in Unfinished : job.id \in 0..(nextJobId - 1) /\ job.key \in DOMAIN requests
    /\ \A j1, j2 \in Unfinished :
          j1.id = j2.id \/ (j1.key = j2.key /\ j1.index = j2.index) => j1 = j2
    /\ \A e \in wip : e.job \notin jobQueue
    /\ \A e, f \in wip : e.job = f.job => e = f

ClientsInv ==
    /\ \A w \in DOMAIN workers : \E c \in Client : workers[w].address = <<Identity(c)>>
    /\ currentJob = [c \in Client |-> currentJob[c]]
    /\ \A c \in Client : currentJob[c] = NoJob \/ Computes(c)

AnswersInv ==
    \A a \in answers : \E i \in 1..asked :
        /\ a.requester = Submissions[i].requester /\ a.id = Submissions[i].id
        /\ a.results = Expected(Submissions[i])

RoutingInv ==
    /\ asked \in 0..Len(Submissions)
    /\ MailInv /\ OneUnderWay /\ RequestsInv /\ JobsInv /\ ClientsInv /\ AnswersInv

\* Numbers are joined and taken apart again.
LEMMA NumbersJoined ==
    ASSUME NEW q \in Seq(Numbers)
    PROVE  splitStr(joinStr([i \in DOMAIN q |-> Text(q[i])])) = [i \in DOMAIN q |-> Text(q[i])]
<1> DEFINE C == {ToString(n) : n \in Numbers}
           c == [i \in DOMAIN q |-> ToString(q[i])]
<1>1. ":" \notin C
  BY MessagesAssumption
<1>2. c \in Seq(C)
  <2>1. Len(q) \in Nat /\ DOMAIN q = 1..Len(q)
    OBVIOUS
  <2>2. c \in [1..Len(q) -> C]
    <3>1. \A i \in 1..Len(q) : q[i] \in Numbers
      OBVIOUS
    <3> QED
      BY <2>1, <3>1
  <2> HIDE DEF c, C
  <2> QED
    BY <2>1, <2>2, IsASeq
<1>3. Segments(c) = [i \in DOMAIN q |-> Text(q[i])]
  BY DEF Segments, Text
<1>4. splitStr(joinStr(Segments(c))) = Segments(c)
  <2> HIDE DEF c, C
  <2> QED
    BY <1>1, <1>2, JoinSplit
<1> QED
  BY <1>3, <1>4

\* The submissions and their parts.
LEMMA RequestParts ==
    ASSUME NEW k \in DOMAIN Submissions, NEW s, s = Submissions[k]
    PROVE  /\ s.id \in Numbers /\ s.requester \in Requester
           /\ {Number(t) : t \in ToSet(splitStr(TypeText(s)))} = ToSet(s.jobTypes)
           /\ TypesAsked(s) \in Seq(Nat \cap Numbers)
           /\ Len(TypesAsked(s)) \in Nat /\ DOMAIN TypesAsked(s) = 1..Len(TypesAsked(s))
           /\ Expected(s) = [x \in DOMAIN TypesAsked(s) |-> ParsedDouble(ResultsOf(s)[x])]
<1>1. /\ s.id \in Numbers /\ s.jobTypes \in Seq(Nat \cap Numbers)
      /\ s.data \in Seq(Int)
      /\ \A x \in DOMAIN s.data : SixDecimals(s.data[x]) \in Numbers
  BY RoutingAssumption
<1>2. s.requester \in Requester
  BY DEF Requester
<1>3. {Number(t) : t \in ToSet(splitStr(TypeText(s)))} = ToSet(s.jobTypes)
  <2> DEFINE q == s.jobTypes
  <2>1. q \in Seq(Numbers) /\ \A i \in DOMAIN q : q[i] \in Numbers
    BY <1>1
  <2> HIDE DEF q
  <2>2. splitStr(joinStr([i \in DOMAIN q |-> Text(q[i])])) = [i \in DOMAIN q |-> Text(q[i])]
    BY <2>1, NumbersJoined
  <2>3. \A i \in DOMAIN q : Number(Text(q[i])) = q[i]
    BY <2>1, NumberPrinted
  <2>4. ToSet([i \in DOMAIN q |-> Text(q[i])]) = {Text(q[i]) : i \in DOMAIN q}
    BY DEF ToSet
  <2>5. {Number(t) : t \in {Text(q[i]) : i \in DOMAIN q}} = {q[i] : i \in DOMAIN q}
    BY <2>3
  <2>6. TypeText(s) = joinStr([i \in DOMAIN q |-> Text(q[i])]) /\ ToSet(s.jobTypes) = ToSet(q)
    BY DEF TypeText, q
  <2>7. ToSet(q) = {q[i] : i \in DOMAIN q}
    BY DEF ToSet
  <2> HIDE DEF q
  <2> QED
    BY <2>2, <2>4, <2>5, <2>6, <2>7
<1>4. /\ TypesAsked(s) \in Seq(Nat \cap Numbers)
      /\ Len(TypesAsked(s)) \in Nat /\ DOMAIN TypesAsked(s) = 1..Len(TypesAsked(s))
  <2> DEFINE q == s.jobTypes
             S == ToSet(q)
  <2>1. S \in SUBSET (Nat \cap Numbers)
    BY <1>1 DEF ToSet
  <2>2. IsFiniteSet(S)
    <3>1. DOMAIN q = 1..Len(q) /\ Len(q) \in Nat
      BY <1>1
    <3>2. IsFiniteSet(DOMAIN q)
      <4>1. PICK n \in Nat : n = Len(q)
        BY <3>1
      <4>2. IsFiniteSet(1..n)
        BY UpTo
      <4> QED
        BY <3>1, <4>1, <4>2
    <3> DEFINE f == [i \in DOMAIN q |-> q[i]]
    <3>3. f \in Surjection(DOMAIN q, S)
      BY DEF Surjection, ToSet
    <3> HIDE DEF f, S
    <3> QED
      BY <3>2, <3>3, FS_Surjection
  <2> HIDE DEF S
  <2>3. /\ Ascending(S) \in Seq(S)
        /\ Len(Ascending(S)) \in Nat /\ DOMAIN Ascending(S) = 1..Len(Ascending(S))
    <3>1. S \in SUBSET Nat
      BY <2>1
    <3> QED
      BY <2>2, <3>1, AscendingIsSeq
  <2>4. Ascending(S) \in Seq(Nat \cap Numbers)
    <3> DEFINE a == Ascending(S)
    <3> HIDE DEF a
    <3>1. a \in Seq(S) /\ \A x \in S : x \in Nat \cap Numbers
      BY <2>1, <2>3 DEF a
    <3>2. Len(a) \in Nat /\ a \in [1..Len(a) -> Nat \cap Numbers]
      BY <3>1
    <3> QED
      BY <3>2, IsASeq DEF a
  <2> QED
    BY <2>3, <2>4 DEF TypesAsked, S
<1>5. SampleIn(DataText(s)) = [i \in DOMAIN s.data |-> Rounded(s.data[i])]
  <2> DEFINE q == s.data
             r == [i \in DOMAIN q |-> SixDecimals(q[i])]
  <2>1. r \in Seq(Numbers)
    <3>1. Len(q) \in Nat /\ DOMAIN q = 1..Len(q)
      BY <1>1
    <3>2. r \in [1..Len(q) -> Numbers]
      BY <1>1, <3>1
    <3> HIDE DEF r
    <3> QED
      BY <3>1, <3>2, IsASeq
  <2>2. DOMAIN r = DOMAIN q /\ \A i \in DOMAIN q : Text(r[i]) = PrintedDouble(q[i])
    BY DEF PrintedDouble
  <2> HIDE DEF r
  <2>3. splitStr(joinStr([i \in DOMAIN r |-> Text(r[i])])) = [i \in DOMAIN r |-> Text(r[i])]
    BY <2>1, NumbersJoined
  <2>4. [i \in DOMAIN r |-> Text(r[i])] = [i \in DOMAIN q |-> PrintedDouble(q[i])]
    BY <2>2
  <2>5. splitStr(DataText(s)) = [i \in DOMAIN q |-> PrintedDouble(q[i])]
    BY <2>3, <2>4 DEF DataText
  <2> HIDE DEF q
  <2>6. SampleIn(DataText(s)) = [i \in DOMAIN q |-> ParsedDouble(PrintedDouble(q[i]))]
    BY <2>5 DEF SampleIn
  <2> QED
    BY <2>6 DEF q, Rounded
<1>6. Expected(s) = [x \in DOMAIN TypesAsked(s) |-> ParsedDouble(ResultsOf(s)[x])]
  <2>1. \A x \in DOMAIN TypesAsked(s) :
            ResultsOf(s)[x] = PrintedDouble(Likelihood(TypesAsked(s)[x], SampleIn(DataText(s))))
    BY DEF ResultsOf, ResultOf
  <2>2. Expected(s) = [x \in DOMAIN TypesAsked(s) |->
                          Rounded(Likelihood(TypesAsked(s)[x], SampleIn(DataText(s))))]
    BY <1>5, Zenon DEF Expected, TypesAsked
  <2> QED
    BY <2>1, <2>2 DEF Rounded
<1> QED
  BY <1>1, <1>2, <1>3, <1>4, <1>6

\* Requests have the same key only if they have the same requester and id.
LEMMA KeysDiffer ==
    ASSUME NEW i \in DOMAIN Submissions, NEW j \in DOMAIN Submissions,
           \/ KeyOf(Submissions[i]) = KeyOf(Submissions[j])
           \/ AddressOf(Submissions[i]) = AddressOf(Submissions[j])
    PROVE  /\ Submissions[i].requester = Submissions[j].requester
           /\ Submissions[i].id = Submissions[j].id
<1> DEFINE t(k) == ToString(Submissions[k].id)
           r(k) == Submissions[k].requester
           c(k) == <<t(k), r(k)>>
<1>1. ASSUME NEW k \in DOMAIN Submissions
      PROVE  KeyOf(Submissions[k])[1] = t(k) /\ KeyOf(Submissions[k])[3] = r(k)
  <2> DEFINE C == {t(k), r(k), ":"}
             d == c(k)
  <2>1. d \in Seq(C) /\ ":" \in C /\ Len(d) = 2 /\ DOMAIN d = 1..2
    OBVIOUS
  <2>2. Segments(d) = AddressOf(Submissions[k])
    <3>1. Segments(d) = << <<t(k)>>, <<r(k)>> >>
      BY <2>1 DEF Segments
    <3> QED
      BY <3>1 DEF AddressOf, Text, Identity
  <2>3. d[1] = t(k) /\ d[2] = r(k)
    OBVIOUS
  <2> HIDE DEF C, d, t, r, c
  <2>4. joinStr(Segments(d)) = Front(Joined(d, Len(d)))
    BY <2>1, JoinedText
  <2>5. /\ Joined(d, 2) \in Seq(C) /\ Len(Joined(d, 2)) = 4
        /\ Joined(d, 2)[1] = d[1] /\ Joined(d, 2)[3] = d[2]
    <3>1. Joined(d, 2)[1] = d[1] /\ Joined(d, 2)[3] = d[2]
      BY DEF Joined
    <3>2. 2 \in 0..Len(d)
      BY <2>1
    <3>3. Joined(d, 2) \in Seq(C) /\ Len(Joined(d, 2)) = 2 * 2
      BY <2>1, <3>2, JoinedIsSeq
    <3> QED
      BY <3>1, <3>3
  <2> DEFINE w == Joined(d, 2)
  <2> HIDE DEF w
  <2>6. Front(w)[1] = w[1] /\ Front(w)[3] = w[3]
    <3>1. w \in Seq(C) /\ Len(w) = 4
      BY <2>5 DEF w
    <3>2. Front(w) = SubSeq(w, 1, 3)
      BY <3>1 DEF Front
    <3> QED
      BY <3>1, <3>2
  <2> QED
    BY <2>1, <2>2, <2>3, <2>4, <2>5, <2>6 DEF KeyOf, w
<1>2. ASSUME NEW k \in DOMAIN Submissions
      PROVE  AddressOf(Submissions[k])[1][1] = t(k) /\ AddressOf(Submissions[k])[2][1] = r(k)
  BY DEF AddressOf, Text, Identity
<1>3. t(i) = t(j) /\ r(i) = r(j)
  <2> HIDE DEF t, r
  <2> QED
    BY <1>1, <1>2
<1>4. Submissions[i].id \in Numbers /\ Submissions[j].id \in Numbers
  BY RequestParts
<1> QED
  BY <1>3, <1>4, MessagesAssumption

-----------------------------------------------------------------------------
(* What other steps keep *)

\* Which messages there are at a socket.
LEMMA MailAt ==
    ASSUME NEW at, NEW m, Mail(at, m)
    PROVE  /\ at = Server("requests") => RequestMail(at, m)
           /\ at = Server("network") /\ m.subject = "HELLO" =>
                 \E c \in Client : m = Message(<<Identity(c)>>, "HELLO", <<m.data[1]>>)
           /\ at = Server("network") /\ m.subject = "RESULT" =>
                 \E c \in Client : m = Message(<<Identity(c)>>, "RESULT", m.data) /\ ResultMail(m)
           /\ at = Server("heartbeat") =>
                 \E c \in Client : m = Message(<<Identity(c)>>, "HELLO", <<m.data[1]>>)
           /\ at = Server("fromHeartbeat") =>
                 \E c \in Client : m = Message(<<Identity(c)>>, "HEARTBEAT", <<>>)
           /\ \A x : at = At("answers", x) => AnswerMail(at, m)
           /\ \A x : at = At("client", x) /\ m.subject = "JOB" =>
                 m = Message(<<>>, "JOB", m.data) /\ JobMail(m)
           /\ \A x : at = At("minion", x) => m = Message(<<>>, "JOB", m.data) /\ JobMail(m)
           /\ \A x : at = At("fromMinion", x) /\ m.subject = "RESULT" =>
                 m = Message(<<>>, "RESULT", m.data) /\ ResultMail(m)
           /\ \A x : at = At("fromMinion", x) /\ m.subject = "HELLO" =>
                 m = Message(<<>>, "HELLO", <<m.data[1]>>)
<1>1. CASE RequestMail(at, m)
  BY <1>1 DEF RequestMail, At, Server
<1>2. CASE AnswerMail(at, m)
  BY <1>2 DEF AnswerMail, At, Server
<1>3. CASE ToClientMail(at, m)
  <2>1. PICK c \in Client :
        \/ /\ at = At("client", Identity(c)) \/ at = At("minion", c)
           /\ m = Message(<<>>, "JOB", m.data) /\ JobMail(m)
        \/ at = At("client", Identity(c)) /\ m = Message(<<>>, "HEARTBEAT", <<>>)
        \/ at = Server("fromHeartbeat") /\ m = Message(<<Identity(c)>>, "HEARTBEAT", <<>>)
    BY <1>3 DEF ToClientMail
  <2>2. /\ at # Server("network") /\ at # Server("heartbeat") /\ at # Server("requests")
        /\ \A x : at # At("answers", x) /\ at # At("fromMinion", x)
    BY <2>1 DEF At, Server
  <2>3. \A x : at = At("client", x) \/ at = At("minion", x) =>
            \/ m = Message(<<>>, "JOB", m.data) /\ JobMail(m)
            \/ at = At("client", x) /\ m = Message(<<>>, "HEARTBEAT", <<>>)
    BY <2>1 DEF At, Server
  <2>4. Message(<<>>, "HEARTBEAT", <<>>).subject # "JOB"
    BY DEF Message
  <2>5. at = Server("fromHeartbeat") => m = Message(<<Identity(c)>>, "HEARTBEAT", <<>>)
    BY <2>1 DEF At, Server
  <2>6. \A x, y : at = At("minion", x) => at # At("client", y)
    BY DEF At
  <2> QED
    BY <2>2, <2>3, <2>4, <2>5, <2>6
<1>4. CASE FromClientMail(at, m)
  <2>1. PICK c \in Client :
        /\ \/ /\ at \in {At("fromMinion", c), Server("network"), Server("heartbeat")}
              /\ m.subject = "HELLO" /\ m.data = <<m.data[1]>>
           \/ /\ at \in {At("fromMinion", c), Server("network")}
              /\ m.subject = "RESULT" /\ ResultMail(m)
        /\ m = Message(IF at = At("fromMinion", c) THEN <<>> ELSE <<Identity(c)>>,
                       m.subject, m.data)
    BY <1>4 DEF FromClientMail
  <2>2. /\ at # Server("fromHeartbeat") /\ at # Server("requests")
        /\ \A x : at # At("minion", x) /\ at # At("client", x) /\ at # At("answers", x)
    BY <2>1 DEF At, Server
  <2>3. at = Server("network") \/ at = Server("heartbeat") => at # At("fromMinion", c)
    BY DEF At, Server
  <2>4. \A x : at = At("fromMinion", x) => at = At("fromMinion", c)
    BY <2>1 DEF At, Server
  <2>5. at = Server("heartbeat") => m.subject = "HELLO" /\ m.data = <<m.data[1]>>
    BY <2>1 DEF At, Server
  <2>6. m.subject = "HELLO" => m.data = <<m.data[1]>>
    BY <2>1
  <2>7. m.subject = "RESULT" => ResultMail(m)
    BY <2>1
  <2>8. at = Server("network") \/ at = Server("heartbeat") =>
            m = Message(<<Identity(c)>>, m.subject, m.data)
    BY <2>1, <2>3
  <2>9. \A x : at = At("fromMinion", x) => m = Message(<<>>, m.subject, m.data)
    BY <2>1, <2>4
  <2> QED
    BY <2>2, <2>5, <2>6, <2>7, <2>8, <2>9
<1> QED
  BY <1>1, <1>2, <1>3, <1>4 DEF Mail

\* Steps that leave what has been given out as it is.
Kept ==
    /\ asked \in Nat /\ asked' \in Nat /\ asked <= asked'
    /\ \A n \in Nat : GivenOut(n) =>
          /\ GivenOut(n)'
          /\ \A e \in wip' : e.job.id = n =>
                e \in wip /\ requests'[e.job.key].data = requests[e.job.key].data

\* After such a step every message that is still there is one that there may be.
LEMMA MailKept ==
    ASSUME Kept, NEW at, NEW m, Mail(at, m)
    PROVE  Mail(at, m)'
<1>1. ASSUME JobMail(m)
      PROVE  JobMail(m)'
  <2>1. PICK n \in Nat :
            /\ GivenOut(n) /\ m.data = <<m.data[1], Text(n), m.data[3]>>
            /\ \A e \in wip : e.job.id = n =>
                  m.data[1] = Text(e.job.type) /\ m.data[3] = requests[e.job.key].data
    BY <1>1 DEF JobMail
  <2>2. \A e \in wip' : e.job.id = n =>
            m.data[1] = Text(e.job.type) /\ m.data[3] = requests'[e.job.key].data
    BY <2>1 DEF Kept
  <2>3. GivenOut(n)'
    BY <2>1 DEF Kept
  <2> QED
    BY <2>1, <2>2, <2>3 DEF JobMail
<1>2. ASSUME ResultMail(m)
      PROVE  ResultMail(m)'
  <2>1. PICK n \in Nat :
            /\ GivenOut(n) /\ m.data = <<Text(n), m.data[2]>>
            /\ \A e \in wip : e.job.id = n =>
                  m.data[2] = ResultOf(e.job.type, requests[e.job.key].data)
    BY <1>2 DEF ResultMail
  <2>2. \A e \in wip' : e.job.id = n =>
            m.data[2] = ResultOf(e.job.type, requests'[e.job.key].data)
    BY <2>1 DEF Kept
  <2>3. GivenOut(n)'
    BY <2>1 DEF Kept
  <2> QED
    BY <2>1, <2>2, <2>3 DEF ResultMail
<1>3. \A i \in 1..asked : i \in 1..asked'
  BY DEF Kept
<1>4. RequestMail(at, m) => RequestMail(at, m)'
  BY <1>3 DEF RequestMail
<1>5. AnswerMail(at, m) => AnswerMail(at, m)'
  BY <1>3 DEF AnswerMail
<1>6. ToClientMail(at, m) => ToClientMail(at, m)'
  BY <1>1 DEF ToClientMail
<1>7. FromClientMail(at, m) => FromClientMail(at, m)'
  BY <1>2 DEF FromClientMail
<1> QED
  BY <1>4, <1>5, <1>6, <1>7 DEF Mail

\* ... and so is what a minion computes.
LEMMA ComputesKept ==
    ASSUME Kept, NEW c \in Client, Computes(c), currentJob'[c] = currentJob[c]
    PROVE  Computes(c)'
<1>1. PICK n \in Nat :
          /\ GivenOut(n) /\ currentJob[c].id = Text(n)
          /\ \A e \in wip : e.job.id = n =>
                /\ currentJob[c].type = e.job.type
                /\ currentJob[c].sample = SampleIn(requests[e.job.key].data)
  BY DEF Computes
<1>2. \A e \in wip' : e.job.id = n =>
          /\ currentJob'[c].type = e.job.type
          /\ currentJob'[c].sample = SampleIn(requests'[e.job.key].data)
  BY <1>1 DEF Kept
<1>3. GivenOut(n)'
  BY <1>1 DEF Kept
<1> QED
  BY <1>1, <1>2, <1>3 DEF Computes

\* What a callback is given is a message that may be at its socket.
LEMMA Bound ==
    ASSUME MailInv, NEW at, NEW subject, NEW b \in bind(at, subject)
    PROVE  /\ b.m.subject = subject /\ Mail(at, b.m)
           /\ \E p \in wire : p.at = at /\ b.m = Received(p.frames) /\ b.rest = wire \ {p}
<1>1. PICK p \in wire : /\ p.at = at /\ Received(p.frames).subject = subject
                        /\ b = [m |-> Received(p.frames), rest |-> wire \ {p}]
  BY DEF bind
<1>2. b.m = Received(p.frames) /\ b.rest = wire \ {p}
  BY <1>1
<1>3. Mail(p.at, Received(p.frames))
  BY DEF MailInv
<1> QED
  BY <1>1, <1>2, <1>3

\* Steps on messages that are neither requests nor answers, and on no request or job.
QuietStep(gone, come) ==
    /\ wire' = (wire \ gone) \cup come
    /\ \A p \in gone \cup come : p.at[1] \notin {"requests", "answers"}
    /\ \A q \in come : Mail(q.at, Received(q.frames))
    /\ UNCHANGED <<asked, pending, answers, requests, jobQueue, wip, nextJobId>>

\* Where requests and answers are is not changed by other messages.
LEMMA UnderWayKept ==
    ASSUME NEW gone, NEW come, wire' = (wire \ gone) \cup come,
           \A p \in gone \cup come : p.at[1] \notin {"requests", "answers"},
           NEW s
    PROVE  UnderWay(s)' = UnderWay(s)
<1> DEFINE Of(p) == \/ p.at = Server("requests") /\ Received(p.frames).address = AddressOf(s)
                    \/ /\ p.at = At("answers", Identity(s.requester))
                       /\ Received(p.frames).address = <<Text(s.id)>>
<1>1. \A p : Of(p) => p.at[1] \in {"requests", "answers"}
  BY DEF Server, At
<1>2. UnderWay(s)' = {p \in wire' : Of(p)} /\ UnderWay(s) = {p \in wire : Of(p)}
  BY DEF UnderWay
<1> HIDE DEF Of
<1> QED
  BY <1>1, <1>2

\* Messages that may be there may still be there.
LEMMA WireKept ==
    ASSUME MailInv, Kept, NEW come, wire' \subseteq wire \cup come,
           \A q \in come :
              Mail(q.at, Received(q.frames)) \/ Mail(q.at, Received(q.frames))'
    PROVE  MailInv'
<1>1. ASSUME NEW p \in wire'
      PROVE  Mail(p.at, Received(p.frames))'
  <2>1. Mail(p.at, Received(p.frames)) \/ Mail(p.at, Received(p.frames))'
    BY DEF MailInv
  <2> DEFINE at == p.at
             m  == Received(p.frames)
  <2> HIDE DEF at, m
  <2> QED
    BY <2>1, MailKept DEF at, m
<1> QED
  BY <1>1 DEF MailInv

\* Such steps leave all but the clients as it is.
LEMMA QuietSteps ==
    ASSUME RoutingInv, NEW gone, NEW come, QuietStep(gone, come)
    PROVE  Kept /\ (ClientsInv' => RoutingInv')
<1>1. /\ wire' = (wire \ gone) \cup come
      /\ \A p \in gone \cup come : p.at[1] \notin {"requests", "answers"}
      /\ \A q \in come : Mail(q.at, Received(q.frames))
  BY DEF QuietStep
<1>2. UNCHANGED <<asked, pending, answers, requests, jobQueue, wip, nextJobId>>
  BY DEF QuietStep
<1>3. asked \in 0..Len(Submissions) /\ Len(Submissions) \in Nat
  BY RoutingAssumption DEF RoutingInv
<1>4. Kept
  BY <1>2, <1>3 DEF Kept, GivenOut
<1>5. MailInv'
  <2>1. wire' \subseteq wire \cup come
    BY <1>1
  <2> QED
    BY <1>1, <1>4, <2>1, WireKept DEF RoutingInv
<1>6. \A s : UnderWay(s)' = UnderWay(s)
  BY <1>1, UnderWayKept
<1>7. OneUnderWay'
  <2>1. OneUnderWay
    BY DEF RoutingInv
  <2> QED
    BY <1>2, <1>6, <2>1 DEF OneUnderWay
<1>8. Unfinished' = Unfinished
  BY <1>2 DEF Unfinished
<1>9. JobsInv'
  BY <1>2, <1>8 DEF JobsInv, RoutingInv
<1>10. RequestsInv'
  <2>1. \A k, s : RequestFits(k, s)' <=> RequestFits(k, s)
    BY <1>2, <1>8 DEF RequestFits, Open
  <2> QED
    BY <1>2, <2>1 DEF RequestsInv, RoutingInv
<1>11. AnswersInv'
  BY <1>2 DEF AnswersInv, RoutingInv
<1> QED
  BY <1>2, <1>3, <1>4, <1>5, <1>7, <1>9, <1>10, <1>11 DEF RoutingInv

\* Messages from and to a client that may be there.
LEMMA ClientMail ==
    ASSUME NEW c \in Client, NEW h, NEW d
    PROVE  /\ Mail(At("fromMinion", c), Message(<<>>, "HELLO", <<h>>))
           /\ Mail(Server("network"), Message(<<Identity(c)>>, "HELLO", <<h>>))
           /\ Mail(Server("heartbeat"), Message(<<Identity(c)>>, "HELLO", <<h>>))
           /\ Mail(Server("fromHeartbeat"), Message(<<Identity(c)>>, "HEARTBEAT", <<>>))
           /\ Mail(At("client", Identity(c)), Message(<<>>, "HEARTBEAT", <<>>))
           /\ \A m : m.data = d /\ JobMail(m) =>
                 /\ Mail(At("client", Identity(c)), Message(<<>>, "JOB", d))
                 /\ Mail(At("minion", c), Message(<<>>, "JOB", d))
           /\ \A m : m.data = d /\ ResultMail(m) =>
                 /\ Mail(At("fromMinion", c), Message(<<>>, "RESULT", d))
                 /\ Mail(Server("network"), Message(<<Identity(c)>>, "RESULT", d))
<1>1. \A a, s, e : /\ Message(a, s, e).address = a /\ Message(a, s, e).subject = s
                   /\ Message(a, s, e).data = e
  BY DEF Message
<1>2. Server("network") # At("fromMinion", c) /\ Server("heartbeat") # At("fromMinion", c)
  BY DEF Server, At
<1>3. <<h>>[1] = h
  OBVIOUS
<1>4. ASSUME NEW at \in {At("fromMinion", c), Server("network"), Server("heartbeat")},
             NEW a, a = IF at = At("fromMinion", c) THEN <<>> ELSE <<Identity(c)>>
      PROVE  Mail(at, Message(a, "HELLO", <<h>>))
  <2> DEFINE m == Message(a, "HELLO", <<h>>)
  <2>1. m.subject = "HELLO" /\ m.data = <<m.data[1]>> /\ m.data = <<h>>
    BY <1>1, <1>3
  <2>2. m = Message(IF at = At("fromMinion", c) THEN <<>> ELSE <<Identity(c)>>, m.subject, m.data)
    BY <1>4, <2>1
  <2> HIDE DEF m
  <2>3. FromClientMail(at, m)
    BY <2>1, <2>2 DEF FromClientMail
  <2> QED
    BY <2>3 DEF Mail, m
<1>5. /\ Mail(Server("fromHeartbeat"), Message(<<Identity(c)>>, "HEARTBEAT", <<>>))
      /\ Mail(At("client", Identity(c)), Message(<<>>, "HEARTBEAT", <<>>))
  BY DEF Mail, ToClientMail
<1>6. ASSUME NEW m, m.data = d, JobMail(m)
      PROVE  /\ Mail(At("client", Identity(c)), Message(<<>>, "JOB", d))
             /\ Mail(At("minion", c), Message(<<>>, "JOB", d))
  <2> DEFINE j == Message(<<>>, "JOB", d)
  <2>1. j.data = d
    BY <1>1
  <2>2. j = Message(<<>>, "JOB", j.data)
    BY <2>1
  <2> HIDE DEF j
  <2>3. JobMail(j)
    BY <1>6, <2>1 DEF JobMail
  <2>4. ToClientMail(At("client", Identity(c)), j) /\ ToClientMail(At("minion", c), j)
    BY <2>2, <2>3 DEF ToClientMail
  <2> QED
    BY <2>4 DEF Mail, j
<1>7. ASSUME NEW m, m.data = d, ResultMail(m)
      PROVE  /\ Mail(At("fromMinion", c), Message(<<>>, "RESULT", d))
             /\ Mail(Server("network"), Message(<<Identity(c)>>, "RESULT", d))
  <2>1. ASSUME NEW at \in {At("fromMinion", c), Server("network")},
               NEW a, a = IF at = At("fromMinion", c) THEN <<>> ELSE <<Identity(c)>>
        PROVE  Mail(at, Message(a, "RESULT", d))
    <3> DEFINE r == Message(a, "RESULT", d)
    <3>1. r.subject = "RESULT" /\ r.data = d
      BY <1>1
    <3>2. r = Message(IF at = At("fromMinion", c) THEN <<>> ELSE <<Identity(c)>>, r.subject, r.data)
      BY <2>1, <3>1
    <3> HIDE DEF r
    <3>3. ResultMail(r)
      BY <1>7, <3>1 DEF ResultMail
    <3>4. FromClientMail(at, r)
      BY <3>1, <3>2, <3>3 DEF FromClientMail
    <3> QED
      BY <3>4 DEF Mail, r
  <2> QED
    BY <1>2, <2>1
<1>8. /\ Mail(At("fromMinion", c), Message(<<>>, "HELLO", <<h>>))
      /\ Mail(Server("network"), Message(<<Identity(c)>>, "HELLO", <<h>>))
      /\ Mail(Server("heartbeat"), Message(<<Identity(c)>>, "HELLO", <<h>>))
  BY <1>2, <1>4
<1> QED
  BY <1>5, <1>6, <1>7, <1>8

\* What clients are known as and compute is not changed by steps that are not theirs.
LEMMA ClientsKept ==
    ASSUME ClientsInv, Kept, UNCHANGED <<workers, currentJob>>
    PROVE  ClientsInv'
<1>1. \A c \in Client : currentJob'[c] = NoJob \/ Computes(c)'
  <2> SUFFICES ASSUME NEW c \in Client, currentJob'[c] # NoJob
               PROVE  Computes(c)'
    OBVIOUS
  <2>1. currentJob'[c] = currentJob[c] /\ Computes(c)
    BY DEF ClientsInv
  <2> QED
    BY <2>1, ComputesKept
<1> QED
  BY <1>1 DEF ClientsInv

\* A message that is passed on, to another socket and with another address.
LEMMA PassedOn ==
    ASSUME RoutingInv, NEW p \in wire, NEW q, wire' = (wire \ {p}) \cup {q},
           p.at[1] \notin {"requests", "answers"}, q.at[1] \notin {"requests", "answers"},
           Mail(q.at, Received(q.frames)),
           UNCHANGED <<asked, pending, answers, requests, jobQueue, wip, nextJobId>>,
           UNCHANGED <<workers, currentJob>>
    PROVE  RoutingInv'
<1> DEFINE gone == {p}
           come == {q}
<1>1. QuietStep(gone, come)
  BY DEF QuietStep
<1> HIDE DEF gone, come
<1>2. Kept /\ (ClientsInv' => RoutingInv')
  BY <1>1, QuietSteps
<1>3. ClientsInv'
  BY <1>2, ClientsKept DEF RoutingInv
<1> QED
  BY <1>2, <1>3

-----------------------------------------------------------------------------
(* Steps of the heartbeat thread, the clients and the minions *)

\* fNewWorker passes a HELLO on to the heartbeat thread; the worker is a client.
LEMMA NewWorkerStep ==
    ASSUME RoutingInv, NEW b \in bind(Server("network"), "HELLO"), fNewWorker(b.m, b.rest)
    PROVE  RoutingInv'
<1> DEFINE m == b.m
           q == Plain(Server("heartbeat"), m)
           w == m.address[1]
<1>1. PICK p \in wire : p.at = Server("network") /\ b.rest = wire \ {p}
  BY Bound DEF RoutingInv
<1>2. m.subject = "HELLO" /\ Mail(Server("network"), m)
  BY Bound DEF RoutingInv
<1>3. PICK c \in Client : m = Message(<<Identity(c)>>, "HELLO", <<m.data[1]>>)
  <2> HIDE DEF m
  <2> QED
    BY <1>2, MailAt
<1>4. q.at = Server("heartbeat") /\ Received(q.frames) = m
  <2> DEFINE d == <<m.data[1]>>
             x == Identity(c)
             at == Server("heartbeat")
  <2>1. IsData(d) /\ x # <<>>
    BY ShortData DEF Identity
  <2>2. m = Message(<<x>>, "HELLO", d) /\ q = Plain(at, m)
    BY <1>3
  <2> HIDE DEF m, d, x, q, at
  <2>3. q.at = at /\ Received(q.frames) = m
    <3>1. Arrives(q, at, m)
      BY <2>1, <2>2, PlainArrives
    <3> QED
      BY <3>1 DEF Arrives
  <2> QED
    BY <2>3 DEF at
<1>5. Mail(q.at, Received(q.frames))
  <2>1. Mail(Server("heartbeat"), Message(<<Identity(c)>>, "HELLO", <<m.data[1]>>))
    BY ClientMail
  <2> HIDE DEF m, q
  <2> QED
    BY <1>3, <1>4, <2>1
<1> DEFINE gone == {p}
           come == {q}
<1>6. QuietStep(gone, come)
  <2>1. wire' = (wire \ gone) \cup come
    BY <1>1 DEF fNewWorker
  <2>2. p.at[1] \notin {"requests", "answers"} /\ q.at[1] \notin {"requests", "answers"}
    BY <1>1, <1>4 DEF Server, At
  <2>3. UNCHANGED <<asked, pending, answers, requests, jobQueue, wip, nextJobId>>
    BY DEF fNewWorker
  <2> HIDE DEF q
  <2> QED
    BY <1>5, <2>1, <2>2, <2>3 DEF QuietStep
<1>7. Kept /\ (ClientsInv' => RoutingInv')
  <2> HIDE DEF gone, come
  <2> QED
    BY <1>6, QuietSteps
<1>8. ClientsInv'
  <2> DEFINE v == [address |-> m.address, lo |-> Number(splitStr(m.data[1])[1]),
                   hi |-> Number(splitStr(m.data[1])[2])]
  <2>1. workers' = inserted(workers, w, v) /\ currentJob' = currentJob
    BY DEF fNewWorker
  <2>2. v.address = <<Identity(c)>>
    BY <1>3 DEF Message
  <2> HIDE DEF v, w
  <2>3. \A x \in DOMAIN workers' : IF x \in DOMAIN workers THEN workers'[x] = workers[x]
                                   ELSE workers'[x] = v
    BY <2>1 DEF inserted
  <2>4. \A x \in DOMAIN workers' : \E e \in Client : workers'[x].address = <<Identity(e)>>
    BY <2>2, <2>3 DEF ClientsInv, RoutingInv
  <2>5. \A e \in Client : currentJob'[e] = NoJob \/ Computes(e)'
    BY <1>7, <2>1, ComputesKept DEF ClientsInv, RoutingInv
  <2> QED
    BY <2>1, <2>4, <2>5 DEF ClientsInv, RoutingInv
<1> QED
  BY <1>7, <1>8

\* fForwardToNetwork passes a heartbeat on to the client it names.
LEMMA ForwardHeartbeatStep ==
    ASSUME RoutingInv, NEW b \in bind(Server("fromHeartbeat"), "HEARTBEAT"),
           fForwardToNetwork(b.m, b.rest)
    PROVE  RoutingInv'
<1> DEFINE m == b.m
           q == Routed("client", m)
<1>1. PICK p \in wire : p.at = Server("fromHeartbeat") /\ b.rest = wire \ {p}
  BY Bound DEF RoutingInv
<1>2. Mail(Server("fromHeartbeat"), m)
  BY Bound DEF RoutingInv
<1>3. PICK c \in Client : m = Message(<<Identity(c)>>, "HEARTBEAT", <<>>)
  <2> HIDE DEF m
  <2> QED
    BY <1>2, MailAt, ZenonT(60)
<1>4. q.at = At("client", Identity(c)) /\ Received(q.frames) = Message(<<>>, "HEARTBEAT", <<>>)
  <2> DEFINE d == <<>>
             x == Identity(c)
  <2>1. IsData(d) /\ x # <<>>
    BY ShortData DEF Identity
  <2> HIDE DEF d, x
  <2>2. Arrives(Routed("client", Message(<<x>>, "HEARTBEAT", d)), At("client", x),
                Message(<<>>, "HEARTBEAT", d))
    BY <2>1, RoutedArrives
  <2> QED
    BY <1>3, <2>2 DEF Arrives, d, x
<1>5. Mail(q.at, Received(q.frames))
  <2>1. Mail(At("client", Identity(c)), Message(<<>>, "HEARTBEAT", <<>>))
    BY ClientMail
  <2> HIDE DEF m, q
  <2> QED
    BY <1>4, <2>1
<1>6. wire' = (wire \ {p}) \cup {q}
  BY <1>1 DEF fForwardToNetwork
<1>7. p.at[1] \notin {"requests", "answers"} /\ q.at[1] \notin {"requests", "answers"}
  BY <1>1, <1>4 DEF Server, At
<1>8. UNCHANGED <<asked, pending, answers, requests, jobQueue, wip, nextJobId, workers, currentJob>>
  BY DEF fForwardToNetwork, delegatorVars
<1> HIDE DEF q
<1> QED
  BY <1>5, <1>6, <1>7, <1>8, PassedOn

\* insertClient answers a HELLO with a heartbeat.
LEMMA InsertClientStep ==
    ASSUME RoutingInv, NEW b \in bind(Server("heartbeat"), "HELLO"), insertClient(b.m, b.rest)
    PROVE  RoutingInv'
<1> DEFINE m == b.m
           q == Plain(Server("fromHeartbeat"), Message(<<Last(m.address)>>, "HEARTBEAT", <<>>))
<1>1. PICK p \in wire : p.at = Server("heartbeat") /\ b.rest = wire \ {p}
  BY Bound DEF RoutingInv
<1>2. Mail(Server("heartbeat"), m)
  BY Bound DEF RoutingInv
<1>3. PICK c \in Client : m = Message(<<Identity(c)>>, "HELLO", <<m.data[1]>>)
  <2> HIDE DEF m
  <2> QED
    BY <1>2, MailAt
<1>4. Last(m.address) = Identity(c)
  BY <1>3 DEF Last, Message
<1> DEFINE a == Message(<<Identity(c)>>, "HEARTBEAT", <<>>)
<1>5. q.at = Server("fromHeartbeat") /\ Received(q.frames) = a
  <2> DEFINE d == <<>>
             x == Identity(c)
             at == Server("fromHeartbeat")
  <2>1. IsData(d) /\ x # <<>>
    BY ShortData DEF Identity
  <2>2. q = Plain(at, Message(<<x>>, "HEARTBEAT", d))
    BY <1>4
  <2>3. a = Message(<<x>>, "HEARTBEAT", d)
    OBVIOUS
  <2> HIDE DEF d, x, q, at, a
  <2>4. q.at = at /\ Received(q.frames) = a
    <3>1. Arrives(q, at, a)
      BY <2>1, <2>2, <2>3, PlainArrives
    <3> QED
      BY <3>1 DEF Arrives
  <2> QED
    BY <2>4 DEF at
<1>6. Mail(q.at, Received(q.frames))
  <2>1. Mail(Server("fromHeartbeat"), a)
    BY ClientMail
  <2> HIDE DEF a, q
  <2> QED
    BY <1>5, <2>1
<1>7. wire' = (wire \ {p}) \cup {q}
  BY <1>1 DEF insertClient
<1>8. p.at[1] \notin {"requests", "answers"} /\ q.at[1] \notin {"requests", "answers"}
  BY <1>1, <1>5 DEF Server, At
<1>9. UNCHANGED <<asked, pending, answers, requests, jobQueue, wip, nextJobId, workers, currentJob>>
  BY DEF insertClient, delegatorVars
<1> HIDE DEF q
<1> QED
  BY <1>6, <1>7, <1>8, <1>9, PassedOn

\* A minion says HELLO.
LEMMA HelloStep ==
    ASSUME RoutingInv, NEW c \in Client, SayHello(c)
    PROVE  RoutingInv'
<1> DEFINE h  == joinStr([i \in 1..2 |-> Text(JobTypeRange[c][i])])
           m  == Message(<<>>, "HELLO", <<h>>)
           q  == Plain(At("fromMinion", c), m)
           gone == {}
           come == {q}
<1>1. q.at = At("fromMinion", c) /\ Received(q.frames) = m
  <2> DEFINE d == <<h>>
             at == At("fromMinion", c)
  <2>1. IsData(d)
    BY ShortData
  <2>2. q = Plain(at, Message(<<>>, "HELLO", d)) /\ m = Message(<<>>, "HELLO", d)
    OBVIOUS
  <2> HIDE DEF d, q, m, at
  <2>3. Arrives(q, at, m)
    BY <2>1, <2>2, PlainArrives
  <2> QED
    BY <2>3 DEF Arrives, at
<1>2. Mail(q.at, Received(q.frames))
  <2>1. Mail(At("fromMinion", c), m)
    <3> HIDE DEF h
    <3> QED
      BY ClientMail
  <2> HIDE DEF m, q
  <2> QED
    BY <1>1, <2>1
<1>3. wire' = wire \cup {q}
  BY DEF SayHello
<1>4. UNCHANGED <<asked, pending, answers, requests, jobQueue, wip, nextJobId, workers, currentJob>>
  BY DEF SayHello, delegatorVars
<1>5. q.at[1] \notin {"requests", "answers"}
  <2> HIDE DEF q
  <2> QED
    BY <1>1 DEF At
<1>6. QuietStep(gone, come)
  <2> HIDE DEF q
  <2> QED
    BY <1>2, <1>3, <1>4, <1>5 DEF QuietStep
<1> HIDE DEF gone, come
<1>7. Kept /\ (ClientsInv' => RoutingInv')
  BY <1>6, QuietSteps
<1>8. ClientsInv'
  BY <1>4, <1>7, ClientsKept DEF RoutingInv
<1> QED
  BY <1>7, <1>8

\* A client passes on jobs to its minion, ...
LEMMA JobPassedOn ==
    ASSUME RoutingInv, NEW c \in Client, NEW b \in bind(At("client", Identity(c)), "JOB"),
           wire' = b.rest \cup {Plain(At("minion", c), b.m)},
           UNCHANGED <<asked, pending, answers, requests, jobQueue, wip, nextJobId>>,
           UNCHANGED <<workers, currentJob>>
    PROVE  RoutingInv'
<1> DEFINE m == b.m
           q == Plain(At("minion", c), m)
           x == Identity(c)
<1>1. PICK p \in wire : p.at = At("client", x) /\ b.rest = wire \ {p}
  BY Bound DEF RoutingInv
<1>2. m.subject = "JOB" /\ Mail(At("client", x), m)
  BY Bound DEF RoutingInv
<1>3. m = Message(<<>>, "JOB", m.data) /\ JobMail(m)
  <2> HIDE DEF m, x
  <2> QED
    BY <1>2, MailAt
<1>4. IsData(m.data)
  <2>1. PICK n \in Nat : m.data = <<m.data[1], Text(n), m.data[3]>>
    BY <1>3 DEF JobMail
  <2> HIDE DEF m
  <2>2. IsData(<<m.data[1], Text(n), m.data[3]>>)
    BY ShortData
  <2> QED
    BY <2>1, <2>2
<1>5. q.at = At("minion", c) /\ Received(q.frames) = m
  <2> DEFINE d == m.data
             at == At("minion", c)
  <2>1. q = Plain(at, Message(<<>>, "JOB", d)) /\ m = Message(<<>>, "JOB", d) /\ IsData(d)
    BY <1>3, <1>4
  <2> HIDE DEF d, q, m, at
  <2>2. Arrives(q, at, m)
    BY <2>1, PlainArrives
  <2> QED
    BY <2>2 DEF Arrives, at
<1>6. Mail(q.at, Received(q.frames))
  <2> DEFINE d == m.data
  <2> HIDE DEF m, q, d
  <2>1. m.data = d
    BY DEF d
  <2>2. Mail(At("minion", c), Message(<<>>, "JOB", d))
    BY <1>3, <2>1, ClientMail
  <2> QED
    BY <1>3, <1>5, <2>1, <2>2
<1>7. p.at[1] \notin {"requests", "answers"} /\ q.at[1] \notin {"requests", "answers"}
  BY <1>1, <1>5 DEF At
<1>8. wire' = (wire \ {p}) \cup {q}
  BY <1>1
<1> HIDE DEF q
<1> QED
  BY <1>6, <1>7, <1>8, PassedOn

\* ... results to the server, ...
LEMMA ResultPassedOn ==
    ASSUME RoutingInv, NEW c \in Client, NEW b \in bind(At("fromMinion", c), "RESULT"),
           wire' = b.rest \cup {Dealt("network", c, b.m)},
           UNCHANGED <<asked, pending, answers, requests, jobQueue, wip, nextJobId>>,
           UNCHANGED <<workers, currentJob>>
    PROVE  RoutingInv'
<1> DEFINE m == b.m
           q == Dealt("network", c, m)
           a == Message(<<Identity(c)>>, "RESULT", m.data)
<1>1. PICK p \in wire : p.at = At("fromMinion", c) /\ b.rest = wire \ {p}
  BY Bound DEF RoutingInv
<1>2. m.subject = "RESULT" /\ Mail(At("fromMinion", c), m)
  BY Bound DEF RoutingInv
<1>3. m = Message(<<>>, "RESULT", m.data) /\ ResultMail(m)
  <2> HIDE DEF m
  <2> QED
    BY <1>2, MailAt
<1>4. IsData(m.data)
  <2>1. PICK n \in Nat : m.data = <<Text(n), m.data[2]>>
    BY <1>3 DEF ResultMail
  <2> HIDE DEF m
  <2>2. IsData(<<Text(n), m.data[2]>>)
    BY ShortData
  <2> QED
    BY <2>1, <2>2
<1>5. q.at = Server("network") /\ Received(q.frames) = a
  <2> DEFINE d == m.data
             at == Server("network")
  <2>1. /\ q = Dealt("network", c, Message(<<>>, "RESULT", d))
        /\ a = Message(<<Identity(c)>>, "RESULT", d) /\ IsData(d)
    BY <1>3, <1>4
  <2> HIDE DEF d, q, m, a
  <2>2. Arrives(q, at, a)
    BY <2>1, DealtArrives
  <2> QED
    BY <2>2 DEF Arrives, at
<1>6. Mail(q.at, Received(q.frames))
  <2> DEFINE d == m.data
  <2>1. a = Message(<<Identity(c)>>, "RESULT", d) /\ m.data = d
    OBVIOUS
  <2> HIDE DEF m, q, d, a
  <2>2. Mail(Server("network"), Message(<<Identity(c)>>, "RESULT", d))
    BY <1>3, <2>1, ClientMail
  <2> QED
    BY <1>5, <2>1, <2>2
<1>7. p.at[1] \notin {"requests", "answers"} /\ q.at[1] \notin {"requests", "answers"}
  BY <1>1, <1>5 DEF At, Server
<1>8. wire' = (wire \ {p}) \cup {q}
  BY <1>1
<1> HIDE DEF q
<1> QED
  BY <1>6, <1>7, <1>8, PassedOn

\* ... and a HELLO.
LEMMA HelloPassedOn ==
    ASSUME RoutingInv, NEW c \in Client, NEW b \in bind(At("fromMinion", c), "HELLO"),
           wire' = b.rest \cup {Dealt("network", c, Message(<<>>, b.m.subject, b.m.data))},
           UNCHANGED <<asked, pending, answers, requests, jobQueue, wip, nextJobId>>,
           UNCHANGED <<workers, currentJob>>
    PROVE  RoutingInv'
<1> DEFINE m == b.m
           h == m.data[1]
           q == Dealt("network", c, Message(<<>>, m.subject, m.data))
           a == Message(<<Identity(c)>>, "HELLO", <<h>>)
<1>1. PICK p \in wire : p.at = At("fromMinion", c) /\ b.rest = wire \ {p}
  BY Bound DEF RoutingInv
<1>2. m.subject = "HELLO" /\ Mail(At("fromMinion", c), m)
  BY Bound DEF RoutingInv
<1>3. m = Message(<<>>, "HELLO", <<h>>)
  <2> HIDE DEF m
  <2> QED
    BY <1>2, MailAt
<1>4. q.at = Server("network") /\ Received(q.frames) = a
  <2> DEFINE d == <<h>>
             at == Server("network")
  <2>1. m.data = d /\ m.subject = "HELLO"
    <3> HIDE DEF m, h
    <3> QED
      BY <1>2, <1>3 DEF Message
  <2>2. q = Dealt("network", c, Message(<<>>, "HELLO", d))
    <3> HIDE DEF m, d
    <3> QED
      BY <2>1
  <2>3. a = Message(<<Identity(c)>>, "HELLO", d)
    OBVIOUS
  <2>4. IsData(d)
    BY ShortData
  <2> HIDE DEF d, q, m, h, a
  <2>5. Arrives(q, at, a)
    BY <2>2, <2>3, <2>4, DealtArrives
  <2> QED
    BY <2>5 DEF Arrives, at
<1>5. Mail(q.at, Received(q.frames))
  <2> HIDE DEF m, q, h
  <2>1. Mail(Server("network"), a)
    BY ClientMail
  <2> HIDE DEF a
  <2> QED
    BY <1>4, <2>1
<1>6. p.at[1] \notin {"requests", "answers"} /\ q.at[1] \notin {"requests", "answers"}
  BY <1>1, <1>4 DEF At, Server
<1>7. wire' = (wire \ {p}) \cup {q}
  BY <1>1
<1> HIDE DEF q
<1> QED
  BY <1>5, <1>6, <1>7, PassedOn

\* The messages a client passes on, and those it takes.
LEMMA ClientSteps ==
    ASSUME RoutingInv, NEW c \in Client, ClientStep(c)
    PROVE  RoutingInv'
<1>1. CASE \E b \in bind(At("client", Identity(c)), "JOB") :
               /\ wire' = b.rest \cup {Plain(At("minion", c), b.m)}
               /\ UNCHANGED <<asked, pending, answers, delegatorVars, monitored, alive, currentJob>>
  BY <1>1, JobPassedOn DEF delegatorVars
<1>2. CASE \E b \in bind(At("fromMinion", c), "RESULT") :
               /\ wire' = b.rest \cup {Dealt("network", c, b.m)}
               /\ UNCHANGED <<asked, pending, answers, delegatorVars, monitored, alive, currentJob>>
  BY <1>2, ResultPassedOn DEF delegatorVars
<1>3. CASE \E b \in bind(At("fromMinion", c), "HELLO") :
               /\ wire' = b.rest \cup {Dealt("network", c, Message(<<>>, b.m.subject, b.m.data))}
               /\ UNCHANGED <<asked, pending, answers, delegatorVars, monitored, alive, currentJob>>
  BY <1>3, HelloPassedOn DEF delegatorVars
<1>4. CASE \E b \in bind(At("client", Identity(c)), "HEARTBEAT") :
               /\ wire' = b.rest
               /\ UNCHANGED <<asked, pending, answers, delegatorVars, monitored, currentJob>>
  <2>1. PICK b \in bind(At("client", Identity(c)), "HEARTBEAT") :
               /\ wire' = b.rest
               /\ UNCHANGED <<asked, pending, answers, delegatorVars, monitored, currentJob>>
    BY <1>4
  <2>2. PICK p \in wire : p.at = At("client", Identity(c)) /\ b.rest = wire \ {p}
    BY Bound DEF RoutingInv
  <2> DEFINE gone == {p}
             come == {}
  <2>3. /\ UNCHANGED <<asked, pending, answers, requests, jobQueue, wip, nextJobId>>
        /\ UNCHANGED <<workers, currentJob>>
    BY <2>1 DEF delegatorVars
  <2>4. QuietStep(gone, come)
    BY <2>1, <2>2, <2>3 DEF QuietStep, At
  <2> HIDE DEF gone, come
  <2>5. Kept /\ (ClientsInv' => RoutingInv')
    BY <2>4, QuietSteps
  <2>6. ClientsInv'
    BY <2>3, <2>5, ClientsKept DEF RoutingInv
  <2> QED
    BY <2>5, <2>6
<1> QED
  BY <1>1, <1>2, <1>3, <1>4 DEF ClientStep

\* A minion takes a job.
LEMMA NextJobStep ==
    ASSUME RoutingInv, NEW c \in Client, nextJob(c)
    PROVE  RoutingInv'
<1>1. PICK b \in bind(At("minion", c), "JOB") :
          /\ currentJob[c] = NoJob
          /\ currentJob' = [currentJob EXCEPT ![c] =
                [id |-> b.m.data[2], type |-> Number(b.m.data[1]),
                 sample |-> SampleIn(b.m.data[3])]]
          /\ wire' = b.rest
          /\ UNCHANGED <<asked, pending, answers, delegatorVars, monitored, alive>>
  BY DEF nextJob, SampleIn
<1> DEFINE m == b.m
           job == [id |-> m.data[2], type |-> Number(m.data[1]), sample |-> SampleIn(m.data[3])]
<1>2. PICK p \in wire : p.at = At("minion", c) /\ b.rest = wire \ {p}
  BY Bound DEF RoutingInv
<1>3. m = Message(<<>>, "JOB", m.data) /\ JobMail(m)
  <2>1. m.subject = "JOB" /\ Mail(At("minion", c), m)
    BY Bound DEF RoutingInv
  <2> HIDE DEF m
  <2> QED
    BY <2>1, MailAt
<1> DEFINE gone == {p}
           come == {}
<1>4. QuietStep(gone, come)
  BY <1>1, <1>2 DEF QuietStep, At, delegatorVars
<1>5. Kept /\ (ClientsInv' => RoutingInv')
  <2> HIDE DEF gone, come
  <2> QED
    BY <1>4, QuietSteps
<1>6. currentJob = [e \in Client |-> currentJob[e]]
  BY DEF RoutingInv, ClientsInv
<1>7. currentJob' = [e \in Client |-> IF e = c THEN job ELSE currentJob[e]]
  <2>1. currentJob' = [currentJob EXCEPT ![c] = job]
    BY <1>1
  <2> HIDE DEF job
  <2> QED
    BY <1>6, <2>1
<1>8. Computes(c)'
  <2>1. PICK n \in Nat :
            /\ GivenOut(n) /\ m.data = <<m.data[1], Text(n), m.data[3]>>
            /\ \A e \in wip : e.job.id = n =>
                  m.data[1] = Text(e.job.type) /\ m.data[3] = requests[e.job.key].data
    BY <1>3 DEF JobMail
  <2>2. job.id = Text(n)
    BY <2>1
  <2>3. ASSUME NEW e \in wip, e.job.id = n
        PROVE  job.type = e.job.type /\ job.sample = SampleIn(requests[e.job.key].data)
    <3>1. e.job.type \in Numbers
      <4>1. e.job \in Unfinished
        BY DEF Unfinished
      <4>2. e.job.key \in DOMAIN requests
        BY <4>1 DEF RoutingInv, JobsInv
      <4>3. PICK i \in 1..asked : RequestFits(e.job.key, Submissions[i])
        BY <4>2 DEF RoutingInv, RequestsInv
      <4>4. i \in DOMAIN Submissions
        BY RoutingAssumption DEF RoutingInv
      <4> DEFINE s == Submissions[i]
      <4>5. e.job.index \in DOMAIN TypesAsked(s) /\ e.job.type = TypesAsked(s)[e.job.index]
        BY <4>1, <4>3 DEF RequestFits
      <4> HIDE DEF s
      <4>6. TypesAsked(s) \in Seq(Nat \cap Numbers)
        BY <4>4, RequestParts DEF s
      <4> QED
        BY <4>5, <4>6
    <3>2. Number(Text(e.job.type)) = e.job.type
      BY <3>1, NumberPrinted
    <3>3. m.data[1] = Text(e.job.type) /\ m.data[3] = requests[e.job.key].data
      BY <2>1, <2>3
    <3>4. job.type = Number(m.data[1]) /\ job.sample = SampleIn(m.data[3])
      OBVIOUS
    <3> HIDE DEF job, m
    <3> QED
      BY <3>2, <3>3, <3>4
  <2>4. currentJob'[c] = job
    <3> HIDE DEF job
    <3> QED
      BY <1>7
  <2>5. UNCHANGED <<jobQueue, wip, nextJobId, requests>>
    BY <1>1 DEF delegatorVars
  <2>6. GivenOut(n)'
    BY <2>1, <2>5 DEF GivenOut
  <2> HIDE DEF job
  <2> QED
    BY <2>2, <2>3, <2>4, <2>5, <2>6 DEF Computes
<1>9. ClientsInv'
  <2>1. workers' = workers
    BY <1>1 DEF delegatorVars
  <2>2. \A w \in DOMAIN workers' : \E e \in Client : workers'[w].address = <<Identity(e)>>
    BY <2>1 DEF RoutingInv, ClientsInv
  <2> HIDE DEF job
  <2>3. currentJob' = [e \in Client |-> currentJob'[e]]
    BY <1>7
  <2>4. ASSUME NEW e \in Client
        PROVE  currentJob'[e] = NoJob \/ Computes(e)'
    <3>1. CASE e = c
      BY <1>8, <3>1
    <3>2. CASE e # c
      <4>1. currentJob'[e] = currentJob[e]
        BY <1>7, <3>2
      <4>2. currentJob[e] = NoJob \/ Computes(e)
        BY DEF RoutingInv, ClientsInv
      <4> QED
        BY <1>5, <4>1, <4>2, ComputesKept
    <3> QED
      BY <3>1, <3>2
  <2> QED
    BY <2>2, <2>3, <2>4 DEF ClientsInv
<1> QED
  BY <1>5, <1>9

\* A minion sends the result of its job.
LEMMA SubmitResultStep ==
    ASSUME RoutingInv, NEW c \in Client, submitResult(c)
    PROVE  RoutingInv'
<1> DEFINE r == PrintedDouble(Likelihood(currentJob[c].type, currentJob[c].sample))
           d == <<currentJob[c].id, r>>
           m == Message(<<>>, "RESULT", d)
           q == Plain(At("fromMinion", c), m)
           gone == {}
           come == {q}
<1>1. /\ currentJob[c] # NoJob /\ currentJob' = [currentJob EXCEPT ![c] = NoJob]
      /\ wire' = wire \cup {q}
      /\ UNCHANGED <<asked, pending, answers, requests, jobQueue, wip, nextJobId, workers>>
  BY DEF submitResult, delegatorVars
<1>2. q.at = At("fromMinion", c) /\ Received(q.frames) = m
  <2> DEFINE at == At("fromMinion", c)
  <2>1. q = Plain(at, Message(<<>>, "RESULT", d)) /\ m = Message(<<>>, "RESULT", d)
    OBVIOUS
  <2>2. IsData(d)
    BY ShortData
  <2> HIDE DEF d, q, m, at
  <2>3. Arrives(q, at, m)
    BY <2>1, <2>2, PlainArrives
  <2> QED
    BY <2>3 DEF Arrives, at
<1>3. ResultMail(m)
  <2>1. PICK n \in Nat :
            /\ GivenOut(n) /\ currentJob[c].id = Text(n)
            /\ \A e \in wip : e.job.id = n =>
                  /\ currentJob[c].type = e.job.type
                  /\ currentJob[c].sample = SampleIn(requests[e.job.key].data)
    BY <1>1 DEF RoutingInv, ClientsInv, Computes
  <2>2. \A e \in wip : e.job.id = n => r = ResultOf(e.job.type, requests[e.job.key].data)
    BY <2>1 DEF ResultOf
  <2>3. m.data = <<Text(n), m.data[2]>> /\ m.data[2] = r
    <3>1. m.data = d
      BY DEF Message
    <3> HIDE DEF r, m
    <3> QED
      BY <2>1, <3>1
  <2> HIDE DEF r, m
  <2> QED
    BY <2>1, <2>2, <2>3 DEF ResultMail
<1>4. Mail(q.at, Received(q.frames))
  <2>1. m.data = d /\ m = Message(<<>>, "RESULT", d)
    BY DEF Message
  <2> HIDE DEF m, d, q
  <2>2. Mail(At("fromMinion", c), Message(<<>>, "RESULT", d))
    BY <1>3, <2>1, ClientMail
  <2> QED
    BY <1>2, <2>1, <2>2
<1>5. QuietStep(gone, come)
  <2> HIDE DEF q
  <2>1. q.at[1] \notin {"requests", "answers"}
    BY <1>2 DEF At
  <2> QED
    BY <1>1, <1>4, <2>1 DEF QuietStep
<1>6. Kept /\ (ClientsInv' => RoutingInv')
  <2> HIDE DEF gone, come
  <2> QED
    BY <1>5, QuietSteps
<1>7. ClientsInv'
  <2>1. currentJob = [e \in Client |-> currentJob[e]]
    BY DEF RoutingInv, ClientsInv
  <2>2. currentJob' = [e \in Client |-> IF e = c THEN NoJob ELSE currentJob[e]]
    BY <1>1, <2>1
  <2>3. ASSUME NEW e \in Client
        PROVE  currentJob'[e] = NoJob \/ Computes(e)'
    <3>1. CASE e = c
      BY <2>2, <3>1
    <3>2. CASE e # c
      <4>1. currentJob'[e] = currentJob[e]
        BY <2>2, <3>2
      <4>2. currentJob[e] = NoJob \/ Computes(e)
        BY DEF RoutingInv, ClientsInv
      <4> QED
        BY <1>6, <4>1, <4>2, ComputesKept
    <3> QED
      BY <3>1, <3>2
  <2>4. \A w \in DOMAIN workers' : \E e \in Client : workers'[w].address = <<Identity(e)>>
    BY <1>1 DEF RoutingInv, ClientsInv
  <2>5. currentJob' = [e \in Client |-> currentJob'[e]]
    BY <2>2
  <2> QED
    BY <2>3, <2>4, <2>5 DEF ClientsInv
<1> QED
  BY <1>6, <1>7

-----------------------------------------------------------------------------
(* Steps of the requesters *)

\* A requester submits a request.
LEMMA SubmitStep ==
    ASSUME RoutingInv, asked < Len(Submissions), submit(Submissions[asked + 1])
    PROVE  RoutingInv'
<1>0. PICK k \in Int : k = asked + 1
  BY RoutingAssumption DEF RoutingInv
<1> DEFINE s == Submissions[k]
           d == <<TypeText(s), DataText(s)>>
           m == Message(AddressOf(s), "REQUEST", d)
           q == Dealt("requests", s.requester, Message(<<Text(s.id)>>, "REQUEST", d))
           come == {q}
<1>1. /\ <<s.requester, s.id>> \notin pending
      /\ pending' = pending \cup {<<s.requester, s.id>>}
      /\ asked' = k /\ wire' = wire \cup {q}
      /\ UNCHANGED <<answers, workers, requests, jobQueue, wip, nextJobId, currentJob>>
  BY <1>0 DEF submit, delegatorVars, TypeText, DataText
<1>2. /\ asked \in Nat /\ asked < k /\ k \in DOMAIN Submissions /\ k \in Nat
      /\ k \in 0..Len(Submissions)
  BY <1>0, RoutingAssumption DEF RoutingInv
<1>3. s.id \in Numbers
  BY <1>2, RequestParts
<1>4. q.at = Server("requests") /\ Received(q.frames) = m
  <2> DEFINE t == Text(s.id)
             at == Server("requests")
             r == s.requester
  <2>1. t # <<>> /\ IsData(d)
    BY <1>3, NumberPrinted, ShortData
  <2>2. m = Message(<<t, Identity(r)>>, "REQUEST", d)
    BY DEF AddressOf
  <2>3. q = Dealt("requests", r, Message(<<t>>, "REQUEST", d))
    OBVIOUS
  <2> HIDE DEF t, d, m, q, r
  <2>4. Arrives(q, at, m)
    BY <2>1, <2>2, <2>3, DealtArrives
  <2> QED
    BY <2>4 DEF Arrives
<1>5. Mail(q.at, Received(q.frames))'
  <2>1. k \in 1..asked'
    BY <1>1, <1>2
  <2> HIDE DEF q
  <2>2. RequestMail(Server("requests"), m)'
    BY <2>1 DEF RequestMail
  <2> HIDE DEF m
  <2> QED
    BY <1>4, <2>2 DEF Mail
<1>6. Kept
  BY <1>1, <1>2 DEF Kept, GivenOut
<1>7. MailInv'
  <2>1. /\ wire' \subseteq wire \cup come
        /\ \A p \in come : Mail(p.at, Received(p.frames)) \/ Mail(p.at, Received(p.frames))'
    BY <1>1, <1>5
  <2> HIDE DEF come
  <2> QED
    BY <1>6, <2>1, WireKept DEF RoutingInv
<1>8. OneUnderWay'
  <2> SUFFICES ASSUME NEW i \in DOMAIN Submissions, NEW t, t = Submissions[i]
               PROVE  /\ \A p, u \in UnderWay(t)' : p = u
                      /\ KeyOf(t) \in DOMAIN requests' => UnderWay(t)' = {}
                      /\ UnderWay(t)' # {} \/ KeyOf(t) \in DOMAIN requests' =>
                            <<t.requester, t.id>> \in pending'
    BY DEF OneUnderWay
  <2>1. /\ \A p, u \in UnderWay(t) : p = u
        /\ KeyOf(t) \in DOMAIN requests => UnderWay(t) = {}
        /\ UnderWay(t) # {} \/ KeyOf(t) \in DOMAIN requests => <<t.requester, t.id>> \in pending
    BY DEF RoutingInv, OneUnderWay
  <2>2. CASE AddressOf(t) = AddressOf(s)
    <3>1. t.requester = s.requester /\ t.id = s.id
      BY <1>2, <2>2, KeysDiffer
    <3>2. UnderWay(t) = {} /\ KeyOf(t) \notin DOMAIN requests
      BY <1>1, <2>1, <3>1
    <3>3. UnderWay(t)' \subseteq {q}
      BY <1>1, <3>2 DEF UnderWay
    <3> QED
      BY <1>1, <3>1, <3>2, <3>3
  <2>3. CASE AddressOf(t) # AddressOf(s)
    <3>1. m.address = AddressOf(s)
      BY DEF Message
    <3>2. UnderWay(t)' = UnderWay(t)
      <4> HIDE DEF q, m
      <4>1. Server("requests") # At("answers", Identity(t.requester))
        BY DEF Server, At
      <4> QED
        BY <1>1, <1>4, <2>3, <3>1, <4>1 DEF UnderWay
    <3> QED
      BY <1>1, <2>1, <3>2
  <2> QED
    BY <2>2, <2>3
<1>9. Unfinished' = Unfinished
  BY <1>1 DEF Unfinished
<1>10. RequestsInv'
  <2>1. \A key, t : RequestFits(key, t)' <=> RequestFits(key, t)
    BY <1>1, <1>9 DEF RequestFits, Open
  <2>2. \A i \in 1..asked : i \in 1..asked'
    BY <1>1, <1>2
  <2> QED
    BY <1>1, <2>1, <2>2 DEF RequestsInv, RoutingInv
<1>11. JobsInv'
  BY <1>1, <1>9 DEF JobsInv, RoutingInv
<1>12. ClientsInv'
  BY <1>1, <1>6, ClientsKept DEF RoutingInv
<1>13. AnswersInv'
  <2>1. \A i \in 1..asked : i \in 1..asked'
    BY <1>1, <1>2
  <2> QED
    BY <1>1, <2>1 DEF AnswersInv, RoutingInv
<1> QED
  BY <1>1, <1>2, <1>7, <1>8, <1>10, <1>11, <1>12, <1>13 DEF RoutingInv

\* A requester retrieves an answer.
LEMMA RetrieveStep ==
    ASSUME RoutingInv, NEW r \in Requester, retrieve(r)
    PROVE  RoutingInv'
<1>1. PICK b \in bind(At("answers", Identity(r)), "RESULT") :
          /\ wire' = b.rest
          /\ pending' = pending \ {<<r, Number(b.m.address[1])>>}
          /\ answers' = answers \cup
                {[requester |-> r, id |-> Number(b.m.address[1]),
                  results |-> [i \in DOMAIN b.m.data |-> ParsedDouble(b.m.data[i])]]}
          /\ UNCHANGED <<asked, delegatorVars, monitored, alive, currentJob>>
  BY DEF retrieve
<1> DEFINE m == b.m
           at == At("answers", Identity(r))
<1>2. PICK p \in wire : p.at = at /\ m = Received(p.frames) /\ b.rest = wire \ {p}
  BY Bound DEF RoutingInv
<1>3. PICK i \in 1..asked :
          /\ at = At("answers", Identity(Submissions[i].requester))
          /\ m = Message(<<Text(Submissions[i].id)>>, "RESULT", ResultsOf(Submissions[i]))
  <2>1. Mail(at, m)
    BY Bound DEF RoutingInv
  <2>2. at = At("answers", Identity(r))
    OBVIOUS
  <2> HIDE DEF m, at
  <2>3. AnswerMail(at, m)
    BY <2>1, <2>2, MailAt
  <2> QED
    BY <2>3 DEF AnswerMail
<1> DEFINE s == Submissions[i]
<1>4. i \in DOMAIN Submissions /\ asked \in 0..Len(Submissions) /\ Len(Submissions) \in Nat
  BY RoutingAssumption DEF RoutingInv
<1>5. s.requester = r
  BY <1>3 DEF At, Identity
<1>6. m.address = <<Text(s.id)>> /\ m.data = ResultsOf(s)
  <2> HIDE DEF m, s
  <2> QED
    BY <1>3 DEF Message, s
<1>7. Number(m.address[1]) = s.id
  <2>1. s.id \in Numbers
    BY <1>4, RequestParts
  <2>2. Number(Text(s.id)) = s.id
    BY <2>1, NumberPrinted
  <2>3. m.address[1] = Text(s.id)
    BY <1>6
  <2> QED
    BY <2>2, <2>3
<1>8. [x \in DOMAIN m.data |-> ParsedDouble(m.data[x])] = Expected(s)
  <2>1. DOMAIN ResultsOf(s) = DOMAIN TypesAsked(s)
    BY DEF ResultsOf
  <2>2. Expected(s) = [x \in DOMAIN TypesAsked(s) |-> ParsedDouble(ResultsOf(s)[x])]
    BY <1>4, RequestParts
  <2> HIDE DEF m, s
  <2> QED
    BY <1>6, <2>1, <2>2
<1>9. UNCHANGED <<asked, workers, requests, jobQueue, wip, nextJobId, currentJob>>
  BY <1>1 DEF delegatorVars
<1>10. wire' = wire \ {p} /\ pending' = pending \ {<<s.requester, s.id>>}
  <2> HIDE DEF s
  <2> QED
    BY <1>1, <1>2, <1>5, <1>7
<1>11. Kept
  BY <1>4, <1>9 DEF Kept, GivenOut
<1>12. MailInv'
  <2> DEFINE come == {}
  <2>1. /\ wire' \subseteq wire \cup come
        /\ \A q \in come : Mail(q.at, Received(q.frames)) \/ Mail(q.at, Received(q.frames))'
    BY <1>10
  <2> HIDE DEF come
  <2> QED
    BY <1>11, <2>1, WireKept DEF RoutingInv
<1>13. OneUnderWay'
  <2> SUFFICES ASSUME NEW j \in DOMAIN Submissions, NEW t, t = Submissions[j]
               PROVE  /\ \A o, u \in UnderWay(t)' : o = u
                      /\ KeyOf(t) \in DOMAIN requests' => UnderWay(t)' = {}
                      /\ UnderWay(t)' # {} \/ KeyOf(t) \in DOMAIN requests' =>
                            <<t.requester, t.id>> \in pending'
    BY DEF OneUnderWay
  <2>1. /\ \A o, u \in UnderWay(t) : o = u
        /\ KeyOf(t) \in DOMAIN requests => UnderWay(t) = {}
        /\ UnderWay(t) # {} \/ KeyOf(t) \in DOMAIN requests => <<t.requester, t.id>> \in pending
    BY DEF RoutingInv, OneUnderWay
  <2>2. UnderWay(t)' = UnderWay(t) \ {p}
    BY <1>10 DEF UnderWay
  <2>3. CASE t.requester = s.requester /\ t.id = s.id
    <3>1. p \in UnderWay(t)
      <4> HIDE DEF m, s
      <4> QED
        BY <1>2, <1>5, <1>6, <2>3 DEF UnderWay
    <3>2. UnderWay(t)' = {} /\ KeyOf(t) \notin DOMAIN requests
      BY <2>1, <2>2, <3>1
    <3> QED
      BY <1>9, <3>2
  <2>4. CASE t.requester # s.requester \/ t.id # s.id
    <3>1. <<t.requester, t.id>> # <<s.requester, s.id>>
      BY <2>4
    <3> HIDE DEF s
    <3> QED
      BY <1>9, <1>10, <2>1, <2>2, <3>1
  <2> QED
    BY <2>3, <2>4
<1>14. Unfinished' = Unfinished
  BY <1>9 DEF Unfinished
<1>15. RequestsInv'
  <2>1. \A k, t : RequestFits(k, t)' <=> RequestFits(k, t)
    BY <1>9, <1>14 DEF RequestFits, Open
  <2> QED
    BY <1>9, <2>1 DEF RequestsInv, RoutingInv
<1>16. JobsInv'
  BY <1>9, <1>14 DEF JobsInv, RoutingInv
<1>17. ClientsInv'
  BY <1>9, <1>11, ClientsKept DEF RoutingInv
<1>18. AnswersInv'
  <2> DEFINE a == [requester |-> r, id |-> s.id, results |-> Expected(s)]
  <2>1. answers' = answers \cup {a}
    <3> HIDE DEF s
    <3> QED
      BY <1>1, <1>7, <1>8
  <2>2. a.requester = s.requester /\ a.id = s.id /\ a.results = Expected(s)
    BY <1>5
  <2> HIDE DEF a
  <2> QED
    BY <1>9, <2>1, <2>2 DEF AnswersInv, RoutingInv
<1> QED
  BY <1>9, <1>12, <1>13, <1>15, <1>16, <1>17, <1>18 DEF RoutingInv

-----------------------------------------------------------------------------
(* Steps of the Delegator *)

\* The Delegator takes a request apart into jobs.
LEMMA ReceiveRequestStep ==
    ASSUME RoutingInv, NEW b \in bind(Server("requests"), "REQUEST"), receiveRequest(b.m, b.rest)
    PROVE  RoutingInv'
<1> DEFINE m  == b.m
           at == Server("requests")
<1>1. PICK p \in wire : p.at = at /\ m = Received(p.frames) /\ b.rest = wire \ {p}
  BY Bound DEF RoutingInv
<1>2. PICK i \in 1..asked :
          m = Message(AddressOf(Submissions[i]), "REQUEST",
                      <<TypeText(Submissions[i]), DataText(Submissions[i])>>)
  <2>1. Mail(at, m)
    BY Bound DEF RoutingInv
  <2> HIDE DEF m
  <2>2. RequestMail(at, m)
    BY <2>1, MailAt
  <2> QED
    BY <2>2 DEF RequestMail
<1> DEFINE s     == Submissions[i]
           types == TypesAsked(s)
           D     == DOMAIN types
           key   == KeyOf(s)
           r     == [address |-> AddressOf(s), data |-> DataText(s), nDone |-> 0,
                     results |-> [x \in D |-> Empty]]
<1>3. i \in DOMAIN Submissions /\ asked \in 0..Len(Submissions) /\ Len(Submissions) \in Nat
  BY RoutingAssumption DEF RoutingInv
<1>4. PICK n \in Nat : n = nextJobId
  BY DEF RoutingInv, JobsInv
<1> DEFINE New == {[type |-> types[x], id |-> n + x - 1, key |-> key, index |-> x] : x \in D}
<1>5. Len(types) \in Nat /\ D = 1..Len(types)
  <2> HIDE DEF s
  <2> QED
    BY <1>3, RequestParts DEF s
<1>6. /\ \A x \in D : n + x - 1 \in Numbers
      /\ requests' = inserted(requests, key, r) /\ jobQueue' = jobQueue \cup New
      /\ nextJobId' = n + Len(types) /\ wire' = wire \ {p}
      /\ UNCHANGED <<asked, pending, answers, workers, wip, currentJob>>
  <2>1. m.address = AddressOf(s) /\ m.data[1] = TypeText(s) /\ m.data[2] = DataText(s)
    <3> HIDE DEF m, s
    <3> QED
      BY <1>2 DEF Message, s
  <2>2. {Number(t) : t \in ToSet(splitStr(TypeText(s)))} = ToSet(s.jobTypes)
    <3> HIDE DEF s
    <3> QED
      BY <1>3, RequestParts DEF s
  <2>3. Ascending({Number(t) : t \in ToSet(splitStr(m.data[1]))}) = types
    <3> HIDE DEF m, s
    <3> QED
      BY <2>1, <2>2 DEF TypesAsked
  <2>4. joinStr(m.address) = key
    <3> HIDE DEF m, s
    <3> QED
      BY <2>1 DEF KeyOf
  <2> HIDE DEF types, key, m, s, D
  <2>5. /\ \A x \in DOMAIN types : nextJobId + x - 1 \in Numbers
        /\ requests' = inserted(requests, key,
              [address |-> m.address, data |-> m.data[2], nDone |-> 0,
               results |-> [x \in DOMAIN types |-> Empty]])
        /\ jobQueue' = jobQueue \cup
              {[type |-> types[x], id |-> nextJobId + x - 1, key |-> key, index |-> x] :
                  x \in DOMAIN types}
        /\ nextJobId' = nextJobId + Len(types)
        /\ wire' = b.rest
        /\ UNCHANGED <<asked, pending, answers, workers, wip, monitored, alive, currentJob>>
    BY <2>3, <2>4 DEF receiveRequest, m
  <2> QED
    BY <1>1, <1>4, <2>1, <2>5 DEF D
<1>7. p \in UnderWay(s)
  <2>1. Received(p.frames).address = AddressOf(s)
    BY <1>1, <1>2 DEF Message
  <2> QED
    BY <1>1, <2>1 DEF UnderWay
<1>8. key \notin DOMAIN requests /\ <<s.requester, s.id>> \in pending
  BY <1>3, <1>7 DEF RoutingInv, OneUnderWay
<1>9. /\ DOMAIN requests' = DOMAIN requests \cup {key} /\ requests'[key] = r
      /\ \A k \in DOMAIN requests : requests'[k] = requests[k]
  <2> HIDE DEF key, r
  <2> QED
    BY <1>6, <1>8 DEF inserted
<1>10. \A job \in Unfinished : job.id \in 0..(n - 1) /\ job.key \in DOMAIN requests /\ job.key # key
  <2> HIDE DEF key
  <2> QED
    BY <1>4, <1>8 DEF RoutingInv, JobsInv
<1>11. \A job \in New : /\ job.id \in Nat /\ job.id >= n /\ job.id < n + Len(types)
                        /\ job.key = key /\ job.index \in D
                        /\ job.type = types[job.index] /\ job.id = n + job.index - 1
                        /\ job = [type |-> types[job.index], id |-> n + job.index - 1,
                                  key |-> key, index |-> job.index]
  <2> SUFFICES ASSUME NEW x \in D,
                      NEW job, job = [type |-> types[x], id |-> n + x - 1, key |-> key, index |-> x]
               PROVE  /\ job.id \in Nat /\ job.id >= n /\ job.id < n + Len(types)
                      /\ job.key = key /\ job.index \in D
                      /\ job.type = types[job.index] /\ job.id = n + job.index - 1
                      /\ job = [type |-> types[job.index], id |-> n + job.index - 1,
                                key |-> key, index |-> job.index]
    BY DEF New
  <2> HIDE DEF key, types
  <2>1. job.id = n + x - 1 /\ job.index = x /\ job.key = key /\ job.type = types[x]
    OBVIOUS
  <2>2. n + x - 1 \in Nat /\ n + x - 1 >= n /\ n + x - 1 < n + Len(types)
    BY <1>5
  <2> QED
    BY <2>1, <2>2
<1>12. Unfinished' = Unfinished \cup New
  <2> HIDE DEF New
  <2> QED
    BY <1>6 DEF Unfinished
<1>13. Kept
  <2>1. asked \in Nat /\ asked' = asked
    BY <1>3, <1>6
  <2>2. ASSUME NEW l \in Nat, GivenOut(l)
        PROVE  GivenOut(l)'
    <3>1. l \in 0..(n - 1) /\ \A job \in jobQueue : job.id # l
      BY <1>4, <2>2 DEF GivenOut
    <3>2. l \in 0..(nextJobId' - 1)
      BY <1>5, <1>6, <3>1
    <3>3. \A job \in jobQueue' : job.id # l
      <4> HIDE DEF New
      <4> QED
        BY <1>6, <1>11, <3>1
    <3> QED
      BY <3>2, <3>3 DEF GivenOut
  <2>3. \A e \in wip' : e \in wip /\ requests'[e.job.key].data = requests[e.job.key].data
    <3> SUFFICES ASSUME NEW e \in wip
                 PROVE  requests'[e.job.key].data = requests[e.job.key].data
      BY <1>6
    <3>1. e.job \in Unfinished
      BY DEF Unfinished
    <3> QED
      BY <1>9, <1>10, <3>1
  <2> QED
    BY <2>1, <2>2, <2>3 DEF Kept
<1>14. MailInv'
  <2> DEFINE come == {}
  <2>1. /\ wire' \subseteq wire \cup come
        /\ \A q \in come : Mail(q.at, Received(q.frames)) \/ Mail(q.at, Received(q.frames))'
    BY <1>6
  <2> HIDE DEF come
  <2> QED
    BY <1>13, <2>1, WireKept DEF RoutingInv
<1>15. OneUnderWay'
  <2> SUFFICES ASSUME NEW j \in DOMAIN Submissions, NEW t, t = Submissions[j]
               PROVE  /\ \A o, u \in UnderWay(t)' : o = u
                      /\ KeyOf(t) \in DOMAIN requests' => UnderWay(t)' = {}
                      /\ UnderWay(t)' # {} \/ KeyOf(t) \in DOMAIN requests' =>
                            <<t.requester, t.id>> \in pending'
    BY DEF OneUnderWay
  <2>1. /\ \A o, u \in UnderWay(t) : o = u
        /\ KeyOf(t) \in DOMAIN requests => UnderWay(t) = {}
        /\ UnderWay(t) # {} \/ KeyOf(t) \in DOMAIN requests => <<t.requester, t.id>> \in pending
    BY DEF RoutingInv, OneUnderWay
  <2>2. UnderWay(t)' = UnderWay(t) \ {p}
    BY <1>6 DEF UnderWay
  <2>3. CASE KeyOf(t) = key
    <3>1. t.requester = s.requester /\ t.id = s.id
      BY <1>3, <2>3, KeysDiffer
    <3>2. p \in UnderWay(t)
      <4>1. AddressOf(t) = AddressOf(s)
        BY <3>1 DEF AddressOf
      <4>2. UnderWay(t) = UnderWay(s)
        <5> HIDE DEF s
        <5> QED
          BY <3>1, <4>1 DEF UnderWay
      <4> QED
        BY <1>7, <4>2
    <3>3. UnderWay(t)' = {}
      BY <2>1, <2>2, <3>2
    <3> QED
      BY <1>6, <1>8, <3>1, <3>3
  <2>4. CASE KeyOf(t) # key
    <3>1. KeyOf(t) \in DOMAIN requests' => KeyOf(t) \in DOMAIN requests
      <4> HIDE DEF key
      <4> QED
        BY <1>9, <2>4
    <3> QED
      BY <1>6, <2>1, <2>2, <3>1
  <2> QED
    BY <2>3, <2>4
<1>16. RequestsInv'
  <2> SUFFICES ASSUME NEW k \in DOMAIN requests'
               PROVE  \E j \in 1..asked' : RequestFits(k, Submissions[j])'
    BY DEF RequestsInv
  <2>1. CASE k = key
    <3> HIDE DEF New
    <3>1. \A job \in Unfinished' : job.key = key => job \in New
      <4> HIDE DEF key
      <4> QED
        BY <1>10, <1>12
    <3>2. \A x \in D : \E job \in New : job.index = x
      <4> SUFFICES ASSUME NEW x \in D
                   PROVE  \E job \in New : job.index = x
        OBVIOUS
      <4> DEFINE job == [type |-> types[x], id |-> n + x - 1, key |-> key, index |-> x]
      <4>1. job \in New /\ job.index = x
        BY DEF New
      <4> QED
        BY <4>1
    <3> HIDE DEF D
    <3>3. Open(key)' = D
      <4> HIDE DEF key
      <4> QED
        BY <1>11, <1>12, <3>1, <3>2 DEF Open
    <3>4. D \ Open(key)' = {} /\ Cardinality({}) = 0
      BY <3>3, FS_EmptySet
    <3>5. /\ r.results = [x \in D |-> Empty] /\ r.nDone = 0
          /\ r = [address |-> AddressOf(s), data |-> DataText(s), nDone |-> r.nDone,
                  results |-> r.results]
          /\ r.results = [x \in D |-> r.results[x]]
      OBVIOUS
    <3>6. DOMAIN r.results = D
      BY <3>5
    <3>7. r = [address |-> AddressOf(s), data |-> DataText(s), nDone |-> r.nDone,
               results |-> [x \in D |-> r.results[x]]]
      BY <3>5
    <3>8. \A job \in Unfinished' : job.key = key => job.index \in D /\ job.type = types[job.index]
      BY <1>11, <3>1
    <3> HIDE DEF r
    <3>9. \A x \in D \ Open(key)' : r.results[x] = ResultsOf(s)[x]
      BY <3>4
    <3>10. r.nDone = Cardinality(D \ Open(key)')
      BY <3>4, <3>5
    <3>11. RequestFits(key, s)'
      <4>1. key = KeyOf(s) /\ D = DOMAIN TypesAsked(s) /\ types = TypesAsked(s)
        BY DEF D
      <4> HIDE DEF key, s, types
      <4>2. requests'[key] = r
        BY <1>9
      <4> QED
        BY <3>6, <3>7, <3>8, <3>9, <3>10, <4>1, <4>2 DEF RequestFits
    <3> QED
      BY <1>6, <2>1, <3>11
  <2>2. CASE k # key
    <3>1. k \in DOMAIN requests
      <4> HIDE DEF key
      <4> QED
        BY <1>9, <2>2
    <3>2. PICK j \in 1..asked : RequestFits(k, Submissions[j])
      BY <3>1 DEF RoutingInv, RequestsInv
    <3>3. {job \in Unfinished' : job.key = k} = {job \in Unfinished : job.key = k}
      <4> HIDE DEF New, key
      <4> QED
        BY <1>11, <1>12, <2>2
    <3>4. Open(k)' = Open(k)
      BY <3>3 DEF Open
    <3>5. \A job \in Unfinished' : job.key = k => job \in Unfinished
      BY <3>3
    <3>6. requests'[k] = requests[k]
      BY <1>9, <3>1
    <3>7. RequestFits(k, Submissions[j])'
      BY <3>2, <3>4, <3>5, <3>6 DEF RequestFits
    <3> QED
      BY <1>6, <3>7
  <2> QED
    BY <2>1, <2>2
<1>17. JobsInv'
  <2> HIDE DEF New, key
  <2>1. nextJobId' \in Nat /\ 0..(nextJobId' - 1) \subseteq Numbers
    <3>1. 0..(n - 1) \subseteq Numbers
      BY <1>4 DEF RoutingInv, JobsInv
    <3>2. ASSUME NEW l \in 0..(nextJobId' - 1)
          PROVE  l \in Numbers
      <4>1. CASE l \in 0..(n - 1)
        BY <3>1, <4>1
      <4>2. CASE l \notin 0..(n - 1)
        <5>1. l - n + 1 \in D /\ n + (l - n + 1) - 1 = l
          BY <1>5, <1>6, <4>2
        <5> QED
          BY <1>6, <5>1
      <4> QED
        BY <4>1, <4>2
    <3>3. nextJobId' \in Nat
      BY <1>5, <1>6
    <3> QED
      BY <3>2, <3>3
  <2>2. \A job \in Unfinished' : job.id \in 0..(nextJobId' - 1) /\ job.key \in DOMAIN requests'
    BY <1>5, <1>6, <1>9, <1>10, <1>11, <1>12
  <2>3. \A j1, j2 \in Unfinished' :
            j1.id = j2.id \/ (j1.key = j2.key /\ j1.index = j2.index) => j1 = j2
    <3> SUFFICES ASSUME NEW j1 \in Unfinished', NEW j2 \in Unfinished',
                        j1.id = j2.id \/ (j1.key = j2.key /\ j1.index = j2.index)
                 PROVE  j1 = j2
      OBVIOUS
    <3>1. CASE j1 \in Unfinished /\ j2 \in Unfinished
      BY <3>1 DEF RoutingInv, JobsInv
    <3>2. CASE j1 \in New /\ j2 \in New
      <4>1. j1.index = j2.index
        <5>1. j1.index \in Int /\ j2.index \in Int
          BY <1>5, <1>11, <3>2
        <5>2. j1.id = n + j1.index - 1 /\ j2.id = n + j2.index - 1
          BY <1>11, <3>2
        <5> QED
          BY <5>1, <5>2
      <4> QED
        BY <1>11, <3>2, <4>1
    <3>3. CASE j1 \in Unfinished /\ j2 \in New
      BY <1>10, <1>11, <3>3
    <3>4. CASE j1 \in New /\ j2 \in Unfinished
      BY <1>10, <1>11, <3>4
    <3> QED
      BY <1>12, <3>1, <3>2, <3>3, <3>4
  <2>4. \A e \in wip' : e.job \notin jobQueue'
    <3> SUFFICES ASSUME NEW e \in wip
                 PROVE  e.job \notin jobQueue'
      BY <1>6
    <3>1. e.job \in Unfinished /\ e.job \notin jobQueue
      BY DEF Unfinished, RoutingInv, JobsInv
    <3>2. e.job \notin New
      BY <1>10, <1>11, <3>1
    <3> QED
      BY <1>6, <3>1, <3>2
  <2>5. \A e, f \in wip' : e.job = f.job => e = f
    BY <1>6 DEF RoutingInv, JobsInv
  <2> QED
    BY <2>1, <2>2, <2>3, <2>4, <2>5 DEF JobsInv
<1>18. ClientsInv'
  BY <1>6, <1>13, ClientsKept DEF RoutingInv
<1>19. AnswersInv'
  BY <1>6 DEF AnswersInv, RoutingInv
<1>20. asked' \in 0..Len(Submissions)
  BY <1>3, <1>6
<1> QED
  BY <1>14, <1>15, <1>16, <1>17, <1>18, <1>19, <1>20 DEF RoutingInv

\* The Delegator gives a job to a worker.
LEMMA SendJobStep ==
    ASSUME RoutingInv, NEW w \in DOMAIN workers, NEW job \in jobQueue, sendJob(w, job)
    PROVE  RoutingInv'
<1>0. PICK data : data = requests[job.key].data
  OBVIOUS
<1>1. PICK c \in Client : workers[w].address = <<Identity(c)>>
  BY DEF RoutingInv, ClientsInv
<1> DEFINE d     == <<Text(job.type), Text(job.id), data>>
           m     == Message(<<>>, "JOB", d)
           q     == Routed("client", Message(<<Identity(c)>>, "JOB", d))
           entry == [worker |-> w, job |-> job]
           gone  == {}
           come  == {q}
<1>2. /\ jobQueue' = jobQueue \ {job} /\ wip' = wip \cup {entry} /\ wire' = wire \cup {q}
      /\ UNCHANGED <<asked, pending, answers, workers, requests, nextJobId, currentJob>>
  BY <1>0, <1>1 DEF sendJob
<1>3. entry.job = job
  OBVIOUS
<1>4. q.at = At("client", Identity(c)) /\ Received(q.frames) = m
  <2> DEFINE x  == Identity(c)
             at == At("client", x)
  <2>1. IsData(d) /\ x # <<>>
    BY ShortData DEF Identity
  <2>2. q = Routed("client", Message(<<x>>, "JOB", d)) /\ m = Message(<<>>, "JOB", d)
    OBVIOUS
  <2> HIDE DEF x, d, m, q
  <2>3. Arrives(q, at, m)
    BY <2>1, <2>2, RoutedArrives
  <2> QED
    BY <2>3 DEF Arrives, x
<1> HIDE DEF entry
<1>5. Unfinished' = Unfinished
  <2>1. Unfinished' = (jobQueue \ {job}) \cup {e.job : e \in wip \cup {entry}}
    BY <1>2 DEF Unfinished
  <2> QED
    BY <1>3, <2>1 DEF Unfinished
<1>6. job \in Unfinished /\ job.id \in 0..(nextJobId - 1) /\ nextJobId \in Nat
  <2>1. job \in Unfinished
    BY DEF Unfinished
  <2> QED
    BY <2>1 DEF RoutingInv, JobsInv
<1>7. \A j1, j2 \in Unfinished :
          j1.id = j2.id \/ (j1.key = j2.key /\ j1.index = j2.index) => j1 = j2
  BY DEF RoutingInv, JobsInv
<1>8. asked \in 0..Len(Submissions) /\ Len(Submissions) \in Nat
  BY RoutingAssumption DEF RoutingInv
<1>9. Kept
  <2>1. asked \in Nat /\ asked' = asked
    BY <1>2, <1>8
  <2>2. ASSUME NEW n \in Nat, GivenOut(n)
        PROVE  /\ GivenOut(n)'
               /\ \A e \in wip' : e.job.id = n =>
                     e \in wip /\ requests'[e.job.key].data = requests[e.job.key].data
    <3>1. GivenOut(n)'
      BY <1>2, <2>2 DEF GivenOut
    <3>2. job.id # n
      BY <2>2 DEF GivenOut
    <3> QED
      BY <1>2, <1>3, <3>1, <3>2
  <2> QED
    BY <2>1, <2>2 DEF Kept
<1>10. JobMail(m)'
  <2>1. PICK n \in Nat : n = job.id
    BY <1>6
  <2>2. GivenOut(n)'
    <3>1. \A j \in jobQueue' : j.id # n
      <4> SUFFICES ASSUME NEW j \in jobQueue, j # job
                   PROVE  j.id # n
        BY <1>2
      <4>1. j \in Unfinished
        BY DEF Unfinished
      <4> QED
        BY <1>6, <1>7, <2>1, <4>1
    <3> QED
      BY <1>2, <1>6, <2>1, <3>1 DEF GivenOut
  <2>3. \A e \in wip' : e.job.id = n => e.job = job
    <3> SUFFICES ASSUME NEW e \in wip', e.job.id = n
                 PROVE  e.job = job
      OBVIOUS
    <3>1. e.job \in Unfinished
      BY <1>5 DEF Unfinished
    <3> QED
      BY <1>6, <1>7, <2>1, <3>1
  <2>4. m.data = d /\ m.data[1] = Text(job.type) /\ m.data[3] = data
    BY DEF Message
  <2>5. m.data = <<m.data[1], Text(n), m.data[3]>>
    <3> HIDE DEF m
    <3> QED
      BY <2>1, <2>4
  <2> HIDE DEF m, d
  <2> QED
    BY <1>0, <1>2, <2>2, <2>3, <2>4, <2>5 DEF JobMail
<1>11. Mail(q.at, Received(q.frames))'
  <2>1. m = Message(<<>>, "JOB", m.data)
    BY DEF Message
  <2> HIDE DEF m, q
  <2>2. ToClientMail(At("client", Identity(c)), m)'
    BY <1>10, <2>1 DEF ToClientMail
  <2> QED
    BY <1>4, <2>2 DEF Mail
<1>12. MailInv'
  <2>1. /\ wire' \subseteq wire \cup come
        /\ \A p \in come : Mail(p.at, Received(p.frames)) \/ Mail(p.at, Received(p.frames))'
    <3> HIDE DEF q
    <3> QED
      BY <1>2, <1>11
  <2> HIDE DEF come
  <2> QED
    BY <1>9, <2>1, WireKept DEF RoutingInv
<1>13. \A s : UnderWay(s)' = UnderWay(s)
  <2>1. wire' = (wire \ gone) \cup come
    BY <1>2
  <2>2. \A p \in gone \cup come : p.at[1] \notin {"requests", "answers"}
    <3> HIDE DEF q
    <3> QED
      BY <1>4 DEF At
  <2> HIDE DEF gone, come
  <2> QED
    BY <2>1, <2>2, UnderWayKept
<1>14. OneUnderWay'
  <2>1. OneUnderWay
    BY DEF RoutingInv
  <2> QED
    BY <1>2, <1>13, <2>1 DEF OneUnderWay
<1>15. RequestsInv'
  <2>1. \A k, s : RequestFits(k, s)' <=> RequestFits(k, s)
    BY <1>2, <1>5 DEF RequestFits, Open
  <2> QED
    BY <1>2, <2>1 DEF RequestsInv, RoutingInv
<1>16. JobsInv'
  <2>1. \A e \in wip : e.job \notin jobQueue
    BY DEF RoutingInv, JobsInv
  <2>2. \A e \in wip' : e.job \notin jobQueue'
    BY <1>2, <1>3, <2>1
  <2>3. \A e, f \in wip' : e.job = f.job => e = f
    <3>1. \A e, f \in wip : e.job = f.job => e = f
      BY DEF RoutingInv, JobsInv
    <3>2. \A e \in wip : e.job # job
      BY <2>1
    <3> QED
      BY <1>2, <1>3, <3>1, <3>2
  <2>4. /\ nextJobId' \in Nat /\ 0..(nextJobId' - 1) \subseteq Numbers
        /\ \A j \in Unfinished' : j.id \in 0..(nextJobId' - 1) /\ j.key \in DOMAIN requests'
    BY <1>2, <1>5 DEF RoutingInv, JobsInv
  <2>5. \A j1, j2 \in Unfinished' :
            j1.id = j2.id \/ (j1.key = j2.key /\ j1.index = j2.index) => j1 = j2
    BY <1>5, <1>7
  <2> QED
    BY <2>2, <2>3, <2>4, <2>5 DEF JobsInv
<1>17. ClientsInv'
  BY <1>2, <1>9, ClientsKept DEF RoutingInv
<1>18. AnswersInv'
  BY <1>2 DEF AnswersInv, RoutingInv
<1> QED
  BY <1>2, <1>8, <1>12, <1>14, <1>15, <1>16, <1>17, <1>18 DEF RoutingInv

\* A request with one more result.
OneMoreResult(k, index, text) ==
    [requests[k] EXCEPT !.results[index] = text, !.nDone = @ + 1]

\* What a request is with one result more, when the jobs left are still to be finished.
OneMoreFits(job, s, r, left) ==
    LET D == DOMAIN TypesAsked(s)
        O == {j.index : j \in left}
    IN  /\ job.key = KeyOf(s) /\ job.key \in DOMAIN requests
        /\ r.address = AddressOf(s) /\ r.data = DataText(s) /\ r.data = requests[job.key].data
        /\ DOMAIN r.results = D
        /\ r = [address |-> AddressOf(s), data |-> DataText(s), nDone |-> r.nDone,
                results |-> [x \in D |-> r.results[x]]]
        /\ \A j \in left : j.index \in D /\ j.type = TypesAsked(s)[j.index]
        /\ \A x \in D \ O : r.results[x] = ResultsOf(s)[x]
        /\ r.nDone = Cardinality(D \ O)
        /\ r.nDone = Len(r.results) <=> left = {}

\* A result is that of the job it is for; with it, the request has one result more, and has
\* all of them when no job of it is left.
LEMMA ResultFits ==
    ASSUME RoutingInv, NEW m, ResultMail(m), NEW entry \in wip, Text(entry.job.id) = m.data[1],
           NEW job, job = entry.job, NEW i \in 1..asked,
           RequestFits(job.key, Submissions[i]), NEW s, s = Submissions[i],
           NEW r, r = OneMoreResult(job.key, job.index, m.data[2]),
           NEW left, left = {j \in Unfinished \ {job} : j.key = job.key}
    PROVE  OneMoreFits(job, s, r, left)
<1> DEFINE k    == job.key
           x0   == job.index
           v    == m.data[2]
           old  == requests[k]
           D    == DOMAIN TypesAsked(s)
           O    == {j.index : j \in left}
<1>1. job \in Unfinished
  BY DEF Unfinished
<1>2. /\ k \in DOMAIN requests /\ job.id \in Numbers
      /\ nextJobId \in Nat /\ 0..(nextJobId - 1) \subseteq Numbers
      /\ \A j1, j2 \in Unfinished :
            j1.id = j2.id \/ (j1.key = j2.key /\ j1.index = j2.index) => j1 = j2
  BY <1>1 DEF RoutingInv, JobsInv
<1>3. i \in DOMAIN Submissions
  BY RoutingAssumption DEF RoutingInv
<1>4. Len(TypesAsked(s)) \in Nat /\ D = 1..Len(TypesAsked(s))
  BY <1>3, RequestParts
<1>5. /\ k = KeyOf(s) /\ DOMAIN old.results = D
      /\ old = [address |-> AddressOf(s), data |-> DataText(s), nDone |-> old.nDone,
                results |-> [x \in D |-> old.results[x]]]
      /\ \A j \in Unfinished : j.key = k => j.index \in D /\ j.type = TypesAsked(s)[j.index]
      /\ \A x \in D \ Open(k) : old.results[x] = ResultsOf(s)[x]
      /\ old.nDone = Cardinality(D \ Open(k))
  BY DEF RequestFits
<1>6. x0 \in D /\ job.type = TypesAsked(s)[x0]
  BY <1>1, <1>5
<1>7. v = ResultsOf(s)[x0]
  <2>1. PICK n \in Nat :
            /\ GivenOut(n) /\ m.data = <<Text(n), m.data[2]>>
            /\ \A e \in wip : e.job.id = n =>
                  m.data[2] = ResultOf(e.job.type, requests[e.job.key].data)
    BY DEF ResultMail
  <2>2. n \in Numbers /\ Text(job.id) = Text(n)
    BY <1>2, <2>1 DEF GivenOut
  <2>3. job.id = n
    BY <1>2, <2>2, NumberPrinted
  <2>4. v = ResultOf(job.type, old.data)
    BY <2>1, <2>3
  <2>5. old.data = DataText(s)
    <3> HIDE DEF old
    <3> QED
      BY <1>5
  <2> HIDE DEF x0, old, v
  <2> QED
    BY <1>6, <2>4, <2>5 DEF ResultsOf
<1>8. x0 \in Open(k) /\ Open(k) \subseteq D
  BY <1>1, <1>5 DEF Open
<1>9. O = Open(k) \ {x0}
  <2>1. ASSUME NEW x \in O
        PROVE  x \in Open(k) /\ x # x0
    <3>1. PICK j \in Unfinished : j # job /\ j.key = k /\ j.index = x
      BY <2>1
    <3> QED
      BY <1>1, <1>2, <3>1 DEF Open
  <2>2. ASSUME NEW x \in Open(k), x # x0
        PROVE  x \in O
    <3>1. PICK j \in Unfinished : j.key = k /\ j.index = x
      BY DEF Open
    <3>2. j \in left
      BY <2>2, <3>1
    <3> QED
      BY <3>1, <3>2
  <2> QED
    BY <2>1, <2>2
<1>10. /\ r.address = AddressOf(s) /\ r.data = DataText(s) /\ r.data = old.data
       /\ r.nDone = old.nDone + 1
       /\ r.results = [x \in D |-> IF x = x0 THEN v ELSE old.results[x]]
       /\ r = [address |-> AddressOf(s), data |-> DataText(s), nDone |-> r.nDone,
               results |-> r.results]
  <2> DEFINE res == [x \in D |-> old.results[x]]
             nd  == old.nDone
  <2>1. old = [address |-> AddressOf(s), data |-> DataText(s), nDone |-> nd, results |-> res]
    BY <1>5
  <2>2. r = [old EXCEPT !.results[x0] = v, !.nDone = @ + 1]
    BY DEF OneMoreResult
  <2>3. old.results = res
    <3> HIDE DEF old, res
    <3> QED
      BY <2>1
  <2>4. [res EXCEPT ![x0] = v] = [x \in D |-> IF x = x0 THEN v ELSE old.results[x]]
    <3> HIDE DEF old, D
    <3> QED
      OBVIOUS
  <2> DEFINE up == [res EXCEPT ![x0] = v]
  <2> HIDE DEF res, nd, v, x0
  <2>5. r = [address |-> AddressOf(s), data |-> DataText(s), nDone |-> nd + 1, results |-> up]
    <3> HIDE DEF old
    <3> QED
      BY <2>1, <2>2
  <2> HIDE DEF up
  <2>6. r.address = AddressOf(s) /\ r.data = DataText(s) /\ r.nDone = nd + 1 /\ r.results = up
    BY <2>5
  <2>7. old.data = DataText(s)
    <3> HIDE DEF old
    <3> QED
      BY <2>1
  <2> QED
    BY <2>4, <2>5, <2>6, <2>7 DEF up, nd
<1> HIDE DEF D, O, v, x0, old
<1>11. DOMAIN r.results = D /\ r.results = [x \in D |-> r.results[x]]
  BY <1>10
<1>12. \A x \in D \ O : r.results[x] = ResultsOf(s)[x]
  BY <1>5, <1>7, <1>9, <1>10
<1>13. r.nDone = Cardinality(D \ O)
  <2>1. D \ O = (D \ Open(k)) \cup {x0} /\ x0 \notin D \ Open(k)
    BY <1>6, <1>8, <1>9
  <2>2. IsFiniteSet(D)
    <3>1. PICK n \in Nat : n = Len(TypesAsked(s))
      BY <1>4
    <3>2. IsFiniteSet(1..n)
      BY UpTo
    <3> QED
      BY <1>4, <3>1, <3>2
  <2>3. IsFiniteSet(D \ Open(k))
    BY <2>2, FS_Subset
  <2>4. Cardinality((D \ Open(k)) \cup {x0}) = Cardinality(D \ Open(k)) + 1
    BY <2>1, <2>3, FS_AddElement
  <2> QED
    BY <1>5, <1>10, <2>1, <2>4
<1>14. \A j \in left : j.index \in D /\ j.type = TypesAsked(s)[j.index]
  BY <1>5
<1>15. r.nDone = Len(r.results) <=> left = {}
  <2>1. IsFiniteSet(D) /\ Cardinality(D) = Len(TypesAsked(s))
    <3>1. PICK n \in Nat : n = Len(TypesAsked(s))
      BY <1>4
    <3>2. IsFiniteSet(1..n) /\ Cardinality(1..n) = n
      BY UpTo
    <3> QED
      BY <1>4, <3>1, <3>2
  <2>2. Len(r.results) = Cardinality(D)
    <3>1. Len(r.results) = Len(TypesAsked(s))
      BY <1>4, <1>11, LenProperties
    <3> QED
      BY <2>1, <3>1
  <2>3. O = {} <=> left = {}
    BY DEF O
  <2>4. O \subseteq D
    BY <1>8, <1>9
  <2>5. CASE O = {}
    <3>1. D \ O = D
      BY <2>5
    <3> QED
      BY <1>13, <2>2, <2>3, <2>5, <3>1
  <2>6. CASE O # {}
    <3>1. D \ O \in SUBSET D /\ D \ O # D
      BY <2>4, <2>6
    <3>2. Cardinality(D) # Cardinality(D \ O)
      BY <2>1, <3>1, FS_Subset
    <3> QED
      BY <1>13, <2>2, <2>3, <2>6, <3>2
  <2> QED
    BY <2>5, <2>6
<1>16. /\ job.key = KeyOf(s) /\ job.key \in DOMAIN requests
       /\ r.address = AddressOf(s) /\ r.data = DataText(s) /\ r.data = requests[job.key].data
  BY <1>2, <1>5, <1>10 DEF old
<1>17. r = [address |-> AddressOf(s), data |-> DataText(s), nDone |-> r.nDone,
            results |-> [x \in D |-> r.results[x]]]
  BY <1>10, <1>11
<1> QED
  BY <1>11, <1>12, <1>13, <1>14, <1>15, <1>16, <1>17 DEF OneMoreFits, D, O

\* A job of which the result has come is no longer in progress.
LEMMA JobDone ==
    ASSUME RoutingInv, NEW entry \in wip, wip' = wip \ {entry},
           UNCHANGED <<asked, jobQueue, nextJobId>>,
           \A j \in Unfinished \ {entry.job} :
              j.key \in DOMAIN requests' /\ requests'[j.key].data = requests[j.key].data
    PROVE  Unfinished' = Unfinished \ {entry.job} /\ Kept /\ JobsInv'
<1>1. /\ nextJobId \in Nat /\ 0..(nextJobId - 1) \subseteq Numbers
      /\ \A job \in Unfinished : job.id \in 0..(nextJobId - 1) /\ job.key \in DOMAIN requests
      /\ \A j1, j2 \in Unfinished :
            j1.id = j2.id \/ (j1.key = j2.key /\ j1.index = j2.index) => j1 = j2
      /\ \A e \in wip : e.job \notin jobQueue
      /\ \A e, f \in wip : e.job = f.job => e = f
  BY DEF RoutingInv, JobsInv
<1>2. Unfinished' = Unfinished \ {entry.job}
  BY <1>1 DEF Unfinished
<1>3. Kept
  <2>1. asked \in Nat /\ asked' = asked
    BY RoutingAssumption DEF RoutingInv
  <2>2. \A n \in Nat : GivenOut(n) => GivenOut(n)'
    BY DEF GivenOut
  <2>3. ASSUME NEW e \in wip'
        PROVE  e \in wip /\ requests'[e.job.key].data = requests[e.job.key].data
    <3>1. e.job \in Unfinished \ {entry.job}
      BY <1>1 DEF Unfinished
    <3> QED
      BY <3>1
  <2> QED
    BY <2>1, <2>2, <2>3 DEF Kept
<1>4. JobsInv'
  <2>1. \A job \in Unfinished' : job.id \in 0..(nextJobId' - 1) /\ job.key \in DOMAIN requests'
    BY <1>1, <1>2
  <2>2. \A j1, j2 \in Unfinished' :
            j1.id = j2.id \/ (j1.key = j2.key /\ j1.index = j2.index) => j1 = j2
    BY <1>1, <1>2
  <2> QED
    BY <1>1, <2>1, <2>2 DEF JobsInv
<1> QED
  BY <1>2, <1>3, <1>4

\* The request of a job is one that was submitted.
LEMMA RequestOfJob ==
    ASSUME RoutingInv, NEW entry \in wip
    PROVE  /\ entry.job \in Unfinished /\ entry.job.key \in DOMAIN requests
           /\ \E i \in 1..asked :
                 i \in DOMAIN Submissions /\ RequestFits(entry.job.key, Submissions[i])
<1>1. entry.job \in Unfinished
  BY DEF Unfinished
<1>2. entry.job.key \in DOMAIN requests
  BY <1>1 DEF RoutingInv, JobsInv
<1>3. PICK i \in 1..asked : RequestFits(entry.job.key, Submissions[i])
  BY <1>2 DEF RoutingInv, RequestsInv
<1>4. i \in DOMAIN Submissions
  BY RoutingAssumption DEF RoutingInv
<1> QED
  BY <1>1, <1>2, <1>3, <1>4

\* A request that is not the one of the job is as it was.
LEMMA OtherRequests ==
    ASSUME NEW job, Unfinished' = Unfinished \ {job}, NEW k, k # job.key,
           requests'[k] = requests[k], NEW s, RequestFits(k, s)
    PROVE  RequestFits(k, s)'
<1>1. {j \in Unfinished' : j.key = k} = {j \in Unfinished : j.key = k}
  OBVIOUS
<1>2. Open(k)' = Open(k)
  BY <1>1 DEF Open
<1>3. \A j \in Unfinished' : j \in Unfinished
  OBVIOUS
<1> QED
  BY <1>2, <1>3 DEF RequestFits

\* The Delegator keeps a result while the request has other jobs left.
LEMMA EarlyResult ==
    ASSUME RoutingInv, NEW m, ResultMail(m), NEW entry \in wip, Text(entry.job.id) = m.data[1],
           NEW p \in wire, p.at = Server("network"),
           NEW r, r = OneMoreResult(entry.job.key, entry.job.index, m.data[2]),
           r.nDone # Len(r.results),
           wip' = wip \ {entry}, wire' = wire \ {p},
           requests' = [requests EXCEPT ![entry.job.key] = r],
           UNCHANGED <<asked, pending, answers, workers, jobQueue, nextJobId, currentJob>>
    PROVE  RoutingInv'
<1>1. PICK job : job = entry.job
  OBVIOUS
<1>2. PICK k : k = job.key
  OBVIOUS
<1>3. PICK i \in 1..asked : i \in DOMAIN Submissions /\ RequestFits(k, Submissions[i])
  BY <1>1, <1>2, RequestOfJob
<1>4. PICK s : s = Submissions[i]
  OBVIOUS
<1>5. PICK left : left = {j \in Unfinished \ {job} : j.key = k}
  OBVIOUS
<1> DEFINE D == DOMAIN TypesAsked(s)
           O == {j.index : j \in left}
<1>6. /\ k = KeyOf(s) /\ k \in DOMAIN requests
      /\ r.address = AddressOf(s) /\ r.data = DataText(s) /\ r.data = requests[k].data
      /\ DOMAIN r.results = D
      /\ r = [address |-> AddressOf(s), data |-> DataText(s), nDone |-> r.nDone,
              results |-> [x \in D |-> r.results[x]]]
      /\ \A j \in left : j.index \in D /\ j.type = TypesAsked(s)[j.index]
      /\ \A x \in D \ O : r.results[x] = ResultsOf(s)[x]
      /\ r.nDone = Cardinality(D \ O)
  <2>1. OneMoreFits(job, s, r, left)
    <3>1. r = OneMoreResult(job.key, job.index, m.data[2])
      BY <1>1
    <3>2. /\ left = {j \in Unfinished \ {job} : j.key = job.key}
          /\ RequestFits(job.key, Submissions[i])
      BY <1>2, <1>3, <1>5
    <3>3. Text(entry.job.id) = m.data[1]
      OBVIOUS
    <3> QED
      BY ONLY RoutingInv, ResultMail(m), entry \in wip, i \in 1..asked,
              <1>1, <1>4, <3>1, <3>2, <3>3, ResultFits
  <2> QED
    BY <1>2, <2>1 DEF OneMoreFits
<1>7. /\ DOMAIN requests' = DOMAIN requests /\ requests'[k] = r
      /\ \A key \in DOMAIN requests : key # k => requests'[key] = requests[key]
  BY <1>1, <1>2, <1>6
<1>8. Unfinished' = Unfinished \ {job} /\ Kept /\ JobsInv'
  <2>1. \A j \in Unfinished \ {entry.job} :
            j.key \in DOMAIN requests' /\ requests'[j.key].data = requests[j.key].data
    <3>1. \A j \in Unfinished : j.key \in DOMAIN requests
      BY DEF RoutingInv, JobsInv
    <3> QED
      BY <1>6, <1>7, <3>1
  <2> QED
    BY <1>1, <2>1, JobDone
<1>9. MailInv'
  <2> DEFINE come == {}
  <2>1. /\ wire' \subseteq wire \cup come
        /\ \A q \in come : Mail(q.at, Received(q.frames)) \/ Mail(q.at, Received(q.frames))'
    OBVIOUS
  <2> HIDE DEF come
  <2> QED
    BY <1>8, <2>1, WireKept DEF RoutingInv
<1>10. OneUnderWay'
  <2> DEFINE gone == {p}
             come == {}
  <2>1. wire' = (wire \ gone) \cup come
    OBVIOUS
  <2>2. \A q \in gone \cup come : q.at[1] \notin {"requests", "answers"}
    BY DEF Server, At
  <2> HIDE DEF gone, come
  <2>3. \A t : UnderWay(t)' = UnderWay(t)
    BY <2>1, <2>2, UnderWayKept
  <2>4. OneUnderWay
    BY DEF RoutingInv
  <2> QED
    BY <1>7, <2>3, <2>4 DEF OneUnderWay
<1>11. RequestsInv'
  <2> SUFFICES ASSUME NEW key \in DOMAIN requests'
               PROVE  \E j \in 1..asked' : RequestFits(key, Submissions[j])'
    BY DEF RequestsInv
  <2>1. CASE key = k
    <3>1. left = {j \in Unfinished' : j.key = k}
      BY <1>5, <1>8
    <3>2. Open(k)' = O
      BY <3>1 DEF Open
    <3>3. \A j \in Unfinished' : j.key = k => j.index \in D /\ j.type = TypesAsked(s)[j.index]
      BY <1>6, <3>1
    <3>4. RequestFits(k, s)'
      <4> HIDE DEF O
      <4> QED
        BY <1>6, <1>7, <3>2, <3>3, ZenonT(60) DEF RequestFits
    <3> QED
      BY <1>4, <2>1, <3>4
  <2>2. CASE key # k
    <3>1. PICK j \in 1..asked : RequestFits(key, Submissions[j])
      BY <1>7 DEF RoutingInv, RequestsInv
    <3>2. requests'[key] = requests[key]
      BY <1>7, <2>2
    <3>3. RequestFits(key, Submissions[j])'
      BY <1>2, <1>8, <2>2, <3>1, <3>2, OtherRequests
    <3> QED
      BY <3>3
  <2> QED
    BY <2>1, <2>2
<1>12. ClientsInv'
  BY <1>8, ClientsKept DEF RoutingInv
<1>13. AnswersInv'
  BY DEF AnswersInv, RoutingInv
<1> QED
  BY <1>8, <1>9, <1>10, <1>11, <1>12, <1>13 DEF RoutingInv

\* The Delegator answers a request with its last result.
LEMMA LastResult ==
    ASSUME RoutingInv, NEW m, ResultMail(m), NEW entry \in wip, Text(entry.job.id) = m.data[1],
           NEW p \in wire, p.at = Server("network"),
           NEW r, r = OneMoreResult(entry.job.key, entry.job.index, m.data[2]),
           r.nDone = Len(r.results),
           wip' = wip \ {entry},
           wire' = (wire \ {p}) \cup {Routed("answers", Message(r.address, "RESULT", r.results))},
           requests' = [x \in DOMAIN requests \ {entry.job.key} |-> requests[x]],
           UNCHANGED <<asked, pending, answers, workers, jobQueue, nextJobId, currentJob>>
    PROVE  RoutingInv'
<1>1. PICK job : job = entry.job
  OBVIOUS
<1>2. PICK k : k = job.key
  OBVIOUS
<1>3. PICK i \in 1..asked : i \in DOMAIN Submissions /\ RequestFits(k, Submissions[i])
  BY <1>1, <1>2, RequestOfJob
<1>4. PICK s : s = Submissions[i]
  OBVIOUS
<1>5. PICK left : left = {j \in Unfinished \ {job} : j.key = k}
  OBVIOUS
<1>6. PICK q : q = Routed("answers", Message(r.address, "RESULT", r.results))
  OBVIOUS
<1> DEFINE D == DOMAIN TypesAsked(s)
           a == Message(<<Text(s.id)>>, "RESULT", ResultsOf(s))
<1>7. /\ k = KeyOf(s) /\ k \in DOMAIN requests /\ r.address = AddressOf(s)
      /\ r.results = ResultsOf(s) /\ left = {}
  <2> DEFINE O == {j.index : j \in left}
  <2>1. /\ k = KeyOf(s) /\ k \in DOMAIN requests /\ r.address = AddressOf(s)
        /\ DOMAIN r.results = D
        /\ r = [address |-> AddressOf(s), data |-> DataText(s), nDone |-> r.nDone,
                results |-> [x \in D |-> r.results[x]]]
        /\ \A x \in D \ O : r.results[x] = ResultsOf(s)[x]
        /\ left = {}
    <3>1. OneMoreFits(job, s, r, left)
      <4>1. r = OneMoreResult(job.key, job.index, m.data[2])
        BY <1>1
      <4>2. /\ left = {j \in Unfinished \ {job} : j.key = job.key}
            /\ RequestFits(job.key, Submissions[i])
        BY <1>2, <1>3, <1>5
      <4>3. Text(entry.job.id) = m.data[1]
        OBVIOUS
      <4> QED
        BY ONLY RoutingInv, ResultMail(m), entry \in wip, i \in 1..asked,
                <1>1, <1>4, <4>1, <4>2, <4>3, ResultFits
    <3> QED
      BY <1>2, <3>1 DEF OneMoreFits
  <2>2. \A x \in D : r.results[x] = ResultsOf(s)[x]
    BY <2>1
  <2>3. r.results = [x \in D |-> r.results[x]]
    BY <2>1, SMTT(30)
  <2>4. ResultsOf(s) = [x \in D |-> ResultsOf(s)[x]]
    BY DEF ResultsOf
  <2>5. r.results = ResultsOf(s)
    BY <2>2, <2>3, <2>4
  <2> QED
    BY <2>1, <2>5
<1>8. /\ DOMAIN requests' = DOMAIN requests \ {k}
      /\ \A key \in DOMAIN requests' : requests'[key] = requests[key]
  BY <1>1, <1>2
<1>9. \A j \in Unfinished \ {job} : j.key # k
  BY <1>5, <1>7
<1>10. Unfinished' = Unfinished \ {job} /\ Kept /\ JobsInv'
  <2>1. \A j \in Unfinished \ {entry.job} :
            j.key \in DOMAIN requests' /\ requests'[j.key].data = requests[j.key].data
    <3>1. \A j \in Unfinished : j.key \in DOMAIN requests
      BY DEF RoutingInv, JobsInv
    <3> QED
      BY <1>1, <1>8, <1>9, <3>1
  <2> QED
    BY <1>1, <2>1, JobDone
<1>11. q.at = At("answers", Identity(s.requester)) /\ Received(q.frames) = a
  <2> DEFINE t  == Text(s.id)
             x  == Identity(s.requester)
             d  == ResultsOf(s)
             at == At("answers", x)
  <2>1. t # <<>> /\ x # <<>>
    BY <1>3, <1>4, RequestParts, NumberPrinted DEF Identity
  <2>2. IsData(d)
    <3>1. Len(TypesAsked(s)) \in Nat /\ D = 1..Len(TypesAsked(s))
      BY <1>3, <1>4, RequestParts
    <3>2. d = [y \in D |-> d[y]]
      BY DEF ResultsOf
    <3> DEFINE V == {d[y] : y \in D}
    <3>3. d \in Seq(V)
      <4> HIDE DEF d
      <4> QED
        BY <3>1, <3>2
    <3> HIDE DEF V, d
    <3> QED
      BY <3>3 DEF IsData
  <2>3. q = Routed("answers", Message(<<t, x>>, "RESULT", d)) /\ a = Message(<<t>>, "RESULT", d)
    BY <1>6, <1>7 DEF AddressOf
  <2> HIDE DEF t, x, d, a
  <2>4. Arrives(q, at, a)
    BY <2>1, <2>2, <2>3, RoutedArrives
  <2> HIDE DEF at
  <2>5. q.at = at /\ Received(q.frames) = a
    BY <2>4 DEF Arrives
  <2> QED
    BY <2>5 DEF at, x
<1>12. MailInv'
  <2> DEFINE come == {q}
  <2>1. Mail(q.at, Received(q.frames))
    <3>1. AnswerMail(q.at, Received(q.frames))
      BY <1>4, <1>11 DEF AnswerMail
    <3> QED
      BY <3>1 DEF Mail
  <2>2. /\ wire' \subseteq wire \cup come
        /\ \A u \in come : Mail(u.at, Received(u.frames)) \/ Mail(u.at, Received(u.frames))'
    BY <1>6, <2>1
  <2> HIDE DEF come
  <2> QED
    BY <1>10, <2>2, WireKept DEF RoutingInv
<1>13. OneUnderWay'
  <2> SUFFICES ASSUME NEW j \in DOMAIN Submissions, NEW t, t = Submissions[j]
               PROVE  /\ \A o, u \in UnderWay(t)' : o = u
                      /\ KeyOf(t) \in DOMAIN requests' => UnderWay(t)' = {}
                      /\ UnderWay(t)' # {} \/ KeyOf(t) \in DOMAIN requests' =>
                            <<t.requester, t.id>> \in pending'
    BY DEF OneUnderWay
  <2>1. /\ \A o, u \in UnderWay(t) : o = u
        /\ KeyOf(t) \in DOMAIN requests => UnderWay(t) = {}
        /\ UnderWay(t) # {} \/ KeyOf(t) \in DOMAIN requests => <<t.requester, t.id>> \in pending
    BY DEF RoutingInv, OneUnderWay
  <2>2. CASE KeyOf(t) = k
    <3>1. UnderWay(t) = {} /\ <<t.requester, t.id>> \in pending
      BY <1>7, <2>1, <2>2
    <3>2. UnderWay(t)' \subseteq {q}
      BY <1>6, <3>1 DEF UnderWay
    <3>3. KeyOf(t) \notin DOMAIN requests'
      BY <1>8, <2>2
    <3> QED
      BY <3>1, <3>2, <3>3
  <2>3. CASE KeyOf(t) # k
    <3>1. t.requester # s.requester \/ t.id # s.id
      BY <1>7, <2>3 DEF KeyOf, AddressOf
    <3>2. ~ (/\ q.at = At("answers", Identity(t.requester))
             /\ Received(q.frames).address = <<Text(t.id)>>)
      <4>1. t.id \in Numbers /\ s.id \in Numbers
        BY <1>3, <1>4, RequestParts
      <4>2. Text(t.id) = Text(s.id) => t.id = s.id
        BY <4>1, NumberPrinted
      <4>3. a.address = <<Text(s.id)>>
        BY DEF Message
      <4> HIDE DEF a
      <4> QED
        BY <1>11, <3>1, <4>2, <4>3 DEF At, Identity
    <3>3. q.at # Server("requests") /\ p.at # Server("requests")
      BY <1>11 DEF Server, At
    <3>4. \A x : p.at # At("answers", x)
      BY DEF Server, At
    <3>5. UnderWay(t)' = UnderWay(t)
      <4> DEFINE Of(u) ==
              \/ u.at = Server("requests") /\ Received(u.frames).address = AddressOf(t)
              \/ /\ u.at = At("answers", Identity(t.requester))
                 /\ Received(u.frames).address = <<Text(t.id)>>
      <4>1. ~ Of(p) /\ ~ Of(q)
        <5> HIDE DEF a
        <5> QED
          BY <3>2, <3>3, <3>4
      <4>2. UnderWay(t) = {u \in wire : Of(u)} /\ UnderWay(t)' = {u \in wire' : Of(u)}
        BY DEF UnderWay
      <4> HIDE DEF Of, a
      <4> QED
        BY <1>6, <4>1, <4>2
    <3> QED
      BY <1>8, <2>1, <3>5
  <2> QED
    BY <2>2, <2>3
<1>14. RequestsInv'
  <2> SUFFICES ASSUME NEW key \in DOMAIN requests'
               PROVE  \E j \in 1..asked' : RequestFits(key, Submissions[j])'
    BY DEF RequestsInv
  <2>1. key \in DOMAIN requests /\ key # k /\ requests'[key] = requests[key]
    BY <1>8
  <2>2. PICK j \in 1..asked : RequestFits(key, Submissions[j])
    BY <2>1 DEF RoutingInv, RequestsInv
  <2>3. RequestFits(key, Submissions[j])'
    BY <1>2, <1>10, <2>1, <2>2, OtherRequests
  <2> QED
    BY <2>3
<1>15. ClientsInv'
  BY <1>10, ClientsKept DEF RoutingInv
<1>16. AnswersInv'
  BY DEF AnswersInv, RoutingInv
<1> QED
  BY <1>10, <1>12, <1>13, <1>14, <1>15, <1>16 DEF RoutingInv

\* The Delegator receives a result.
LEMMA ReceiveResultStep ==
    ASSUME RoutingInv, NEW b \in bind(Server("network"), "RESULT"), receiveResult(b.m, b.rest)
    PROVE  RoutingInv'
<1>1. PICK m : m = b.m
  OBVIOUS
<1>2. PICK p \in wire : p.at = Server("network") /\ b.rest = wire \ {p}
  BY Bound DEF RoutingInv
<1>3. ResultMail(m)
  <2>1. Mail(Server("network"), m) /\ m.subject = "RESULT"
    BY <1>1, Bound DEF RoutingInv
  <2> QED
    BY <2>1, MailAt
<1>4. PICK entry \in wip :
          LET job == entry.job
              r   == OneMoreResult(job.key, job.index, m.data[2])
          IN  /\ Text(job.id) = m.data[1]
              /\ wip' = wip \ {entry}
              /\ IF r.nDone = Len(r.results)
                 THEN /\ wire' = b.rest \cup
                            {Routed("answers", Message(r.address, "RESULT", r.results))}
                      /\ requests' = [k \in DOMAIN requests \ {job.key} |-> requests[k]]
                 ELSE wire' = b.rest /\ requests' = [requests EXCEPT ![job.key] = r]
              /\ UNCHANGED <<asked, pending, answers, workers, jobQueue, nextJobId,
                             monitored, alive, currentJob>>
  BY <1>1 DEF receiveResult, OneMoreResult
<1>5. PICK r : r = OneMoreResult(entry.job.key, entry.job.index, m.data[2])
  OBVIOUS
<1>6. /\ Text(entry.job.id) = m.data[1] /\ wip' = wip \ {entry}
      /\ UNCHANGED <<asked, pending, answers, workers, jobQueue, nextJobId, currentJob>>
  BY <1>4
<1>7. CASE r.nDone = Len(r.results)
  <2>1. /\ wire' = (wire \ {p}) \cup {Routed("answers", Message(r.address, "RESULT", r.results))}
        /\ requests' = [x \in DOMAIN requests \ {entry.job.key} |-> requests[x]]
    BY <1>2, <1>4, <1>5, <1>7
  <2> QED
    BY <1>2, <1>3, <1>5, <1>6, <1>7, <2>1, LastResult
<1>8. CASE r.nDone # Len(r.results)
  <2>1. wire' = wire \ {p} /\ requests' = [requests EXCEPT ![entry.job.key] = r]
    BY <1>2, <1>4, <1>5, <1>8
  <2> QED
    BY <1>2, <1>3, <1>5, <1>6, <1>8, <2>1, EarlyResult
<1> QED
  BY <1>7, <1>8

-----------------------------------------------------------------------------
(* The invariant is one *)

\* Before anything is sent, the invariant holds.
LEMMA RoutingStarts == RoutingIdle => RoutingInv
<1> SUFFICES ASSUME RoutingIdle PROVE RoutingInv
  OBVIOUS
<1>1. /\ wire = {} /\ answers = {} /\ asked = 0 /\ workers = <<>> /\ requests = <<>>
      /\ jobQueue = {} /\ wip = {} /\ nextJobId = 0
      /\ currentJob = [c \in Client |-> NoJob]
  BY DEF RoutingIdle
<1>2. DOMAIN <<>> = {}
  OBVIOUS
<1>3. Unfinished = {}
  BY <1>1 DEF Unfinished
<1>4. MailInv /\ OneUnderWay /\ RequestsInv
  BY <1>1, <1>2 DEF MailInv, OneUnderWay, UnderWay, RequestsInv
<1>5. JobsInv
  <2>1. nextJobId \in Nat /\ 0..(nextJobId - 1) = {}
    BY <1>1
  <2> QED
    BY <1>1, <1>3, <2>1 DEF JobsInv
<1>6. ClientsInv
  BY <1>1, <1>2 DEF ClientsInv
<1>7. AnswersInv /\ asked \in 0..Len(Submissions)
  BY <1>1, RoutingAssumption DEF AnswersInv
<1> QED
  BY <1>4, <1>5, <1>6, <1>7 DEF RoutingInv

\* It is preserved by every step of the requesters, the Delegator, the heartbeat thread
\* and the clients, ...
LEMMA RoutingStep ==
    ASSUME RoutingInv, RoutingNext
    PROVE  RoutingInv'
<1>1. CASE asked < Len(Submissions) /\ submit(Submissions[asked + 1])
  BY <1>1, SubmitStep
<1>2. CASE \E r \in Requester : retrieve(r)
  BY <1>2, RetrieveStep
<1>3. CASE DelegatorStep
  <2>1. CASE \E b \in bind(Server("requests"), "REQUEST") : receiveRequest(b.m, b.rest)
    BY <2>1, ReceiveRequestStep
  <2>2. CASE \E b \in bind(Server("network"), "HELLO") : fNewWorker(b.m, b.rest)
    BY <2>2, NewWorkerStep
  <2>3. CASE \E b \in bind(Server("network"), "RESULT") : receiveResult(b.m, b.rest)
    BY <2>3, ReceiveResultStep
  <2>4. CASE \E b \in bind(Server("fromHeartbeat"), "HEARTBEAT") : fForwardToNetwork(b.m, b.rest)
    BY <2>4, ForwardHeartbeatStep
  <2>5. CASE \E w \in DOMAIN workers, job \in jobQueue : sendJob(w, job)
    BY <2>5, SendJobStep
  <2> QED
    BY <1>3, <2>1, <2>2, <2>3, <2>4, <2>5 DEF DelegatorStep
<1>4. CASE \E b \in bind(Server("heartbeat"), "HELLO") : insertClient(b.m, b.rest)
  BY <1>4, InsertClientStep
<1>5. CASE \E c \in Client : SayHello(c) \/ ClientStep(c) \/ nextJob(c) \/ submitResult(c)
  BY <1>5, HelloStep, ClientSteps, NextJobStep, SubmitResultStep
<1> QED
  BY <1>1, <1>2, <1>3, <1>4, <1>5 DEF RoutingNext

\* ... and by the steps of the other parts of the system.
LEMMA RoutingRests ==
    ASSUME RoutingInv, UNCHANGED routingVars
    PROVE  RoutingInv'
<1>1. /\ UNCHANGED <<asked, pending, answers, requests, jobQueue, wip, nextJobId>>
      /\ UNCHANGED <<workers, currentJob, wire>>
  BY DEF routingVars, delegatorVars
<1> DEFINE gone == {}
           come == {}
<1>2. QuietStep(gone, come)
  BY <1>1 DEF QuietStep
<1> HIDE DEF gone, come
<1>3. Kept /\ (ClientsInv' => RoutingInv')
  BY <1>2, QuietSteps
<1> QED
  BY <1>1, <1>3, ClientsKept DEF RoutingInv

\* Every message that may be there has a callback and an addressee.
LEMMA MailUnderstood ==
    ASSUME asked \in 0..Len(Submissions), NEW at, NEW m, Mail(at, m)
    PROVE  /\ <<at[1], m.subject>> \in Understood
           /\ at[1] = "answers" => at[2] \in {Identity(r) : r \in Requester}
           /\ at[1] = "client" => at[2] \in {Identity(c) : c \in Client}
<1>1. \A a, s, d : Message(a, s, d).subject = s
  BY DEF Message
<1>2. CASE RequestMail(at, m)
  <2>1. at = Server("requests") /\ m.subject = "REQUEST"
    BY <1>1, <1>2 DEF RequestMail
  <2> QED
    BY <2>1 DEF Understood, Server, At
<1>3. CASE AnswerMail(at, m)
  <2>1. PICK i \in 1..asked : /\ at = At("answers", Identity(Submissions[i].requester))
                              /\ m.subject = "RESULT"
    BY <1>1, <1>3 DEF AnswerMail
  <2>2. i \in DOMAIN Submissions
    BY RoutingAssumption
  <2> QED
    BY <2>1, <2>2 DEF Understood, At, Requester
<1>4. CASE ToClientMail(at, m)
  <2>1. PICK c \in Client :
            \/ at = At("client", Identity(c)) /\ m.subject \in {"JOB", "HEARTBEAT"}
            \/ at = At("minion", c) /\ m.subject = "JOB"
            \/ at = Server("fromHeartbeat") /\ m.subject = "HEARTBEAT"
    BY <1>1, <1>4 DEF ToClientMail
  <2> QED
    BY <2>1 DEF Understood, Server, At
<1>5. CASE FromClientMail(at, m)
  <2>1. PICK c \in Client :
            \/ /\ at \in {At("fromMinion", c), Server("network"), Server("heartbeat")}
               /\ m.subject = "HELLO"
            \/ /\ at \in {At("fromMinion", c), Server("network")}
               /\ m.subject = "RESULT"
    BY <1>5 DEF FromClientMail
  <2> QED
    BY <2>1 DEF Understood, Server, At
<1> QED
  BY <1>2, <1>3, <1>4, <1>5 DEF Mail

\* The invariant says more than the property.
LEMMA RoutingInvImpliesAnswers == RoutingInv => AnswersReachAsker
<1> SUFFICES ASSUME RoutingInv PROVE AnswersReachAsker
  OBVIOUS
<1>1. AnswersInv /\ MailInv /\ asked \in 0..Len(Submissions)
  BY DEF RoutingInv
<1>2. ASSUME NEW p \in wire
      PROVE  /\ <<p.at[1], Received(p.frames).subject>> \in Understood
             /\ p.at[1] = "answers" => p.at[2] \in {Identity(r) : r \in Requester}
             /\ p.at[1] = "client" => p.at[2] \in {Identity(c) : c \in Client}
  <2>1. Mail(p.at, Received(p.frames))
    BY <1>1 DEF MailInv
  <2> QED
    BY <1>1, <2>1, MailUnderstood
<1> QED
  BY <1>1, <1>2 DEF AnswersInv, AnswersReachAsker

-----------------------------------------------------------------------------
(* The theorem *)

\* An answer comes to the requester, and under the id, it was asked for, with the results
\* of that request's own sample in the order of the types; and every message on the way
\* is addressed to someone who has a callback for it (socket.cpp:92-165, router.cpp:71):
\* for any submissions, clients and job types, and whatever overtakes what.
THEOREM AnswersAlwaysReachAsker == Spec => []AnswersReachAsker
<1>1. Init => RoutingInv
  BY RoutingStarts DEF Init
<1>2. RoutingInv /\ [Next]_algorithmsVars => RoutingInv'
  BY RoutingStep, RoutingRests
     DEF Next, RoutingRuns, SchedulingRuns, ProposalsRun, AdaptationRuns, StatisticsRun,
         ChainArrayRuns, algorithmsVars
<1> QED
  BY <1>1, <1>2, RoutingInvImpliesAnswers, PTL DEF Spec, algorithmsVars
=============================================================================
