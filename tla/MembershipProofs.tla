-------------------------- MODULE MembershipProofs --------------------------
(***************************************************************************)
(* Theorems of Membership, for any workers, time-outs and bounds: the two  *)
(* threads' opinions of who is a worker never drift apart unnoticed.       *)
(***************************************************************************)
EXTENDS Membership, FiniteSetTheorems, SequenceTheorems, TLAPS

\* What the PAIR socket carries.
Carried == [subject : Subject, worker : Worker]

-----------------------------------------------------------------------------
(* The places of messages on a channel *)

LEMMA MessageIsCarried ==
    ASSUME NEW s \in Subject, NEW w \in Worker
    PROVE  Message(s, w) \in Carried
BY DEF Message, Carried

LEMMA MessagesDiffer ==
    ASSUME NEW s, NEW t, NEW v, NEW w, Message(s, v) = Message(t, w)
    PROVE  s = t /\ v = w
<1>1. Message(s, v).subject = s /\ Message(s, v).worker = v
  BY DEF Message
<1>2. Message(t, w).subject = t /\ Message(t, w).worker = w
  BY DEF Message
<1> QED
  BY <1>1, <1>2

\* A message at the end leaves the others where they are.
LEMMA OnAppend ==
    ASSUME NEW q \in Seq(Carried), NEW m \in Carried, NEW s, NEW w
    PROVE  /\ m # Message(s, w) => On(Append(q, m), s, w) = On(q, s, w)
           /\ m = Message(s, w) => Len(q) + 1 \in On(Append(q, m), s, w)
           /\ \A i \in On(Append(q, m), s, w) : i <= Len(q) + 1
<1>1. /\ Len(q) \in Nat /\ DOMAIN q = 1..Len(q)
      /\ Append(q, m) \in Seq(Carried)
      /\ Len(Append(q, m)) = Len(q) + 1
      /\ \A i \in 1..Len(q) : Append(q, m)[i] = q[i]
      /\ Append(q, m)[Len(q) + 1] = m
  BY LenProperties, AppendProperties
<1>2. DOMAIN Append(q, m) = 1..(Len(q) + 1)
  BY <1>1, LenProperties
<1> QED
  BY <1>1, <1>2 DEF On

\* Taking the first message moves the others up by one place.
LEMMA OnTail ==
    ASSUME NEW q \in Seq(Carried), q # <<>>, NEW s, NEW w
    PROVE  /\ \A i \in On(q, s, w) : i \in Nat \ {0}
           /\ \A i \in On(Tail(q), s, w) : i \in Nat \ {0} /\ i + 1 \in On(q, s, w)
           /\ \A i \in On(q, s, w) : i # 1 => i - 1 \in On(Tail(q), s, w)
           /\ 1 \in On(q, s, w) <=> Head(q) = Message(s, w)
<1>1. /\ Len(q) \in Nat \ {0} /\ DOMAIN q = 1..Len(q)
      /\ Tail(q) \in Seq(Carried) /\ Len(Tail(q)) = Len(q) - 1
      /\ \A i \in 1..Len(Tail(q)) : Tail(q)[i] = q[i + 1]
      /\ Head(q) = q[1]
  BY EmptySeq, LenProperties, HeadTailProperties
<1>2. DOMAIN Tail(q) = 1..(Len(q) - 1)
  BY <1>1, LenProperties
<1>3. \A i \in 1..(Len(q) - 1) : Tail(q)[i] = q[i + 1]
  BY <1>1
<1>4. ASSUME NEW i \in On(q, s, w), i # 1 PROVE i - 1 \in On(Tail(q), s, w)
  <2>1. i \in 1..Len(q) /\ q[i] = Message(s, w)
    BY <1>1 DEF On
  <2>2. i - 1 \in 1..(Len(q) - 1) /\ (i - 1) + 1 = i
    BY <1>1, <1>4, <2>1
  <2> QED
    BY <1>2, <1>3, <2>1, <2>2 DEF On
<1>5. ASSUME NEW i \in On(Tail(q), s, w)
      PROVE  i \in Nat \ {0} /\ i + 1 \in On(q, s, w)
  <2>1. i \in 1..(Len(q) - 1) /\ Tail(q)[i] = Message(s, w)
    BY <1>2 DEF On
  <2>2. i \in Nat \ {0} /\ i + 1 \in 1..Len(q)
    BY <1>1, <2>1
  <2> QED
    BY <1>1, <1>3, <2>1, <2>2 DEF On
<1>6. 1 \in On(q, s, w) <=> Head(q) = Message(s, w)
  BY <1>1 DEF On
<1>7. \A i \in On(q, s, w) : i \in Nat \ {0}
  BY <1>1 DEF On
<1> QED
  BY <1>4, <1>5, <1>6, <1>7

\* Messages at the end are there, and the others remain.
LEMMA OnConcat ==
    ASSUME NEW q \in Seq(Carried), NEW r \in Seq(Carried), NEW s, NEW w
    PROVE  /\ On(q, s, w) # {} => On(q \o r, s, w) # {}
           /\ On(r, s, w) # {} => On(q \o r, s, w) # {}
<1>1. /\ Len(q) \in Nat /\ DOMAIN q = 1..Len(q)
      /\ Len(r) \in Nat /\ DOMAIN r = 1..Len(r)
  BY LenProperties
<1>2. /\ q \o r \in Seq(Carried) /\ Len(q \o r) = Len(q) + Len(r)
      /\ \A i \in 1..(Len(q) + Len(r)) :
            (q \o r)[i] = IF i <= Len(q) THEN q[i] ELSE r[i - Len(q)]
  BY ConcatProperties
<1>3. DOMAIN (q \o r) = 1..(Len(q) + Len(r))
  BY <1>2, LenProperties
<1>4. ASSUME NEW i \in On(q, s, w) PROVE i \in On(q \o r, s, w)
  <2>1. i \in 1..(Len(q) + Len(r)) /\ i <= Len(q) /\ q[i] = Message(s, w)
    BY <1>1, <1>4 DEF On
  <2> QED
    BY <1>2, <1>3, <2>1 DEF On
<1>5. ASSUME NEW i \in On(r, s, w) PROVE Len(q) + i \in On(q \o r, s, w)
  <2>1. i \in 1..Len(r) /\ r[i] = Message(s, w)
    BY <1>1, <1>5 DEF On
  <2>2. /\ Len(q) + i \in 1..(Len(q) + Len(r)) /\ ~(Len(q) + i <= Len(q))
        /\ (Len(q) + i) - Len(q) = i
    BY <1>1, <2>1
  <2>3. (q \o r)[Len(q) + i] = r[i]
    BY <1>2, <2>2
  <2> QED
    BY <1>3, <2>1, <2>2, <2>3 DEF On
<1> QED
  BY <1>4, <1>5

\* onPoll has a message for each worker of the set it has ordered.
LEMMA MessagesToAll ==
    ASSUME NEW S \in SUBSET Worker, NEW q \in SetToSeqs(S), NEW s \in Subject
    PROVE  /\ Messages(s, q) \in Seq(Carried)
           /\ \A w \in S : On(Messages(s, q), s, w) # {}
<1> DEFINE n == Cardinality(S)
<1>1. IsFiniteSet(S) /\ n \in Nat
  BY HeartbeatAssumption, FS_Subset, FS_CardinalityType
<1>2. q \in [1..n -> S] /\ \A i, j \in 1..n : i # j => q[i] # q[j]
  BY DEF SetToSeqs
<1>3. \A w \in S : \E i \in 1..n : q[i] = w
  <2>1. q \in Injection(1..n, S)
    BY <1>2 DEF Injection, IsInjective
  <2>2. IsFiniteSet(1..n) /\ Cardinality(1..n) = n
    BY <1>1, FS_Interval
  <2>3. q \in Surjection(1..n, S)
    BY <1>1, <2>1, <2>2, FS_Injection
  <2> QED
    BY <1>2, <2>3 DEF Surjection
<1> HIDE DEF n
<1>4. /\ Messages(s, q) \in [1..n -> Carried]
      /\ \A i \in 1..n : Messages(s, q)[i] = Message(s, q[i])
  BY <1>2, MessageIsCarried DEF Messages
<1>5. Messages(s, q) \in Seq(Carried)
  BY <1>1, <1>4, SeqDef
<1>6. ASSUME NEW w \in S PROVE On(Messages(s, q), s, w) # {}
  <2>1. PICK i \in 1..n : q[i] = w
    BY <1>3
  <2>2. i \in On(Messages(s, q), s, w)
    BY <1>4, <2>1 DEF On
  <2> QED
    BY <2>2
<1> QED
  BY <1>5, <1>6
-----------------------------------------------------------------------------
(* The invariant *)

\* TypeOK bounds the values of hellos; that it is a function is said here.
HellosType == hellos \in [Worker -> Nat]

Inv == TypeOK /\ HellosType /\ ConnectedIsMonitored

\* TypeOK, by what the three groups of actions change.
ChannelsOK == toHB \in Seq(Carried) /\ fromHB \in Seq(Carried)

HeartbeatOK ==
    /\ clients \subseteq Worker /\ \A w \in clients : silence[w] # NoEntry
    /\ silence \in [Worker -> 0..(Timeout + 1) \cup {NoEntry}]
    /\ sinceSend \in 0..Rate
    /\ polling \in BOOLEAN /\ hbCrashed \in BOOLEAN

NetOK ==
    /\ connected \subseteq Worker
    /\ net \in [Worker -> Seq(Subject)]
    /\ \A w \in Worker : hellos[w] \in 0..MaxHellos[w]
    /\ alive \subseteq Worker

LEMMA TypeParts == TypeOK <=> ChannelsOK /\ HeartbeatOK /\ NetOK
BY DEF TypeOK, ChannelsOK, HeartbeatOK, NetOK, Carried

LEMMA Bounds ==
    /\ Timeout \in Nat /\ Rate \in Nat /\ NoEntry \notin Nat
    /\ MaxHellos \in [Worker -> Nat] /\ IsFiniteSet(Worker)
BY HeartbeatAssumption, MembershipAssumption

-----------------------------------------------------------------------------
(* What becomes of a worker's membership *)

\* A message that does not decide about u leaves what will be of u as it is.
LEMMA SendingLeaves ==
    ASSUME ChannelsOK, NEW s \in Subject, NEW w \in Worker, NEW u \in Worker,
           s = "HEARTBEAT" \/ u # w,
           toHB' = Append(toHB, Message(s, w)), clients' = clients,
           WillBeClient(u)
    PROVE  WillBeClient(u)'
<1>1. toHB \in Seq(Carried) /\ Message(s, w) \in Carried
  BY MessageIsCarried DEF ChannelsOK
<1>2. Message(s, w) # Message("HELLO", u) /\ Message(s, w) # Message("GOODBYE", u)
  BY MessagesDiffer
<1>3. /\ On(toHB', "HELLO", u) = On(toHB, "HELLO", u)
      /\ On(toHB', "GOODBYE", u) = On(toHB, "GOODBYE", u)
  BY <1>1, <1>2, OnAppend
<1> QED
  BY <1>3 DEF WillBeClient

\* A HELLO on its way is the last word.
LEMMA HelloDecides ==
    ASSUME ChannelsOK, NEW w \in Worker,
           toHB' = Append(toHB, Message("HELLO", w))
    PROVE  WillBeClient(w)'
<1>1. toHB \in Seq(Carried) /\ Message("HELLO", w) \in Carried
  BY MessageIsCarried DEF ChannelsOK, Subject
<1>2. /\ Len(toHB) + 1 \in On(toHB', "HELLO", w)
      /\ \A i \in On(toHB', "HELLO", w) \cup On(toHB', "GOODBYE", w) : i <= Len(toHB) + 1
  BY <1>1, OnAppend
<1> QED
  BY <1>2 DEF WillBeClient

\* The heartbeat thread, reading a message, becomes what the message makes of it; the
\* rest of the channel decides as before.
LEMMA TakingKeeps ==
    ASSUME ChannelsOK, NEW s \in Subject, NEW w \in Worker, Takes(s, w),
           NEW u \in Worker, WillBeClient(u),
           \/ (s = "HEARTBEAT" \/ u # w) /\ (u \in clients => u \in clients')
           \/ s = "HELLO" /\ u = w /\ u \in clients'
           \/ s = "GOODBYE" /\ u = w
    PROVE  WillBeClient(u)'
<1> DEFINE H  == On(toHB, "HELLO", u)
           G  == On(toHB, "GOODBYE", u)
           H1 == On(Tail(toHB), "HELLO", u)
           G1 == On(Tail(toHB), "GOODBYE", u)
<1>1. toHB \in Seq(Carried) /\ toHB # <<>> /\ Head(toHB) = Message(s, w) /\ toHB' = Tail(toHB)
  BY DEF ChannelsOK, Takes
<1>2. /\ \A i \in H \cup G : i \in Nat \ {0}
      /\ \A i \in H1 \cup G1 : i \in Nat \ {0}
      /\ \A i \in H1 : i + 1 \in H
      /\ \A i \in G1 : i + 1 \in G
      /\ \A i \in H : i # 1 => i - 1 \in H1
      /\ \A i \in G : i # 1 => i - 1 \in G1
      /\ 1 \in H => s = "HELLO" /\ w = u
      /\ 1 \in G <=> s = "GOODBYE" /\ w = u
  <2>1. /\ 1 \in H <=> Message(s, w) = Message("HELLO", u)
        /\ 1 \in G <=> Message(s, w) = Message("GOODBYE", u)
    BY <1>1, OnTail
  <2>2. /\ 1 \in H => s = "HELLO" /\ w = u
        /\ 1 \in G <=> s = "GOODBYE" /\ w = u
    BY <2>1, MessagesDiffer
  <2> QED
    BY <1>1, <2>2, OnTail
<1>3. /\ WillBeClient(u) <=> IF H \cup G = {} THEN u \in clients
                             ELSE \E i \in H : \A j \in H \cup G : j <= i
      /\ WillBeClient(u)' <=> IF H1 \cup G1 = {} THEN u \in clients'
                              ELSE \E i \in H1 : \A j \in H1 \cup G1 : j <= i
  BY <1>1 DEF WillBeClient
<1> HIDE DEF H, G, H1, G1
<1>4. CASE H1 \cup G1 = {}
  <2>1. CASE H \cup G = {}
    BY <1>2, <1>3, <1>4, <2>1
  <2>2. CASE H \cup G # {}
    <3>1. PICK i \in H : \A j \in H \cup G : j <= i
      BY <1>3, <2>2
    <3>2. i = 1
      BY <1>2, <1>4
    <3> QED
      BY <1>2, <1>3, <1>4, <3>2
  <2> QED
    BY <2>1, <2>2
<1>5. CASE H1 \cup G1 # {}
  <2>1. PICK k \in H1 \cup G1 : TRUE
    BY <1>5
  <2>2. k \in Nat \ {0} /\ k + 1 \in H \cup G
    BY <1>2
  <2>3. PICK i \in H : \A j \in H \cup G : j <= i
    BY <1>3, <2>2
  <2>4. i \in Nat /\ k + 1 <= i
    BY <1>2, <2>2, <2>3
  <2>5. i - 1 \in H1
    BY <1>2, <2>2, <2>4
  <2>6. ASSUME NEW j \in H1 \cup G1 PROVE j <= i - 1
    <3>1. j \in Nat /\ j + 1 \in H \cup G
      BY <1>2
    <3>2. j + 1 <= i
      BY <2>3, <3>1
    <3> QED
      BY <2>4, <3>1, <3>2
  <2> QED
    BY <1>3, <1>5, <2>5, <2>6
<1> QED
  BY <1>4, <1>5

\* What Takes does to the types.
LEMMA TakesTypes ==
    ASSUME TypeOK, NEW s, NEW w \in Worker, Takes(s, w)
    PROVE  ChannelsOK' /\ polling' \in BOOLEAN /\ UNCHANGED <<sinceSend, fromHB>>
<1>1. toHB \in Seq(Carried) /\ toHB # <<>> /\ toHB' = Tail(toHB)
  BY TypeParts DEF ChannelsOK, Takes
<1>2. Tail(toHB) \in Seq(Carried)
  BY <1>1, HeadTailProperties, LenProperties
<1> QED
  BY <1>1, <1>2, TypeParts DEF ChannelsOK, Takes
-----------------------------------------------------------------------------
(* Each action keeps the invariant *)

\* The actions that leave the heartbeat thread and the Delegator's list alone.
LEMMA OpinionsUnchanged ==
    ASSUME ConnectedIsMonitored,
           UNCHANGED <<clients, toHB, fromHB, connected>>
    PROVE  ConnectedIsMonitored'
BY DEF ConnectedIsMonitored, WillBeClient, On

LEMMA WorkerStepKeeps ==
    ASSUME Inv, NEW w \in Worker, WorkerStep(w)
    PROVE  Inv'
<1>1. ASSUME NEW s \in Subject, Sends(w, s),
             hellos' = hellos
             \/ (hellos[w] < MaxHellos[w] /\ hellos' = [hellos EXCEPT ![w] = @ + 1]),
             alive' = alive
      PROVE  Inv'
  <2>1. UNCHANGED <<clients, silence, sinceSend, polling, hbCrashed, toHB, fromHB, connected>>
    BY <1>1 DEF Sends, hbVars
  <2>2. net' \in [Worker -> Seq(Subject)]
    <3>1. net \in [Worker -> Seq(Subject)] /\ net' = [net EXCEPT ![w] = Append(@, s)]
      BY <1>1 DEF Inv, TypeOK, Sends
    <3>2. Append(net[w], s) \in Seq(Subject)
      BY <3>1, AppendProperties
    <3> QED
      BY <3>1, <3>2
  <2>3. HellosType' /\ \A v \in Worker : hellos'[v] \in 0..MaxHellos[v]
    <3>1. hellos \in [Worker -> Nat] /\ \A v \in Worker : hellos[v] \in 0..MaxHellos[v]
      BY DEF Inv, HellosType, TypeOK
    <3> QED
      BY <1>1, <3>1, Bounds DEF HellosType
  <2>4. TypeOK'
    BY <1>1, <2>1, <2>2, <2>3 DEF Inv, TypeOK
  <2> QED
    BY <2>1, <2>3, <2>4, OpinionsUnchanged DEF Inv
<1>2. CASE SayHello(w)
  BY <1>1, <1>2 DEF SayHello, Subject
<1>3. CASE SendHeartbeat(w)
  BY <1>1, <1>3 DEF SendHeartbeat, Subject
<1>4. CASE SayGoodbye(w)
  BY <1>1, <1>4 DEF SayGoodbye, Subject
<1>5. CASE Die(w)
  <2>1. /\ UNCHANGED <<clients, silence, sinceSend, polling, hbCrashed, toHB, fromHB>>
        /\ UNCHANGED <<connected, net, hellos>> /\ alive' \subseteq Worker
    BY <1>5 DEF Die, hbVars, Inv, TypeOK
  <2>2. TypeOK' /\ HellosType'
    BY <2>1 DEF Inv, TypeOK, HellosType
  <2> QED
    BY <2>1, <2>2, OpinionsUnchanged DEF Inv
<1> QED
  BY <1>2, <1>3, <1>4, <1>5 DEF WorkerStep

\* What forwarding a message does to the types.
LEMMA ForwardsTypes ==
    ASSUME Inv, NEW s \in Subject, NEW w \in Worker, Forwards(w, s),
           connected' \subseteq Worker
    PROVE  /\ TypeOK' /\ HellosType'
           /\ toHB' = Append(toHB, Message(s, w)) /\ UNCHANGED <<clients, fromHB>>
<1>1. /\ toHB' = Append(toHB, Message(s, w)) 
      /\ net' = [net EXCEPT ![w] = Tail(@)] /\ net[w] # <<>>
      /\ UNCHANGED <<hellos, alive, clients, silence, sinceSend, polling, hbCrashed, fromHB>>
  BY DEF Forwards
<1>2. toHB \in Seq(Carried) /\ Message(s, w) \in Carried
  BY TypeParts, MessageIsCarried DEF Inv, ChannelsOK
<1>3. toHB' \in Seq(Carried)
  BY <1>1, <1>2, AppendProperties
<1>4. ChannelsOK'
  BY <1>1, <1>2, <1>3, Bounds, TypeParts DEF Inv, ChannelsOK
<1>5. net' \in [Worker -> Seq(Subject)]
  <2>1. net \in [Worker -> Seq(Subject)]
    BY DEF Inv, TypeOK
  <2>2. Tail(net[w]) \in Seq(Subject)
    BY <1>1, <2>1, HeadTailProperties
  <2> QED
    BY <1>1, <2>1, <2>2
<1>6. NetOK' /\ HeartbeatOK'
  BY <1>1, <1>5, TypeParts DEF Inv, NetOK, HeartbeatOK
<1>7. TypeOK'
  BY <1>4, <1>6, TypeParts DEF TypeOK, ChannelsOK, HeartbeatOK, NetOK, Carried
<1> QED
  BY <1>1, <1>7 DEF Inv, HellosType

LEMMA FromNetworkKeeps ==
    ASSUME Inv, NEW w \in Worker, FromNetwork(w)
    PROVE  Inv'
<1>0. ChannelsOK /\ connected \subseteq Worker
  BY TypeParts DEF Inv, NetOK
<1>1. CASE HelloArrives(w)
  <2>1. "HELLO" \in Subject /\ Forwards(w, "HELLO") /\ connected' = connected \cup {w}
    BY <1>1 DEF HelloArrives, Subject
  <2>2. /\ TypeOK' /\ HellosType'
        /\ toHB' = Append(toHB, Message("HELLO", w)) /\ UNCHANGED <<clients, fromHB>>
    BY <1>0, <2>1, ForwardsTypes
  <2>3. ConnectedIsMonitored'
    <3> SUFFICES ASSUME NEW u \in connected'
                 PROVE  WillBeClient(u)' \/ On(fromHB', "GOODBYE", u) # {}
      BY DEF ConnectedIsMonitored
    <3>1. CASE u = w
      BY <1>0, <2>2, <3>1, HelloDecides
    <3>2. CASE u # w
      <4>1. u \in connected /\ u \in Worker
        BY <1>0, <2>1, <3>2
      <4>2. WillBeClient(u) \/ On(fromHB, "GOODBYE", u) # {}
        BY <4>1 DEF Inv, ConnectedIsMonitored
      <4>3. WillBeClient(u) => WillBeClient(u)'
        BY <1>0, <2>1, <2>2, <3>2, <4>1, SendingLeaves
      <4> QED
        BY <2>2, <4>2, <4>3
    <3> QED
      BY <3>1, <3>2
  <2> QED
    BY <2>2, <2>3 DEF Inv
<1>2. ASSUME NEW s \in Subject, Forwards(w, s), connected' \subseteq connected,
             s = "HEARTBEAT" \/ w \notin connected'
      PROVE  Inv'
  <2>1. /\ TypeOK' /\ HellosType'
        /\ toHB' = Append(toHB, Message(s, w)) /\ UNCHANGED <<clients, fromHB>>
    BY <1>0, <1>2, ForwardsTypes
  <2>2. ConnectedIsMonitored'
    <3> SUFFICES ASSUME NEW u \in connected'
                 PROVE  WillBeClient(u)' \/ On(fromHB', "GOODBYE", u) # {}
      BY DEF ConnectedIsMonitored
    <3>1. u \in connected /\ u \in Worker /\ (s = "HEARTBEAT" \/ u # w)
      BY <1>0, <1>2
    <3>2. WillBeClient(u) \/ On(fromHB, "GOODBYE", u) # {}
      BY <3>1 DEF Inv, ConnectedIsMonitored
    <3>3. WillBeClient(u) => WillBeClient(u)'
      BY <1>0, <2>1, <3>1, SendingLeaves
    <3> QED
      BY <2>1, <3>2, <3>3
  <2> QED
    BY <2>1, <2>2 DEF Inv
<1>3. CASE HeartbeatArrives(w)
  BY <1>2, <1>3 DEF HeartbeatArrives, Subject
<1>4. CASE GoodbyeArrives(w)
  BY <1>2, <1>4 DEF GoodbyeArrives, Subject
<1> QED
  BY <1>1, <1>3, <1>4 DEF FromNetwork

\* The Delegator takes a message of the heartbeat thread: only a GOODBYE is lost by
\* it, and that disconnects the worker.
LEMMA FromHeartbeatKeeps ==
    ASSUME Inv, FromHeartbeat
    PROVE  Inv'
<1>1. /\ fromHB # <<>> /\ fromHB' = Tail(fromHB)
      /\ connected' = IF Head(fromHB).subject = "GOODBYE"
                      THEN connected \ {Head(fromHB).worker} ELSE connected
      /\ UNCHANGED <<net, hellos, alive, clients, silence, sinceSend, polling, hbCrashed, toHB>>
  BY DEF FromHeartbeat
<1>2. /\ fromHB \in Seq(Carried) /\ Head(fromHB) \in Carried
      /\ Tail(fromHB) \in Seq(Carried)
  BY <1>1, TypeParts, HeadTailProperties DEF Inv, ChannelsOK
<1>3. TypeOK' /\ HellosType'
  BY <1>1, <1>2 DEF Inv, TypeOK, HellosType, Carried
<1>4. ConnectedIsMonitored'
  <2> SUFFICES ASSUME NEW u \in connected'
               PROVE  WillBeClient(u)' \/ On(fromHB', "GOODBYE", u) # {}
    BY DEF ConnectedIsMonitored
  <2>1. u \in connected
    BY <1>1
  <2>2. WillBeClient(u) \/ On(fromHB, "GOODBYE", u) # {}
    BY <2>1 DEF Inv, ConnectedIsMonitored
  <2>3. WillBeClient(u) => WillBeClient(u)'
    BY <1>1 DEF WillBeClient
  <2>4. Head(fromHB) # Message("GOODBYE", u)
    BY <1>1 DEF Message
  <2>5. On(fromHB, "GOODBYE", u) # {} => On(Tail(fromHB), "GOODBYE", u) # {}
    BY <1>1, <1>2, <2>4, OnTail
  <2> QED
    BY <1>1, <2>2, <2>3, <2>5
<1> QED
  BY <1>3, <1>4 DEF Inv

\* The heartbeat thread takes a message.
LEMMA TakesKeeps ==
    ASSUME Inv, NEW w \in Worker,
           InsertClient(w) \/ DeleteClient(w) \/ ReceiveHeartbeat(w), UNCHANGED netVars
    PROVE  Inv'
<1>0. /\ ChannelsOK /\ connected \subseteq Worker /\ NoEntry \notin Nat /\ Timeout \in Nat
      /\ clients \subseteq Worker /\ silence \in [Worker -> 0..(Timeout + 1) \cup {NoEntry}]
      /\ UNCHANGED <<connected, net, hellos, alive>>
  BY TypeParts, Bounds DEF Inv, TypeOK, netVars
<1>1. ASSUME NEW s \in Subject, Takes(s, w), hbCrashed' \in BOOLEAN,
             clients' \subseteq Worker, silence' \in [Worker -> 0..(Timeout + 1) \cup {NoEntry}],
             \A u \in clients' : silence'[u] # NoEntry,
             \A u \in clients : u # w => u \in clients',
             s = "HEARTBEAT" => clients' = clients,
             s = "HELLO" => w \in clients'
      PROVE  Inv'
  <2>1. ChannelsOK' /\ polling' \in BOOLEAN /\ UNCHANGED <<sinceSend, fromHB>>
    BY <1>1, TakesTypes DEF Inv
  <2>2. HeartbeatOK' /\ NetOK' /\ HellosType'
    BY <1>0, <1>1, <2>1, TypeParts DEF Inv, HeartbeatOK, NetOK, HellosType
  <2>3. TypeOK'
    BY <2>1, <2>2 DEF TypeOK, ChannelsOK, HeartbeatOK, NetOK, Carried
  <2>4. ConnectedIsMonitored'
    <3> SUFFICES ASSUME NEW u \in connected'
                 PROVE  WillBeClient(u)' \/ On(fromHB', "GOODBYE", u) # {}
      BY DEF ConnectedIsMonitored
    <3>1. u \in connected /\ u \in Worker
      BY <1>0
    <3>2. WillBeClient(u) \/ On(fromHB, "GOODBYE", u) # {}
      BY <3>1 DEF Inv, ConnectedIsMonitored
    <3>3. \/ (s = "HEARTBEAT" \/ u # w) /\ (u \in clients => u \in clients')
          \/ s = "HELLO" /\ u = w /\ u \in clients'
          \/ s = "GOODBYE" /\ u = w
      BY <1>1 DEF Subject
    <3>4. WillBeClient(u) => WillBeClient(u)'
      BY <1>0, <1>1, <3>1, <3>3, TakingKeeps
    <3> QED
      BY <2>1, <3>2, <3>4
  <2> QED
    BY <2>2, <2>3, <2>4 DEF Inv
<1>2. \A u \in clients : silence[u] # NoEntry
  BY DEF Inv, TypeOK
<1>3. CASE InsertClient(w)
  <2>1. /\ Takes("HELLO", w) /\ "HELLO" \in Subject /\ hbCrashed' \in BOOLEAN
        /\ clients' = clients \cup {w}
        /\ silence' = [silence EXCEPT ![w] = IF @ = NoEntry THEN 0 ELSE @]
    BY <1>3 DEF InsertClient, Subject, Inv, TypeOK
  <2>2. /\ silence' \in [Worker -> 0..(Timeout + 1) \cup {NoEntry}]
        /\ silence'[w] # NoEntry
        /\ \A u \in Worker : u # w => silence'[u] = silence[u]
    BY <1>0, <2>1
  <2>3. \A u \in clients' : silence'[u] # NoEntry
    BY <1>0, <1>2, <2>1, <2>2
  <2> QED
    BY <1>0, <1>1, <2>1, <2>2, <2>3
<1>4. CASE DeleteClient(w)
  <2>1. /\ Takes("GOODBYE", w) /\ "GOODBYE" \in Subject /\ hbCrashed' \in BOOLEAN
        /\ \/ /\ clients' = clients \ {w}
              /\ silence' = [silence EXCEPT ![w] = NoEntry]
           \/ UNCHANGED <<clients, silence>>
    BY <1>4 DEF DeleteClient, Subject, Inv, TypeOK
  <2>2. /\ silence' \in [Worker -> 0..(Timeout + 1) \cup {NoEntry}]
        /\ \A u \in Worker : u # w => silence'[u] = silence[u]
    BY <1>0, <2>1
  <2>3. \A u \in clients' : silence'[u] # NoEntry
    BY <1>0, <1>2, <2>1, <2>2
  <2> QED
    BY <1>0, <1>1, <2>1, <2>2, <2>3
<1>5. CASE ReceiveHeartbeat(w)
  <2>1. /\ Takes("HEARTBEAT", w) /\ "HEARTBEAT" \in Subject /\ hbCrashed' \in BOOLEAN
        /\ silence' = [silence EXCEPT ![w] = 0] /\ clients' = clients
    BY <1>5 DEF ReceiveHeartbeat, Subject, Inv, TypeOK
  <2>2. /\ silence' \in [Worker -> 0..(Timeout + 1) \cup {NoEntry}]
        /\ \A u \in Worker : silence'[u] = IF u = w THEN 0 ELSE silence[u]
    BY <1>0, <2>1
  <2>3. \A u \in clients' : silence'[u] # NoEntry
    BY <1>0, <1>2, <2>1, <2>2
  <2> QED
    BY <1>0, <1>1, <2>1, <2>2, <2>3
<1> QED
  BY <1>3, <1>4, <1>5

\* onPoll gives up the clients it says GOODBYE for, and no other.
LEMMA OnPollKeeps ==
    ASSUME Inv, OnPoll, UNCHANGED netVars
    PROVE  Inv'
<1> DEFINE kept == clients \ Expired
           due  == sinceSend >= Rate /\ kept # {}
           heard == IF due THEN kept ELSE {}
<1>0. /\ ChannelsOK /\ connected \subseteq Worker /\ Rate \in Nat
      /\ clients \subseteq Worker /\ silence \in [Worker -> 0..(Timeout + 1) \cup {NoEntry}]
      /\ UNCHANGED <<connected, net, hellos, alive>>
  BY TypeParts, Bounds DEF Inv, TypeOK, netVars
<1>1. PICK gone \in SetToSeqs(Expired), beats \in SetToSeqs(heard) :
         fromHB' = fromHB \o Messages("GOODBYE", gone) \o Messages("HEARTBEAT", beats)
  BY DEF OnPoll
<1>2. /\ clients' = kept
      /\ silence' = [w \in Worker |-> IF w \in Expired THEN NoEntry ELSE silence[w]]
      /\ sinceSend' = (IF due THEN 0 ELSE sinceSend)
      /\ polling' = FALSE /\ UNCHANGED <<hbCrashed, toHB>>
  BY DEF OnPoll
<1>3. Expired \in SUBSET Worker /\ heard \in SUBSET Worker
  BY <1>0 DEF Expired
<1>4. /\ Messages("GOODBYE", gone) \in Seq(Carried)
      /\ Messages("HEARTBEAT", beats) \in Seq(Carried)
      /\ \A w \in Expired : On(Messages("GOODBYE", gone), "GOODBYE", w) # {}
  BY <1>1, <1>3, MessagesToAll DEF Subject
<1>5. /\ fromHB' \in Seq(Carried)
      /\ \A w \in Worker : \/ On(fromHB, "GOODBYE", w) # {}
                           \/ w \in Expired
                           => On(fromHB', "GOODBYE", w) # {}
  <2> DEFINE g == Messages("GOODBYE", gone)
             b == Messages("HEARTBEAT", beats)
             q == fromHB \o g
  <2>1. fromHB \in Seq(Carried) /\ g \in Seq(Carried) /\ b \in Seq(Carried)
    BY <1>0, <1>4 DEF ChannelsOK
  <2>2. \A w \in Expired : On(g, "GOODBYE", w) # {}
    BY <1>4
  <2> HIDE DEF g, b
  <2>3. /\ q \in Seq(Carried)
        /\ \A w \in Worker : On(fromHB, "GOODBYE", w) # {} => On(q, "GOODBYE", w) # {}
        /\ \A w \in Expired : On(q, "GOODBYE", w) # {}
    BY <2>1, <2>2, OnConcat, ConcatProperties
  <2>4. fromHB' = q \o b
    BY <1>1 DEF g, b
  <2> HIDE DEF q
  <2>5. /\ fromHB' \in Seq(Carried)
        /\ \A w \in Worker : On(q, "GOODBYE", w) # {} => On(fromHB', "GOODBYE", w) # {}
    BY <2>1, <2>3, <2>4, OnConcat, ConcatProperties
  <2> QED
    BY <1>3, <2>3, <2>5
<1>6. TypeOK' /\ HellosType'
  <2>1. ChannelsOK'
    BY <1>0, <1>2, <1>5 DEF ChannelsOK
  <2>2. /\ silence' \in [Worker -> 0..(Timeout + 1) \cup {NoEntry}]
        /\ \A w \in clients' : silence'[w] # NoEntry
    BY <1>0, <1>2 DEF Inv, TypeOK, Expired
  <2>3. sinceSend' \in 0..Rate
    BY <1>0, <1>2 DEF Inv, TypeOK
  <2>4. HeartbeatOK' /\ NetOK' /\ HellosType'
    BY <1>0, <1>2, <2>2, <2>3, TypeParts DEF Inv, HeartbeatOK, NetOK, HellosType
  <2> QED
    BY <2>1, <2>4 DEF TypeOK, ChannelsOK, HeartbeatOK, NetOK, Carried
<1>7. ConnectedIsMonitored'
  <2> SUFFICES ASSUME NEW u \in connected'
               PROVE  WillBeClient(u)' \/ On(fromHB', "GOODBYE", u) # {}
    BY DEF ConnectedIsMonitored
  <2>1. u \in connected /\ u \in Worker
    BY <1>0
  <2>2. CASE u \in Expired \/ On(fromHB, "GOODBYE", u) # {}
    BY <1>5, <2>1, <2>2
  <2>3. CASE u \notin Expired /\ On(fromHB, "GOODBYE", u) = {}
    <3>1. WillBeClient(u)
      BY <2>1, <2>3 DEF Inv, ConnectedIsMonitored
    <3>2. u \in clients => u \in clients'
      BY <1>2, <2>3
    <3> QED
      BY <1>2, <3>1, <3>2 DEF WillBeClient
  <2> QED
    BY <2>2, <2>3
<1> QED
  BY <1>6, <1>7 DEF Inv

LEMMA QuietStepsKeep ==
    ASSUME Inv, HBNoMessage \/ Tick, UNCHANGED netVars
    PROVE  Inv'
<1>0. /\ Timeout \in Nat /\ Rate \in Nat /\ NoEntry \notin Nat
      /\ clients \subseteq Worker /\ silence \in [Worker -> 0..(Timeout + 1) \cup {NoEntry}]
      /\ sinceSend \in 0..Rate
      /\ UNCHANGED <<connected, net, hellos, alive>>
  BY Bounds DEF Inv, TypeOK, netVars
<1>1. CASE HBNoMessage
  <2>1. /\ UNCHANGED <<clients, silence, sinceSend, hbCrashed, toHB, fromHB>>
        /\ polling' \in BOOLEAN
    BY <1>1 DEF HBNoMessage
  <2>2. TypeOK' /\ HellosType'
    BY <1>0, <2>1 DEF Inv, TypeOK, HellosType
  <2> QED
    BY <1>0, <2>1, <2>2, OpinionsUnchanged DEF Inv
<1>2. CASE Tick
  <2>1. /\ silence' = [w \in Worker |-> IF silence[w] = NoEntry THEN NoEntry
                                        ELSE Older(silence[w], Timeout + 1)]
        /\ sinceSend' = Older(sinceSend, Rate)
        /\ UNCHANGED <<clients, polling, hbCrashed, toHB, fromHB>>
    BY <1>2 DEF Tick
  <2>2. \A age \in 0..(Timeout + 1) : Older(age, Timeout + 1) \in 0..(Timeout + 1)
    BY <1>0 DEF Older
  <2>3. /\ \A w \in Worker : silence[w] # NoEntry => silence'[w] # NoEntry
        /\ silence' \in [Worker -> 0..(Timeout + 1) \cup {NoEntry}]
    BY <1>0, <2>1, <2>2
  <2>4. sinceSend' \in 0..Rate
    BY <1>0, <2>1 DEF Older
  <2>5. TypeOK' /\ HellosType'
    BY <1>0, <2>1, <2>3, <2>4 DEF Inv, TypeOK, HellosType
  <2>6. ConnectedIsMonitored'
    BY <1>0, <2>1 DEF Inv, ConnectedIsMonitored, WillBeClient, On
  <2> QED
    BY <2>5, <2>6 DEF Inv
<1> QED
  BY <1>1, <1>2

-----------------------------------------------------------------------------
(* The theorems *)

LEMMA InitEstablishes == Init => Inv
<1> SUFFICES ASSUME Init PROVE Inv
  OBVIOUS
<1>1. /\ clients = {} /\ silence = [w \in Worker |-> NoEntry] /\ sinceSend = 0
      /\ polling = FALSE /\ hbCrashed = FALSE /\ toHB = <<>> /\ fromHB = <<>>
      /\ connected = {} /\ net = [w \in Worker |-> <<>>]
      /\ hellos = [w \in Worker |-> 0] /\ alive = Worker
  BY DEF Init, HBInit
<1>2. TypeOK /\ HellosType
  <2>1. toHB \in Seq(Carried) /\ net \in [Worker -> Seq(Subject)]
    BY <1>1, EmptySeq
  <2>2. ChannelsOK
    BY <1>1, <2>1 DEF ChannelsOK
  <2>3. HeartbeatOK
    <3>1. silence \in [Worker -> 0..(Timeout + 1) \cup {NoEntry}]
      BY <1>1
    <3>2. sinceSend \in 0..Rate
      BY <1>1, Bounds
    <3>3. clients = {} /\ polling \in BOOLEAN /\ hbCrashed \in BOOLEAN
      BY <1>1
    <3> QED
      BY <3>1, <3>2, <3>3 DEF HeartbeatOK
  <2>4. NetOK /\ HellosType
    <3>1. \A w \in Worker : hellos[w] = 0 /\ MaxHellos[w] \in Nat
      BY <1>1, Bounds
    <3> QED
      BY <1>1, <2>1, <3>1 DEF NetOK, HellosType
  <2> QED
    BY <2>2, <2>3, <2>4, TypeParts
<1> QED
  BY <1>1, <1>2 DEF Inv, ConnectedIsMonitored

LEMMA NextKeeps == Inv /\ [Next]_vars => Inv'
<1> SUFFICES ASSUME Inv, [Next]_vars PROVE Inv'
  OBVIOUS
<1>1. ASSUME NEW w \in Worker, WorkerStep(w) PROVE Inv'
  BY <1>1, WorkerStepKeeps
<1>2. ASSUME NEW w \in Worker, FromNetwork(w) PROVE Inv'
  BY <1>2, FromNetworkKeeps
<1>3. CASE FromHeartbeat
  BY <1>3, FromHeartbeatKeeps
<1>4. CASE HBPass /\ UNCHANGED netVars
  BY <1>4, TakesKeeps, OnPollKeeps, QuietStepsKeep DEF HBPass
<1>5. CASE Tick /\ UNCHANGED netVars
  BY <1>5, QuietStepsKeep
<1>6. CASE UNCHANGED vars
  <2>1. /\ UNCHANGED <<clients, silence, sinceSend, polling, hbCrashed, toHB, fromHB>>
        /\ UNCHANGED <<connected, net, hellos, alive>>
    BY <1>6 DEF vars, hbVars, netVars
  <2>2. TypeOK' /\ HellosType'
    BY <2>1 DEF Inv, TypeOK, HellosType
  <2> QED
    BY <2>1, <2>2, OpinionsUnchanged DEF Inv
<1> QED
  BY <1>1, <1>2, <1>3, <1>4, <1>5, <1>6 DEF Next

LEMMA Invariance == Spec => []Inv
<1>1. Init => Inv
  BY InitEstablishes
<1>2. Inv /\ [Next]_vars => Inv'
  BY NextKeeps
<1> QED
  BY <1>1, <1>2, PTL DEF Spec

\* Every member of the two threads keeps its type, and monitorTimeouts finds an entry for
\* every client, however HELLO, heartbeat and GOODBYE cross (serverheartbeat.cpp:120-139).
THEOREM TypeIsKept == Spec => []TypeOK
<1>1. Inv => TypeOK
  BY DEF Inv
<1> QED
  BY <1>1, Invariance, PTL

\* Whatever workers say, in whatever order the two threads read it, and even if the
\* heartbeat thread has crashed: a worker the Delegator has connected is a client, will
\* be one when the channel is read, or its GOODBYE is on the way (delegator.cpp:72-104).
THEOREM ConnectedAreWatched == Spec => []ConnectedIsMonitored
<1>1. Inv => ConnectedIsMonitored
  BY DEF Inv
<1> QED
  BY <1>1, Invariance, PTL
=============================================================================
