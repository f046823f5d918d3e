---------------------------- MODULE WorkerProofs ----------------------------
(***************************************************************************)
(* Theorems of Worker, for any number of jobs and of minions: however      *)
(* minions die, leave and are replaced, the client hands out one job at a  *)
(* time, and the jobs go to the minion and come back in the order in which *)
(* the server sent them.                                                   *)
(***************************************************************************)
EXTENDS Worker, TLAPS

-----------------------------------------------------------------------------
(* Sequences of jobs, in which NoJob stands for a message without one *)

Jobs(s) == ToSet(s) \ {NoJob}

Single(job) == {job} \ {NoJob}

Before(A, B) == \A a \in A, b \in B : a < b

Increasing(s) ==
    \A i, j \in DOMAIN s : i < j /\ s[i] # NoJob /\ s[j] # NoJob => s[i] < s[j]

OneAtMost(s) == \A i, j \in DOMAIN s : s[i] # NoJob /\ s[j] # NoJob => i = j

LEMMA JobsOfNone == Jobs(<<>>) = {} /\ Increasing(<<>>) /\ OneAtMost(<<>>)
BY DEF Jobs, Increasing, OneAtMost, ToSet

LEMMA IsAmongJobs == ASSUME NEW s, NEW i \in DOMAIN s, s[i] # NoJob
                     PROVE  s[i] \in Jobs(s)
BY DEF Jobs, ToSet

LEMMA OnAppend ==
    ASSUME NEW s \in Seq(Nat), NEW x \in Nat
    PROVE  /\ Append(s, x) \in Seq(Nat)
           /\ Jobs(Append(s, x)) = Jobs(s) \cup Single(x)
           /\ Increasing(s) /\ Before(Jobs(s), Single(x)) => Increasing(Append(s, x))
           /\ OneAtMost(s) /\ (Jobs(s) = {} \/ x = NoJob) => OneAtMost(Append(s, x))
<1> DEFINE t == Append(s, x)
<1>1. /\ t \in Seq(Nat) /\ Len(t) = Len(s) + 1 /\ Len(s) \in Nat
      /\ DOMAIN t = 1..(Len(s) + 1) /\ DOMAIN s = 1..Len(s)
      /\ \A i \in 1..Len(s) : t[i] = s[i]
      /\ t[Len(s) + 1] = x
  OBVIOUS
<1>2. \A i \in 1..Len(s) : s[i] \in Nat
  OBVIOUS
<1> HIDE DEF t
<1>3. ToSet(t) = ToSet(s) \cup {x}
  BY <1>1, SMTT(30) DEF ToSet
<1>4. Jobs(t) = Jobs(s) \cup Single(x)
  BY <1>3 DEF Jobs, Single
<1>5. ASSUME Increasing(s), Before(Jobs(s), Single(x)) PROVE Increasing(t)
  <2> SUFFICES ASSUME NEW i \in 1..(Len(s) + 1), NEW j \in 1..(Len(s) + 1),
                      i < j, t[i] # NoJob, t[j] # NoJob
               PROVE  t[i] < t[j]
    BY <1>1 DEF Increasing
  <2>1. i \in 1..Len(s)
    BY <1>1
  <2>2. CASE j \in 1..Len(s)
    <3>1. t[i] = s[i] /\ t[j] = s[j] /\ i \in DOMAIN s /\ j \in DOMAIN s
      BY <1>1, <2>1, <2>2
    <3> QED
      BY <1>5, <3>1 DEF Increasing
  <2>3. CASE j = Len(s) + 1
    <3>1. t[i] \in Jobs(s) /\ t[j] \in Single(x)
      BY <1>1, <2>1, <2>3, IsAmongJobs DEF Single
    <3> QED
      BY <1>5, <3>1 DEF Before
  <2>4. j \in 1..Len(s) \/ j = Len(s) + 1
    BY <1>1, SMTT(30)
  <2> QED
    BY <2>2, <2>3, <2>4
<1>6. ASSUME OneAtMost(s), Jobs(s) = {} \/ x = NoJob PROVE OneAtMost(t)
  <2> SUFFICES ASSUME NEW i \in 1..(Len(s) + 1), NEW j \in 1..(Len(s) + 1),
                      t[i] # NoJob, t[j] # NoJob
               PROVE  i = j
    BY <1>1 DEF OneAtMost
  <2>1. CASE x = NoJob
    <3>1. i \in 1..Len(s) /\ j \in 1..Len(s)
      BY <1>1, <2>1
    <3> QED
      BY <1>1, <1>6, <3>1 DEF OneAtMost
  <2>2. CASE Jobs(s) = {}
    <3>1. \A k \in 1..Len(s) : t[k] = NoJob
      BY <1>1, <2>2, IsAmongJobs
    <3> QED
      BY <1>1, <3>1
  <2> QED
    BY <1>6, <2>1, <2>2
<1> QED
  BY <1>1, <1>4, <1>5, <1>6 DEF t

LEMMA OnTail ==
    ASSUME NEW s \in Seq(Nat), s # <<>>
    PROVE  /\ Tail(s) \in Seq(Nat) /\ Head(s) \in Nat
           /\ Jobs(s) = Jobs(Tail(s)) \cup Single(Head(s))
           /\ Increasing(s) => /\ Increasing(Tail(s))
                               /\ Before(Single(Head(s)), Jobs(Tail(s)))
           /\ OneAtMost(s) => /\ OneAtMost(Tail(s))
                              /\ Head(s) # NoJob => Jobs(Tail(s)) = {}
<1> DEFINE t == Tail(s)
<1>1. /\ t \in Seq(Nat) /\ Len(s) \in Nat \ {0} /\ Len(t) = Len(s) - 1
      /\ DOMAIN t = 1..(Len(s) - 1) /\ DOMAIN s = 1..Len(s)
      /\ \A i \in 1..(Len(s) - 1) : t[i] = s[i + 1]
      /\ Head(s) = s[1]
  OBVIOUS
<1>2. \A i \in 1..Len(s) : s[i] \in Nat
  OBVIOUS
<1> HIDE DEF t
<1>3. \A i \in 1..Len(s) : i = 1 \/ i - 1 \in 1..(Len(s) - 1)
  BY <1>1
<1>4. ToSet(s) = ToSet(t) \cup {s[1]}
  <2>1. ASSUME NEW i \in 1..Len(s) PROVE i = 1 \/ s[i] = t[i - 1]
    <3>1. i # 1 => i - 1 \in 1..(Len(s) - 1) /\ (i - 1) + 1 = i
      BY <1>3
    <3> QED
      BY <1>1, <3>1
  <2>2. ASSUME NEW i \in 1..Len(s) PROVE s[i] \in ToSet(t) \cup {s[1]}
    BY <1>1, <1>3, <2>1 DEF ToSet
  <2>3. ASSUME NEW i \in 1..(Len(s) - 1) PROVE t[i] \in ToSet(s)
    <3>1. i + 1 \in 1..Len(s) /\ t[i] = s[i + 1]
      BY <1>1
    <3> QED
      BY <1>1, <3>1 DEF ToSet
  <2>4. s[1] \in ToSet(s)
    <3>1. 1 \in DOMAIN s
      BY <1>1
    <3> QED
      BY <3>1 DEF ToSet
  <2>5. ToSet(s) = {s[i] : i \in 1..Len(s)} /\ ToSet(t) = {t[i] : i \in 1..(Len(s) - 1)}
    BY <1>1 DEF ToSet
  <2> QED
    BY <2>2, <2>3, <2>4, <2>5
<1>5. Jobs(s) = Jobs(t) \cup Single(s[1])
  BY <1>4 DEF Jobs, Single
<1>6. ASSUME Increasing(s) PROVE Increasing(t) /\ Before(Single(s[1]), Jobs(t))
  <2>1. ASSUME NEW j \in 1..(Len(s) - 1), t[j] # NoJob
        PROVE  /\ j + 1 \in 1..Len(s) /\ s[j + 1] = t[j]
               /\ s[1] # NoJob => s[1] < t[j]
    <3>1. j + 1 \in 1..Len(s) /\ s[j + 1] = t[j] /\ 1 < j + 1 /\ 1 \in 1..Len(s)
      BY <1>1
    <3> QED
      BY <1>1, <1>6, <2>1, <3>1 DEF Increasing
  <2>2. Before(Single(s[1]), Jobs(t))
    BY <1>1, <2>1 DEF Before, Jobs, Single, ToSet
  <2>3. ASSUME NEW i \in 1..(Len(s) - 1), NEW j \in 1..(Len(s) - 1),
               i < j, t[i] # NoJob, t[j] # NoJob
        PROVE  t[i] < t[j]
    <3>1. i + 1 < j + 1
      BY <2>3, <1>1
    <3> QED
      BY <1>1, <1>6, <2>1, <2>3, <3>1 DEF Increasing
  <2> QED
    BY <1>1, <2>2, <2>3 DEF Increasing
<1>7. ASSUME OneAtMost(s) PROVE OneAtMost(t) /\ (s[1] # NoJob => Jobs(t) = {})
  <2>1. ASSUME NEW j \in 1..(Len(s) - 1)
        PROVE  j + 1 \in 1..Len(s) /\ s[j + 1] = t[j] /\ j + 1 # 1 /\ 1 \in 1..Len(s)
    BY <1>1
  <2>2. ASSUME s[1] # NoJob, NEW j \in 1..(Len(s) - 1) PROVE t[j] = NoJob
    BY <1>1, <1>7, <2>1, <2>2 DEF OneAtMost
  <2>3. s[1] # NoJob => Jobs(t) = {}
    BY <1>1, <2>2 DEF Jobs, ToSet
  <2>4. ASSUME NEW i \in 1..(Len(s) - 1), NEW j \in 1..(Len(s) - 1),
               t[i] # NoJob, t[j] # NoJob
        PROVE  i = j
    <3>1. i + 1 = j + 1
      BY <1>1, <1>7, <2>1, <2>4, ZenonT(30) DEF OneAtMost
    <3> QED
      BY <3>1
  <2> QED
    BY <1>1, <2>3, <2>4 DEF OneAtMost
<1> QED
  BY <1>1, <1>2, <1>5, <1>6, <1>7 DEF t

LEMMA OnPrefix ==
    ASSUME NEW s \in Seq(Nat), NEW n \in 0..Len(s)
    PROVE  /\ SubSeq(s, 1, n) \in Seq(Nat)
           /\ Jobs(SubSeq(s, 1, n)) \subseteq Jobs(s)
           /\ OneAtMost(s) => OneAtMost(SubSeq(s, 1, n))
<1> DEFINE t == SubSeq(s, 1, n)
<1>1. /\ t \in Seq(Nat) /\ DOMAIN t = 1..n /\ DOMAIN s = 1..Len(s)
      /\ Len(s) \in Nat /\ n \in Nat /\ n <= Len(s)
      /\ \A i \in 1..n : t[i] = s[i]
  OBVIOUS
<1> HIDE DEF t
<1>2. \A i \in 1..n : i \in 1..Len(s)
  BY <1>1
<1>3. Jobs(t) \subseteq Jobs(s)
  BY <1>1, <1>2 DEF Jobs, ToSet
<1>4. OneAtMost(s) => OneAtMost(t)
  BY <1>1, <1>2 DEF OneAtMost
<1> QED
  BY <1>1, <1>3, <1>4 DEF t

LEMMA OnConcat ==
    ASSUME NEW s \in Seq(Nat), NEW t \in Seq(Nat)
    PROVE  /\ s \o t \in Seq(Nat)
           /\ Jobs(s \o t) = Jobs(s) \cup Jobs(t)
           /\ Increasing(s) /\ Increasing(t) /\ Before(Jobs(s), Jobs(t))
                  => Increasing(s \o t)
           /\ OneAtMost(s) /\ OneAtMost(t) /\ (Jobs(s) = {} \/ Jobs(t) = {})
                  => OneAtMost(s \o t)
<1> DEFINE u == s \o t
<1>1. /\ u \in Seq(Nat) /\ Len(s) \in Nat /\ Len(t) \in Nat
      /\ DOMAIN u = 1..(Len(s) + Len(t)) /\ DOMAIN s = 1..Len(s) /\ DOMAIN t = 1..Len(t)
      /\ \A i \in 1..Len(s) : u[i] = s[i]
      /\ \A i \in 1..Len(t) : u[Len(s) + i] = t[i]
  OBVIOUS
<1>2. (\A i \in 1..Len(s) : s[i] \in Nat) /\ (\A i \in 1..Len(t) : t[i] \in Nat)
  OBVIOUS
<1> HIDE DEF u
<1>3. \A k \in DOMAIN u :
          \/ k \in 1..Len(s) /\ u[k] = s[k]
          \/ ~(k \in 1..Len(s)) /\ k - Len(s) \in 1..Len(t) /\ u[k] = t[k - Len(s)]
  <2> SUFFICES ASSUME NEW k \in DOMAIN u, ~(k \in 1..Len(s))
               PROVE  k - Len(s) \in 1..Len(t) /\ u[k] = t[k - Len(s)]
    BY <1>1
  <2>1. k - Len(s) \in 1..Len(t) /\ Len(s) + (k - Len(s)) = k
    BY <1>1
  <2> QED
    BY <1>1, <2>1
<1>4. \A i \in 1..Len(s) : i \in DOMAIN u
  BY <1>1
<1>5. \A i \in 1..Len(t) : Len(s) + i \in DOMAIN u
  BY <1>1
<1>6. ToSet(u) = ToSet(s) \cup ToSet(t)
  BY <1>1, <1>3, <1>4, <1>5 DEF ToSet
<1>7. Jobs(u) = Jobs(s) \cup Jobs(t)
  BY <1>6 DEF Jobs
<1>8. ASSUME Increasing(s), Increasing(t), Before(Jobs(s), Jobs(t)) PROVE Increasing(u)
  <2> SUFFICES ASSUME NEW i \in DOMAIN u, NEW j \in DOMAIN u,
                      i < j, u[i] # NoJob, u[j] # NoJob
               PROVE  u[i] < u[j]
    BY DEF Increasing
  <2>1. CASE i \in 1..Len(s) /\ j \in 1..Len(s)
    BY <1>1, <1>8, <2>1 DEF Increasing
  <2>2. CASE i \in 1..Len(s) /\ ~(j \in 1..Len(s))
    <3>1. u[i] \in Jobs(s)
      BY <1>1, <2>2, IsAmongJobs
    <3>2. j - Len(s) \in DOMAIN t /\ u[j] = t[j - Len(s)]
      BY <1>1, <1>3, <2>2
    <3>3. u[j] \in Jobs(t)
      BY <3>2, IsAmongJobs
    <3> QED
      BY <1>8, <3>1, <3>3 DEF Before
  <2>3. CASE ~(i \in 1..Len(s))
    <3>1. ~(j \in 1..Len(s)) /\ i - Len(s) < j - Len(s)
      BY <1>1, <2>3
    <3>2. i - Len(s) \in DOMAIN t /\ u[i] = t[i - Len(s)]
      BY <1>1, <1>3, <2>3
    <3>3. j - Len(s) \in DOMAIN t /\ u[j] = t[j - Len(s)]
      BY <1>1, <1>3, <3>1
    <3> QED
      BY <1>8, <3>1, <3>2, <3>3 DEF Increasing
  <2> QED
    BY <2>1, <2>2, <2>3
<1>9. ASSUME OneAtMost(s), OneAtMost(t), Jobs(s) = {} \/ Jobs(t) = {} PROVE OneAtMost(u)
  <2> SUFFICES ASSUME NEW i \in DOMAIN u, NEW j \in DOMAIN u, u[i] # NoJob, u[j] # NoJob
               PROVE  i = j
    BY DEF OneAtMost
  <2>1. CASE Jobs(t) = {}
    <3>1. \A k \in 1..Len(t) : t[k] = NoJob
      BY <1>1, <2>1, IsAmongJobs
    <3>2. i \in 1..Len(s) /\ j \in 1..Len(s)
      BY <1>3, <3>1
    <3> QED
      BY <1>1, <1>9, <3>2 DEF OneAtMost
  <2>2. CASE Jobs(s) = {}
    <3>1. \A k \in 1..Len(s) : s[k] = NoJob
      BY <1>1, <2>2, IsAmongJobs
    <3>2. /\ i - Len(s) \in DOMAIN t /\ u[i] = t[i - Len(s)]
          /\ j - Len(s) \in DOMAIN t /\ u[j] = t[j - Len(s)]
      BY <1>1, <1>3, <3>1
    <3>3. i - Len(s) = j - Len(s)
      BY <1>9, <3>2 DEF OneAtMost
    <3> QED
      BY <1>1, <3>3
  <2> QED
    BY <1>9, <2>1, <2>2
<1> QED
  BY <1>1, <1>7, <1>8, <1>9 DEF u

LEMMA OnOne == ASSUME NEW x \in Nat
               PROVE  /\ <<x>> \in Seq(Nat) /\ Jobs(<<x>>) = Single(x)
                      /\ Increasing(<<x>>) /\ OneAtMost(<<x>>)
BY DEF Jobs, Single, Increasing, OneAtMost, ToSet

-----------------------------------------------------------------------------
(* Messages *)

LEMMA JobOfMessage ==
    ASSUME NEW m \in Messages
    PROVE  /\ m.job \in Nat
           /\ m.subject = "RESULT" => m.job \in JobId
           /\ m.subject # "RESULT" => m.job = NoJob
BY WorkerAssumption DEF Messages, JobId, NoJob

LEMMA JobsOfMessages ==
    ASSUME NEW s \in Seq(Messages)
    PROVE  /\ JobsOf(s) \in Seq(Nat)
           /\ Jobs(JobsOf(s)) \subseteq JobId
           /\ s = <<>> => JobsOf(s) = <<>>
           /\ s # <<>> => /\ JobsOf(s) # <<>> /\ Head(JobsOf(s)) = Head(s).job
                          /\ JobsOf(Tail(s)) = Tail(JobsOf(s))
           /\ \A n \in 0..Len(s) : JobsOf(SubSeq(s, 1, n)) = SubSeq(JobsOf(s), 1, n)
           /\ Len(JobsOf(s)) = Len(s)
<1>1. \A i \in DOMAIN s : s[i] \in Messages /\ s[i].job \in Nat
  BY JobOfMessage
<1>2. JobsOf(s) \in Seq(Nat) /\ Len(JobsOf(s)) = Len(s) /\ DOMAIN JobsOf(s) = DOMAIN s
  BY <1>1 DEF JobsOf
<1>3. Jobs(JobsOf(s)) \subseteq JobId
  BY <1>1, JobOfMessage DEF JobsOf, Jobs, ToSet
<1>4. s = <<>> => JobsOf(s) = <<>>
  BY DEF JobsOf
<1>5. ASSUME s # <<>>
      PROVE  /\ JobsOf(s) # <<>> /\ Head(JobsOf(s)) = Head(s).job
             /\ JobsOf(Tail(s)) = Tail(JobsOf(s))
  BY <1>1, <1>2, <1>5 DEF JobsOf
<1>6. ASSUME NEW n \in 0..Len(s)
      PROVE  JobsOf(SubSeq(s, 1, n)) = SubSeq(JobsOf(s), 1, n)
  BY <1>1, <1>2 DEF JobsOf
<1> QED
  BY <1>2, <1>3, <1>4, <1>5, <1>6

LEMMA JobsOfAppended ==
    ASSUME NEW s \in Seq(Messages), NEW m \in Messages
    PROVE  JobsOf(Append(s, m)) = Append(JobsOf(s), m.job)
<1>1. \A i \in DOMAIN s : s[i] \in Messages /\ s[i].job \in Nat
  BY JobOfMessage
<1>2. JobsOf(s) \in Seq(Nat) /\ Len(JobsOf(s)) = Len(s) /\ DOMAIN JobsOf(s) = DOMAIN s
  BY <1>1 DEF JobsOf
<1> QED
  BY <1>1, <1>2 DEF JobsOf
-----------------------------------------------------------------------------
(* The invariant *)

Answers == Jobs(JobsOf(fromMinion))
OnTheirWay == Jobs(toMinion)

AtMinion == Answers \cup Single(currentJob) \cup OnTheirWay \cup Single(sending)

\* Of the four places between the client and the minion one at most is taken, by one job.
OneWithMinion ==
    /\ OneAtMost(JobsOf(fromMinion)) /\ OneAtMost(toMinion)
    /\ Answers = {} \/ (currentJob = NoJob /\ OnTheirWay = {} /\ sending = NoJob)
    /\ currentJob = NoJob \/ (OnTheirWay = {} /\ sending = NoJob)
    /\ OnTheirWay = {} \/ sending = NoJob

\* After a minion has died with a job the client waits for ever: no other job is given
\* out, and so no second one can die.
ClientKnows ==
    /\ minionWaiting <=> (AtMinion = {} /\ orphaned = {})
    /\ orphaned # {} => AtMinion = {}
    /\ queue # <<>> => ~minionWaiting
    /\ script = "computing" <=> currentJob # NoJob

InOrder(R, T, M, Q, F) ==
    /\ Before(R, T) /\ Before(R, M) /\ Before(R, Q) /\ Before(R, F)
    /\ Before(T, M) /\ Before(T, Q) /\ Before(T, F)
    /\ Before(M, Q) /\ Before(M, F)
    /\ Before(Q, F)

\* Place by place what JobsKeepTheirOrder says of all of them in a row.
PlacesInOrder ==
    /\ Increasing(results) /\ Increasing(JobsOf(toServer))
    /\ Increasing(queue) /\ Increasing(fromServer)
    /\ InOrder(Jobs(results), Jobs(JobsOf(toServer)), AtMinion, Jobs(queue), Jobs(fromServer))
    /\ Jobs(results) \cup Jobs(JobsOf(toServer)) \cup AtMinion \cup Jobs(queue)
           \cup Jobs(fromServer) = (1..given) \ orphaned
    /\ orphaned \subseteq 1..given

Inv == TypeOK /\ OneWithMinion /\ ClientKnows /\ (~lost => PlacesInOrder)
-----------------------------------------------------------------------------
(* What the steps have in common *)

LEMMA JobIdsAreNatural == JobId \subseteq Nat /\ NoJob \in Nat /\ NoJob \notin JobId
BY WorkerAssumption DEF JobId, NoJob

LEMMA JobIdSequences == \A s \in Seq(JobId) : s \in Seq(Nat)
<1> SUFFICES ASSUME NEW s \in Seq(JobId) PROVE s \in Seq(Nat)
  OBVIOUS
<1>1. \A i \in 1..Len(s) : s[i] \in JobId
  OBVIOUS
<1>2. \A i \in 1..Len(s) : s[i] \in Nat
  BY <1>1, JobIdsAreNatural
<1>3. s = [i \in 1..Len(s) |-> s[i]] /\ Len(s) \in Nat
  OBVIOUS
<1>4. [i \in 1..Len(s) |-> s[i]] \in Seq(Nat)
  BY <1>2, <1>3
<1> QED
  BY <1>3, <1>4

LEMMA TypedPlaces ==
    ASSUME TypeOK
    PROVE  /\ queue \in Seq(Nat) /\ toMinion \in Seq(Nat) /\ fromServer \in Seq(Nat)
           /\ results \in Seq(Nat) /\ JobsOf(toServer) \in Seq(Nat)
           /\ JobsOf(fromMinion) \in Seq(Nat) /\ currentJob \in Nat /\ sending \in Nat
           /\ given \in Nat /\ AtMinion \subseteq JobId /\ Jobs(results) \subseteq JobId
           /\ Jobs(JobsOf(toServer)) \subseteq JobId /\ Jobs(queue) \subseteq JobId
           /\ Jobs(fromServer) \subseteq JobId
<1>1. /\ queue \in Seq(Nat) /\ toMinion \in Seq(Nat) /\ fromServer \in Seq(Nat)
      /\ results \in Seq(Nat) /\ currentJob \in Nat /\ sending \in Nat
  BY JobIdsAreNatural, JobIdSequences DEF TypeOK
<1>2. given \in Nat
  BY WorkerAssumption DEF TypeOK
<1>3. /\ JobsOf(toServer) \in Seq(Nat) /\ JobsOf(fromMinion) \in Seq(Nat)
      /\ Jobs(JobsOf(toServer)) \subseteq JobId /\ Answers \subseteq JobId
  BY JobsOfMessages DEF TypeOK, Answers
<1>4. ASSUME NEW s \in Seq(JobId) PROVE Jobs(s) \subseteq JobId
  BY DEF Jobs, ToSet
<1>5. /\ Jobs(results) \subseteq JobId /\ Jobs(queue) \subseteq JobId
      /\ Jobs(fromServer) \subseteq JobId /\ OnTheirWay \subseteq JobId
  BY <1>4 DEF TypeOK, OnTheirWay
<1>6. AtMinion \subseteq JobId
  BY <1>3, <1>5 DEF TypeOK, AtMinion, Single
<1> QED
  BY <1>1, <1>2, <1>3, <1>5, <1>6

\* The first of a sequence of jobs, and the rest.
LEMMA FirstJob ==
    ASSUME NEW s \in Seq(JobId), s # <<>>
    PROVE  /\ Head(s) \in JobId /\ Tail(s) \in Seq(JobId)
           /\ Jobs(s) = Jobs(Tail(s)) \cup {Head(s)}
           /\ Increasing(s) => Increasing(Tail(s)) /\ Before({Head(s)}, Jobs(Tail(s)))
           /\ OneAtMost(s) => OneAtMost(Tail(s)) /\ Jobs(Tail(s)) = {}
<1>1. s \in Seq(Nat) /\ Head(s) \in JobId /\ Tail(s) \in Seq(JobId)
  BY JobIdSequences
<1>2. Head(s) # NoJob /\ Single(Head(s)) = {Head(s)}
  BY <1>1, JobIdsAreNatural DEF Single
<1> QED
  BY <1>1, <1>2, OnTail, ZenonT(30)

LEMMA LastJob ==
    ASSUME NEW s \in Seq(JobId), NEW x \in JobId
    PROVE  /\ Append(s, x) \in Seq(JobId)
           /\ Jobs(Append(s, x)) = Jobs(s) \cup {x}
           /\ Increasing(s) /\ Before(Jobs(s), {x}) => Increasing(Append(s, x))
           /\ OneAtMost(s) /\ Jobs(s) = {} => OneAtMost(Append(s, x))
<1>1. s \in Seq(Nat) /\ x \in Nat /\ Append(s, x) \in Seq(JobId)
  BY JobIdsAreNatural, JobIdSequences
<1>2. Single(x) = {x}
  BY JobIdsAreNatural DEF Single
<1> QED
  BY <1>1, <1>2, OnAppend

\* The first message of a sequence, and the rest.
LEMMA FirstMessage ==
    ASSUME NEW s \in Seq(Messages), s # <<>>
    PROVE  /\ Head(s) \in Messages /\ Tail(s) \in Seq(Messages)
           /\ Jobs(JobsOf(s)) = Jobs(JobsOf(Tail(s))) \cup Single(Head(s).job)
           /\ Increasing(JobsOf(s)) =>
                  /\ Increasing(JobsOf(Tail(s)))
                  /\ Before(Single(Head(s).job), Jobs(JobsOf(Tail(s))))
           /\ OneAtMost(JobsOf(s)) =>
                  /\ OneAtMost(JobsOf(Tail(s)))
                  /\ Head(s).job # NoJob => Jobs(JobsOf(Tail(s))) = {}
<1>1. Head(s) \in Messages /\ Tail(s) \in Seq(Messages)
  OBVIOUS
<1>2. /\ JobsOf(s) \in Seq(Nat) /\ JobsOf(s) # <<>> /\ Head(JobsOf(s)) = Head(s).job
      /\ JobsOf(Tail(s)) = Tail(JobsOf(s))
  BY JobsOfMessages
<1> QED
  BY <1>1, <1>2, OnTail, ZenonT(30)

LEMMA LastMessage ==
    ASSUME NEW s \in Seq(Messages), NEW m \in Messages
    PROVE  /\ Append(s, m) \in Seq(Messages)
           /\ Jobs(JobsOf(Append(s, m))) = Jobs(JobsOf(s)) \cup Single(m.job)
           /\ Increasing(JobsOf(s)) /\ Before(Jobs(JobsOf(s)), Single(m.job))
                  => Increasing(JobsOf(Append(s, m)))
           /\ OneAtMost(JobsOf(s)) /\ (Jobs(JobsOf(s)) = {} \/ m.job = NoJob)
                  => OneAtMost(JobsOf(Append(s, m)))
<1>1. Append(s, m) \in Seq(Messages) /\ JobsOf(s) \in Seq(Nat) /\ m.job \in Nat
  BY JobsOfMessages, JobOfMessage
<1>2. JobsOf(Append(s, m)) = Append(JobsOf(s), m.job)
  BY JobsOfAppended
<1> QED
  BY <1>1, <1>2, OnAppend

LEMMA MessagesMade ==
    /\ Msg("HELLO", NoJob) \in Messages /\ Msg("HELLO", NoJob).job = NoJob
    /\ Msg("GOODBYE", NoJob) \in Messages /\ Msg("GOODBYE", NoJob).job = NoJob
    /\ \A job \in JobId : Msg("RESULT", job) \in Messages /\ Msg("RESULT", job).job = job
BY DEF Msg, Messages

LEMMA TypeIsPreserved ==
    ASSUME TypeOK, ClientKnows, Next
    PROVE  TypeOK'
<1> USE JobIdsAreNatural, WorkerAssumption
    DEF TypeOK, clientVars, scriptVars, serverVars, minionNet, serverNet
<1>1. CASE JobFromNetwork
  <2>1. /\ Head(fromServer) \in JobId /\ Tail(fromServer) \in Seq(JobId)
        /\ Append(queue, Head(fromServer)) \in Seq(JobId)
    BY <1>1 DEF JobFromNetwork
  <2> QED
    BY <1>1, <2>1 DEF JobFromNetwork
<1>2. CASE SendToMinion
  BY <1>2 DEF SendToMinion
<1>3. CASE ResultFromMinion
  <2>1. /\ Tail(fromMinion) \in Seq(Messages)
        /\ Append(toServer, Head(fromMinion)) \in Seq(Messages)
    BY <1>3 DEF ResultFromMinion, FromMinion
  <2>2. queue # <<>> => Head(queue) \in JobId /\ Tail(queue) \in Seq(JobId)
    OBVIOUS
  <2> QED
    BY <1>3, <2>1, <2>2 DEF ResultFromMinion, FromMinion
<1>4. CASE HelloFromMinion
  BY <1>4 DEF HelloFromMinion, FromMinion
<1>5. CASE GoodbyeFromMinion
  BY <1>5 DEF GoodbyeFromMinion, FromMinion
<1>6. CASE StartScript
  BY <1>6, MessagesMade DEF StartScript
<1>7. CASE NextJob
  BY <1>7 DEF NextJob
<1>8. CASE SubmitResult
  <2>1. Msg("RESULT", currentJob) \in Messages
    BY <1>8, MessagesMade DEF SubmitResult, ClientKnows
  <2> QED
    BY <1>8, <2>1 DEF SubmitResult
<1>9. ASSUME NEW sent \in Seq(Messages), Ends(sent) PROVE TypeOK'
  <2>1. ToSet(toMinion) \subseteq JobId
    BY DEF ToSet
  <2>2. ToSet(JobsOf(fromMinion)) \subseteq JobId \cup {NoJob}
    BY JobsOfMessages DEF Jobs
  <2>3. orphaned' \subseteq JobId
    BY <1>9, <2>1, <2>2 DEF Ends
  <2> QED
    BY <1>9, <2>3 DEF Ends
<1>10. CASE Die
  <2>1. PICK n \in 0..Len(fromMinion) : Ends(SubSeq(fromMinion, 1, n))
    BY <1>10 DEF Die
  <2>2. SubSeq(fromMinion, 1, n) \in Seq(Messages)
    OBVIOUS
  <2> QED
    BY <1>9, <2>1, <2>2
<1>11. CASE Leave
  <2>1. Append(fromMinion, Msg("GOODBYE", NoJob)) \in Seq(Messages)
    BY MessagesMade
  <2> QED
    BY <1>9, <1>11, <2>1 DEF Leave
<1>12. CASE GiveJob
  <2>1. given + 1 \in JobId /\ given' \in 0..MaxJobs
    BY <1>12 DEF GiveJob, JobId
  <2> QED
    BY <1>12, <2>1 DEF GiveJob
<1>13. CASE ServerReceives
  <2>1. Head(toServer) \in Messages
    BY <1>13 DEF ServerReceives
  <2>2. Head(toServer).subject = "RESULT" => Head(toServer).job \in JobId
    BY <2>1, JobOfMessage
  <2>3. results' \in Seq(JobId)
    BY <1>13, <2>2 DEF ServerReceives
  <2>4. announced' \in BOOLEAN
    BY <1>13 DEF ServerReceives
  <2> QED
    BY <1>13, <2>3, <2>4 DEF ServerReceives
<1>14. CASE ServerTimesOut
  BY <1>14 DEF ServerTimesOut
<1> QED
  BY <1>1, <1>2, <1>3, <1>4, <1>5, <1>6, <1>7, <1>8, <1>10, <1>11, <1>12, <1>13, <1>14
  DEF Next, Client, Minion, Server
-----------------------------------------------------------------------------
(* The client's steps *)

Kept == OneWithMinion /\ ClientKnows /\ (~lost => PlacesInOrder)

LEMMA JobFromNetworkKeeps == ASSUME Inv, JobFromNetwork PROVE Kept'
<1> DEFINE x == Head(fromServer)
<1>1. /\ x \in JobId /\ x # NoJob /\ Single(x) = {x}
      /\ Jobs(fromServer) = Jobs(fromServer') \cup {x}
      /\ Increasing(fromServer) => Increasing(fromServer') /\ Before({x}, Jobs(fromServer'))
  <2>1. fromServer \in Seq(JobId) /\ fromServer # <<>> /\ fromServer' = Tail(fromServer)
    BY DEF Inv, TypeOK, JobFromNetwork
  <2>2. /\ x \in JobId /\ Jobs(fromServer) = Jobs(fromServer') \cup {x}
        /\ Increasing(fromServer) => Increasing(fromServer') /\ Before({x}, Jobs(fromServer'))
    BY <2>1, FirstJob
  <2> QED
    BY <2>2, JobIdsAreNatural DEF Single
<1>2. /\ UNCHANGED <<results, toServer, fromMinion, toMinion, currentJob, script, given,
                      orphaned, lost>>
      /\ sending = NoJob
  BY DEF JobFromNetwork, Polling, scriptVars, serverVars, minionNet
<1>3. /\ Answers' = Answers /\ OnTheirWay' = OnTheirWay /\ JobsOf(fromMinion)' = JobsOf(fromMinion)
      /\ JobsOf(toServer)' = JobsOf(toServer)
  BY <1>2 DEF Answers, OnTheirWay, JobsOf
<1>4. CASE minionWaiting
  <2>1. /\ sending' = x /\ minionWaiting' = FALSE /\ queue' = queue /\ queue = <<>>
        /\ AtMinion = {} /\ orphaned = {}
    BY <1>4 DEF JobFromNetwork, Inv, ClientKnows
  <2>2. Answers = {} /\ OnTheirWay = {} /\ currentJob = NoJob
    BY <2>1 DEF AtMinion, Single
  <2>3. AtMinion' = {x}
    BY <1>1, <1>2, <1>3, <2>1, <2>2 DEF AtMinion, Single
  <2>4. OneWithMinion'
    BY <1>2, <1>3, <2>2 DEF OneWithMinion, Inv
  <2>5. ClientKnows'
    BY <1>2, <2>1, <2>3 DEF ClientKnows, Inv
  <2>6. Jobs(queue) = {}
    BY <2>1, JobsOfNone
  <2>7. ASSUME ~lost' PROVE PlacesInOrder'
    <3>1. PlacesInOrder
      BY <1>2, <2>7 DEF Inv
    <3> QED
      BY <1>1, <1>2, <1>3, <2>1, <2>3, <2>6, <3>1 DEF PlacesInOrder, InOrder, Before
  <2> QED
    BY <2>4, <2>5, <2>7 DEF Kept
<1>5. CASE ~minionWaiting
  <2>1. /\ UNCHANGED <<sending, minionWaiting>> /\ queue' = Append(queue, x)
    BY <1>5 DEF JobFromNetwork
  <2>2. AtMinion' = AtMinion
    BY <1>2, <1>3, <2>1 DEF AtMinion
  <2>3. OneWithMinion'
    BY <1>2, <1>3, <2>1 DEF OneWithMinion, Inv
  <2>4. ClientKnows'
    BY <1>2, <1>5, <2>1, <2>2 DEF ClientKnows, Inv
  <2>5. /\ Jobs(queue') = Jobs(queue) \cup {x}
        /\ Increasing(queue) /\ Before(Jobs(queue), {x}) => Increasing(queue')
    BY <1>1, <2>1, LastJob DEF Inv, TypeOK
  <2>6. ASSUME ~lost' PROVE PlacesInOrder'
    <3>1. PlacesInOrder
      BY <1>2, <2>6 DEF Inv
    <3>2. Before(Jobs(queue), {x})
      BY <1>1, <3>1 DEF PlacesInOrder, InOrder, Before
    <3> QED
      BY <1>1, <1>2, <1>3, <2>1, <2>2, <2>5, <3>1, <3>2 DEF PlacesInOrder, InOrder, Before
  <2> QED
    BY <2>3, <2>4, <2>6 DEF Kept
<1> QED
  BY <1>4, <1>5

LEMMA SendToMinionKeeps == ASSUME Inv, SendToMinion PROVE Kept'
<1>1. /\ UNCHANGED <<queue, minionWaiting, fromMinion, script, currentJob, orphaned, given,
                      results, lost, fromServer, toServer>>
      /\ sending # NoJob /\ sending' = NoJob /\ toMinion' = Append(toMinion, sending)
  BY DEF SendToMinion, scriptVars, serverVars, serverNet
<1>2. sending \in JobId /\ Single(sending) = {sending}
  BY <1>1 DEF Inv, TypeOK, Single
<1>3. /\ OnTheirWay = {} /\ OneAtMost(toMinion) /\ Answers = {} /\ currentJob = NoJob
  BY <1>1 DEF Inv, OneWithMinion
<1>4. /\ OnTheirWay' = {sending} /\ OneAtMost(toMinion')
  BY <1>1, <1>2, <1>3, LastJob DEF OnTheirWay, Inv, TypeOK
<1>5. /\ Answers' = Answers /\ JobsOf(fromMinion)' = JobsOf(fromMinion)
      /\ JobsOf(toServer)' = JobsOf(toServer)
  BY <1>1 DEF Answers, JobsOf
<1>6. AtMinion' = AtMinion
  BY <1>1, <1>2, <1>3, <1>4, <1>5 DEF AtMinion, Single
<1>7. OneWithMinion'
  BY <1>1, <1>3, <1>4, <1>5 DEF OneWithMinion, Inv
<1>8. ClientKnows'
  BY <1>1, <1>6 DEF ClientKnows, Inv
<1>9. ~lost' => PlacesInOrder'
  BY <1>1, <1>5, <1>6 DEF PlacesInOrder, Inv
<1> QED
  BY <1>7, <1>8, <1>9 DEF Kept

LEMMA ResultFromMinionKeeps == ASSUME Inv, ResultFromMinion PROVE Kept'
<1> DEFINE m == Head(fromMinion)
           x == m.job
           y == Head(queue)
<1>1. /\ UNCHANGED <<toMinion, fromServer, script, currentJob, orphaned, given, results, lost>>
      /\ sending = NoJob /\ fromMinion # <<>> /\ m.subject = "RESULT"
      /\ fromMinion' = Tail(fromMinion) /\ toServer' = Append(toServer, m)
  BY DEF ResultFromMinion, FromMinion, Polling, scriptVars, serverVars
<1>2. m \in Messages /\ x \in JobId /\ x # NoJob /\ Single(x) = {x}
  BY <1>1, JobOfMessage, JobIdsAreNatural DEF Inv, TypeOK, Single
<1>3. /\ Answers = Answers' \cup {x} /\ OneAtMost(JobsOf(fromMinion))' /\ Answers' = {}
  BY <1>1, <1>2, FirstMessage DEF Answers, Inv, TypeOK, OneWithMinion
<1>4. currentJob = NoJob /\ OnTheirWay = {} /\ AtMinion = {x}
  BY <1>1, <1>3 DEF Inv, OneWithMinion, AtMinion, Single
<1>5. /\ OnTheirWay' = OnTheirWay /\ AtMinion' = Single(sending')
  BY <1>1, <1>3, <1>4 DEF OnTheirWay, AtMinion, Single
<1>6. orphaned = {} /\ ~minionWaiting
  BY <1>4 DEF Inv, ClientKnows
<1>7. /\ Jobs(JobsOf(toServer)') = Jobs(JobsOf(toServer)) \cup {x}
      /\ Increasing(JobsOf(toServer)) /\ Before(Jobs(JobsOf(toServer)), {x})
             => Increasing(JobsOf(toServer)')
  <2>1. JobsOf(toServer)' = JobsOf(Append(toServer, m))
    BY <1>1 DEF JobsOf
  <2> QED
    BY <1>2, <2>1, LastMessage DEF Inv, TypeOK
<1>8. OneWithMinion'
  BY <1>1, <1>3, <1>4, <1>5 DEF OneWithMinion, Inv
<1>9. CASE queue # <<>>
  <2>1. sending' = y /\ queue' = Tail(queue) /\ UNCHANGED minionWaiting
    BY <1>9 DEF ResultFromMinion
  <2>2. /\ y \in JobId /\ y # NoJob /\ Single(y) = {y} /\ Jobs(queue) = Jobs(queue') \cup {y}
        /\ Increasing(queue) => Increasing(queue') /\ Before({y}, Jobs(queue'))
    <3>1. queue \in Seq(JobId)
      BY DEF Inv, TypeOK
    <3>2. /\ y \in JobId /\ Jobs(queue) = Jobs(queue') \cup {y}
          /\ Increasing(queue) => Increasing(queue') /\ Before({y}, Jobs(queue'))
      BY <1>9, <2>1, <3>1, FirstJob
    <3> QED
      BY <3>2, JobIdsAreNatural DEF Single
  <2>3. AtMinion' = {y}
    BY <1>5, <2>1, <2>2
  <2>4. ClientKnows'
    BY <1>1, <1>6, <2>1, <2>3 DEF ClientKnows, Inv
  <2>5. ASSUME ~lost' PROVE PlacesInOrder'
    <3>1. PlacesInOrder
      BY <1>1, <2>5 DEF Inv
    <3>2. Before(Jobs(JobsOf(toServer)), {x})
      BY <1>4, <3>1 DEF PlacesInOrder, InOrder, Before
    <3> QED
      BY <1>1, <1>4, <1>7, <2>1, <2>2, <2>3, <3>1, <3>2 DEF PlacesInOrder, InOrder, Before
  <2> QED
    BY <1>8, <2>4, <2>5 DEF Kept
<1>10. CASE queue = <<>>
  <2>1. minionWaiting' = TRUE /\ UNCHANGED <<queue, sending>>
    BY <1>10 DEF ResultFromMinion
  <2>2. AtMinion' = {}
    BY <1>1, <1>5, <2>1 DEF Single
  <2>3. ClientKnows'
    BY <1>1, <1>6, <1>10, <2>1, <2>2 DEF ClientKnows, Inv
  <2>4. ASSUME ~lost' PROVE PlacesInOrder'
    <3>1. PlacesInOrder
      BY <1>1, <2>4 DEF Inv
    <3>2. Before(Jobs(JobsOf(toServer)), {x})
      BY <1>4, <3>1 DEF PlacesInOrder, InOrder, Before
    <3> QED
      BY <1>1, <1>4, <1>7, <2>1, <2>2, <3>1, <3>2 DEF PlacesInOrder, InOrder, Before
  <2> QED
    BY <1>8, <2>3, <2>4 DEF Kept
<1> QED
  BY <1>9, <1>10

LEMMA HelloFromMinionKeeps == ASSUME Inv, HelloFromMinion PROVE Kept'
<1> DEFINE m == Head(fromMinion)
<1>1. /\ UNCHANGED <<toMinion, fromServer, script, currentJob, orphaned, given, results, lost,
                      queue, minionWaiting, sending>>
      /\ fromMinion # <<>> /\ m.subject = "HELLO"
      /\ fromMinion' = Tail(fromMinion) /\ toServer' = Append(toServer, m)
  BY DEF HelloFromMinion, FromMinion, scriptVars, serverVars, clientVars
<1>2. m \in Messages /\ m.job = NoJob /\ Single(m.job) = {}
  BY <1>1, JobOfMessage DEF Inv, TypeOK, Single
<1>3. Answers' = Answers /\ OneAtMost(JobsOf(fromMinion))'
  <2>1. JobsOf(fromMinion)' = JobsOf(Tail(fromMinion))
    BY <1>1 DEF JobsOf
  <2>2. fromMinion \in Seq(Messages) /\ OneAtMost(JobsOf(fromMinion))
    BY DEF Inv, TypeOK, OneWithMinion
  <2>3. /\ Jobs(JobsOf(fromMinion)) = Jobs(JobsOf(Tail(fromMinion))) \cup Single(m.job)
        /\ OneAtMost(JobsOf(Tail(fromMinion)))
    BY <1>1, <2>2, FirstMessage
  <2> QED
    BY <1>2, <2>1, <2>3 DEF Answers
<1>4. OnTheirWay' = OnTheirWay /\ AtMinion' = AtMinion
  BY <1>1, <1>3 DEF OnTheirWay, AtMinion
<1>5. /\ Jobs(JobsOf(toServer)') = Jobs(JobsOf(toServer))
      /\ Increasing(JobsOf(toServer)) => Increasing(JobsOf(toServer)')
  <2>1. JobsOf(toServer)' = JobsOf(Append(toServer, m)) /\ Before(Jobs(JobsOf(toServer)), {})
    BY <1>1 DEF JobsOf, Before
  <2> QED
    BY <1>2, <2>1, LastMessage DEF Inv, TypeOK
<1>6. OneWithMinion'
  BY <1>1, <1>3, <1>4 DEF OneWithMinion, Inv
<1>7. ClientKnows'
  BY <1>1, <1>4 DEF ClientKnows, Inv
<1>8. ~lost' => PlacesInOrder'
  BY <1>1, <1>4, <1>5 DEF PlacesInOrder, Inv
<1> QED
  BY <1>6, <1>7, <1>8 DEF Kept

LEMMA GoodbyeFromMinionKeeps == ASSUME Inv, GoodbyeFromMinion PROVE Kept'
<1> DEFINE m == Head(fromMinion)
<1>1. /\ UNCHANGED <<toMinion, fromServer, script, currentJob, orphaned, given, results, lost,
                      queue, minionWaiting, sending, toServer>>
      /\ fromMinion # <<>> /\ m.subject = "GOODBYE" /\ fromMinion' = Tail(fromMinion)
  BY DEF GoodbyeFromMinion, FromMinion, scriptVars, serverVars
<1>2. m \in Messages /\ m.job = NoJob /\ Single(m.job) = {}
  BY <1>1, JobOfMessage DEF Inv, TypeOK, Single
<1>3. Answers' = Answers /\ OneAtMost(JobsOf(fromMinion))'
  <2>1. JobsOf(fromMinion)' = JobsOf(Tail(fromMinion))
    BY <1>1 DEF JobsOf
  <2>2. fromMinion \in Seq(Messages) /\ OneAtMost(JobsOf(fromMinion))
    BY DEF Inv, TypeOK, OneWithMinion
  <2>3. /\ Jobs(JobsOf(fromMinion)) = Jobs(JobsOf(Tail(fromMinion))) \cup Single(m.job)
        /\ OneAtMost(JobsOf(Tail(fromMinion)))
    BY <1>1, <2>2, FirstMessage
  <2> QED
    BY <1>2, <2>1, <2>3 DEF Answers
<1>4. OnTheirWay' = OnTheirWay /\ AtMinion' = AtMinion /\ JobsOf(toServer)' = JobsOf(toServer)
  BY <1>1, <1>3 DEF OnTheirWay, AtMinion, JobsOf
<1>5. OneWithMinion'
  BY <1>1, <1>3, <1>4 DEF OneWithMinion, Inv
<1>6. ClientKnows'
  BY <1>1, <1>4 DEF ClientKnows, Inv
<1>7. ~lost' => PlacesInOrder'
  BY <1>1, <1>4 DEF PlacesInOrder, Inv
<1> QED
  BY <1>5, <1>6, <1>7 DEF Kept
-----------------------------------------------------------------------------
(* The minion's steps *)

LEMMA StartScriptKeeps == ASSUME Inv, StartScript PROVE Kept'
<1>1. /\ UNCHANGED <<toMinion, fromServer, currentJob, orphaned, given, results, lost,
                      queue, minionWaiting, sending, toServer>>
      /\ script = "none" /\ script' = "ready"
      /\ fromMinion' = Append(fromMinion, Msg("HELLO", NoJob))
  BY DEF StartScript, clientVars, serverVars, serverNet
<1>2. Answers' = Answers /\ OneAtMost(JobsOf(fromMinion))'
  <2>1. JobsOf(fromMinion)' = JobsOf(Append(fromMinion, Msg("HELLO", NoJob)))
    BY <1>1 DEF JobsOf
  <2>2. fromMinion \in Seq(Messages) /\ OneAtMost(JobsOf(fromMinion))
    BY DEF Inv, TypeOK, OneWithMinion
  <2>3. Single(NoJob) = {}
    BY DEF Single
  <2> QED
    BY <2>1, <2>2, <2>3, LastMessage, MessagesMade DEF Answers
<1>3. OnTheirWay' = OnTheirWay /\ AtMinion' = AtMinion /\ JobsOf(toServer)' = JobsOf(toServer)
  BY <1>1, <1>2 DEF OnTheirWay, AtMinion, JobsOf
<1>4. OneWithMinion'
  BY <1>1, <1>2, <1>3 DEF OneWithMinion, Inv
<1>5. ClientKnows'
  BY <1>1, <1>3 DEF ClientKnows, Inv
<1>6. ~lost' => PlacesInOrder'
  BY <1>1, <1>3 DEF PlacesInOrder, Inv
<1> QED
  BY <1>4, <1>5, <1>6 DEF Kept

LEMMA NextJobKeeps == ASSUME Inv, NextJob PROVE Kept'
<1> DEFINE x == Head(toMinion)
<1>1. /\ UNCHANGED <<fromMinion, fromServer, orphaned, given, results, lost,
                      queue, minionWaiting, sending, toServer>>
      /\ script = "ready" /\ script' = "computing" /\ toMinion # <<>>
      /\ currentJob' = x /\ toMinion' = Tail(toMinion)
  BY DEF NextJob, clientVars, serverVars, serverNet
<1>2. toMinion \in Seq(JobId) /\ OneAtMost(toMinion)
  BY DEF Inv, TypeOK, OneWithMinion
<1>3. /\ x \in JobId /\ OnTheirWay = OnTheirWay' \cup {x} /\ OneAtMost(toMinion')
      /\ OnTheirWay' = {}
  BY <1>1, <1>2, FirstJob DEF OnTheirWay
<1>4. x # NoJob /\ Single(x) = {x}
  BY <1>3, JobIdsAreNatural DEF Single
<1>5. Answers = {} /\ currentJob = NoJob /\ sending = NoJob
  BY <1>3, <1>4 DEF Inv, OneWithMinion
<1>6. /\ Answers' = Answers /\ JobsOf(fromMinion)' = JobsOf(fromMinion)
      /\ JobsOf(toServer)' = JobsOf(toServer)
  BY <1>1 DEF Answers, JobsOf
<1>7. AtMinion' = AtMinion
  BY <1>1, <1>3, <1>4, <1>5, <1>6 DEF AtMinion, Single
<1>8. OneWithMinion'
  BY <1>1, <1>3, <1>5, <1>6 DEF OneWithMinion, Inv
<1>9. ClientKnows'
  BY <1>1, <1>4, <1>7 DEF ClientKnows, Inv
<1>10. ~lost' => PlacesInOrder'
  BY <1>1, <1>6, <1>7 DEF PlacesInOrder, Inv
<1> QED
  BY <1>8, <1>9, <1>10 DEF Kept

LEMMA SubmitResultKeeps == ASSUME Inv, SubmitResult PROVE Kept'
<1> DEFINE m == Msg("RESULT", currentJob)
<1>1. /\ UNCHANGED <<toMinion, fromServer, orphaned, given, results, lost,
                      queue, minionWaiting, sending, toServer>>
      /\ script = "computing" /\ script' = "ready" /\ currentJob' = NoJob
      /\ fromMinion' = Append(fromMinion, m)
  BY DEF SubmitResult, clientVars, serverVars, serverNet
<1>2. currentJob # NoJob /\ currentJob \in JobId /\ Single(currentJob) = {currentJob}
  BY <1>1 DEF Inv, ClientKnows, TypeOK, Single
<1>3. m \in Messages /\ m.job = currentJob
  BY <1>2, MessagesMade
<1>4. Answers = {} /\ OnTheirWay = {} /\ sending = NoJob
  BY <1>2 DEF Inv, OneWithMinion
<1>5. Answers' = {currentJob} /\ OneAtMost(JobsOf(fromMinion))'
  <2>1. JobsOf(fromMinion)' = JobsOf(Append(fromMinion, m))
    BY <1>1 DEF JobsOf
  <2>2. fromMinion \in Seq(Messages) /\ OneAtMost(JobsOf(fromMinion))
    BY DEF Inv, TypeOK, OneWithMinion
  <2>3. /\ Jobs(JobsOf(Append(fromMinion, m))) = Jobs(JobsOf(fromMinion)) \cup Single(m.job)
        /\ (Jobs(JobsOf(fromMinion)) = {} => OneAtMost(JobsOf(Append(fromMinion, m))))
    BY <1>3, <2>2, LastMessage
  <2> QED
    BY <1>2, <1>3, <1>4, <2>1, <2>3 DEF Answers
<1>6. OnTheirWay' = OnTheirWay /\ JobsOf(toServer)' = JobsOf(toServer)
  BY <1>1 DEF OnTheirWay, JobsOf
<1>7. AtMinion' = AtMinion
  BY <1>1, <1>2, <1>4, <1>5, <1>6 DEF AtMinion, Single
<1>8. OneWithMinion'
  BY <1>1, <1>4, <1>5, <1>6 DEF OneWithMinion, Inv
<1>9. ClientKnows'
  BY <1>1, <1>7 DEF ClientKnows, Inv
<1>10. ~lost' => PlacesInOrder'
  BY <1>1, <1>6, <1>7 DEF PlacesInOrder, Inv
<1> QED
  BY <1>8, <1>9, <1>10 DEF Kept

LEMMA OneJobAtMost == ASSUME NEW s, OneAtMost(s), NEW a \in Jobs(s), NEW b \in Jobs(s)
                      PROVE  a = b
BY DEF OneAtMost, Jobs, ToSet

\* A minion that goes takes one job along at most.
LEMMA EndsKeeps ==
    ASSUME Inv, NEW sent, Ends(sent), OneAtMost(JobsOf(sent)),
           Jobs(JobsOf(sent)) \subseteq Answers
    PROVE  Kept'
<1> DEFINE H == Answers \cup Single(currentJob) \cup OnTheirWay
           A == Jobs(JobsOf(sent))
           D == H \ A
<1>1. /\ UNCHANGED <<fromServer, given, results, lost, queue, minionWaiting, sending, toServer>>
      /\ script' = "none" /\ currentJob' = NoJob /\ toMinion' = <<>> /\ fromMinion' = sent
  BY DEF Ends, clientVars, serverVars, serverNet
<1>2. orphaned' = orphaned \cup D
  BY DEF Ends, Answers, OnTheirWay, Jobs, Single
<1>3. /\ Answers' = A /\ JobsOf(fromMinion)' = JobsOf(sent) /\ OnTheirWay' = {}
      /\ JobsOf(toServer)' = JobsOf(toServer) /\ OneAtMost(toMinion')
  BY <1>1, JobsOfNone DEF Answers, OnTheirWay, JobsOf
<1>4. AtMinion' = A \cup Single(sending)
  BY <1>1, <1>3 DEF AtMinion, Single
<1>5. AtMinion = H \cup Single(sending)
  BY DEF AtMinion
<1>6. sending # NoJob => H = {}
  BY DEF Inv, OneWithMinion, Single
<1>7. ASSUME NEW a \in H, NEW b \in H PROVE a = b
  <2>1. OneAtMost(JobsOf(fromMinion)) /\ OneAtMost(toMinion)
    BY DEF Inv, OneWithMinion
  <2>2. CASE a \in Answers
    <3>1. b \in Answers
      BY <2>2, <1>7 DEF Inv, OneWithMinion, Single
    <3> QED
      BY <2>1, <2>2, <3>1, OneJobAtMost DEF Answers
  <2>3. CASE a \in Single(currentJob)
    BY <1>7, <2>3 DEF Inv, OneWithMinion, Single
  <2>4. CASE a \in OnTheirWay
    <3>1. b \in OnTheirWay
      BY <2>4, <1>7 DEF Inv, OneWithMinion, Single
    <3> QED
      BY <2>1, <2>4, <3>1, OneJobAtMost DEF OnTheirWay
  <2> QED
    BY <1>7, <2>2, <2>3, <2>4
<1>8. A \subseteq H
  OBVIOUS
<1>9. A = {} \/ sending = NoJob
  BY <1>6, <1>8
<1>10. OneWithMinion'
  BY <1>1, <1>3, <1>9 DEF OneWithMinion
<1> HIDE DEF A, H
<1>11. Single(sending) = {} \/ (H = {} /\ A = {})
  BY <1>6, <1>8 DEF Single
<1>12. /\ AtMinion = AtMinion' \cup D /\ AtMinion' \cap D = {}
       /\ AtMinion' # {} => D = {}
  BY <1>4, <1>5, <1>7, <1>8, <1>11
<1> HIDE DEF D
<1>13. ClientKnows'
  BY <1>1, <1>2, <1>12 DEF ClientKnows, Inv
<1>14. ASSUME ~lost' PROVE PlacesInOrder'
  <2>1. PlacesInOrder
    BY <1>1, <1>14 DEF Inv
  <2>2. D \subseteq Nat
    BY <1>12, TypedPlaces, JobIdsAreNatural DEF Inv
  <2>3. \A d \in D : /\ d \notin Jobs(results) /\ d \notin Jobs(JobsOf(toServer))
                    /\ d \notin Jobs(queue) /\ d \notin Jobs(fromServer)
    BY <1>12, <2>1, <2>2 DEF PlacesInOrder, InOrder, Before
  <2>4. InOrder(Jobs(results), Jobs(JobsOf(toServer)), AtMinion', Jobs(queue), Jobs(fromServer))
    BY <1>12, <2>1 DEF PlacesInOrder, InOrder, Before
  <2>5. Jobs(results) \cup Jobs(JobsOf(toServer)) \cup AtMinion' \cup Jobs(queue)
           \cup Jobs(fromServer) = (1..given) \ orphaned'
    BY <1>2, <1>12, <2>1, <2>3 DEF PlacesInOrder
  <2>6. orphaned' \subseteq 1..given
    BY <1>2, <1>12, <2>1 DEF PlacesInOrder
  <2> QED
    BY <1>1, <1>3, <2>1, <2>4, <2>5, <2>6 DEF PlacesInOrder
<1> QED
  BY <1>10, <1>13, <1>14 DEF Kept

LEMMA DieKeeps == ASSUME Inv, Die PROVE Kept'
<1>1. PICK n \in 0..Len(fromMinion) : Ends(SubSeq(fromMinion, 1, n))
  BY DEF Die
<1>2. /\ fromMinion \in Seq(Messages) /\ JobsOf(fromMinion) \in Seq(Nat)
      /\ OneAtMost(JobsOf(fromMinion)) /\ Len(JobsOf(fromMinion)) = Len(fromMinion)
  BY JobsOfMessages DEF Inv, TypeOK, OneWithMinion
<1>3. JobsOf(SubSeq(fromMinion, 1, n)) = SubSeq(JobsOf(fromMinion), 1, n)
  BY <1>2, JobsOfMessages
<1>4. /\ OneAtMost(JobsOf(SubSeq(fromMinion, 1, n)))
      /\ Jobs(JobsOf(SubSeq(fromMinion, 1, n))) \subseteq Answers
  BY <1>2, <1>3, OnPrefix DEF Answers
<1> QED
  BY <1>1, <1>4, EndsKeeps

LEMMA LeaveKeeps == ASSUME Inv, Leave PROVE Kept'
<1> DEFINE sent == Append(fromMinion, Msg("GOODBYE", NoJob))
<1>1. Ends(sent)
  BY DEF Leave
<1>2. OneAtMost(JobsOf(sent)) /\ Jobs(JobsOf(sent)) \subseteq Answers
  <2>1. fromMinion \in Seq(Messages) /\ OneAtMost(JobsOf(fromMinion))
    BY DEF Inv, TypeOK, OneWithMinion
  <2>2. Single(NoJob) = {}
    BY DEF Single
  <2> QED
    BY <2>1, <2>2, LastMessage, MessagesMade DEF Answers
<1> HIDE DEF sent
<1> QED
  BY <1>1, <1>2, EndsKeeps

-----------------------------------------------------------------------------
(* The server's steps *)

LEMMA GiveJobKeeps == ASSUME Inv, GiveJob PROVE Kept'
<1>1. /\ UNCHANGED <<toMinion, fromMinion, script, currentJob, orphaned, results, lost,
                      queue, minionWaiting, sending, toServer>>
      /\ ~lost /\ given < MaxJobs /\ given' = given + 1
      /\ fromServer' = Append(fromServer, given + 1)
  BY DEF GiveJob, clientVars, scriptVars, minionNet
<1>2. PICK n \in Nat : n = given + 1 /\ given \in Nat /\ n \in JobId
  BY <1>1, WorkerAssumption DEF Inv, TypeOK, JobId
<1>3. /\ Answers' = Answers /\ OnTheirWay' = OnTheirWay /\ AtMinion' = AtMinion
      /\ JobsOf(fromMinion)' = JobsOf(fromMinion) /\ JobsOf(toServer)' = JobsOf(toServer)
  BY <1>1 DEF Answers, OnTheirWay, AtMinion, JobsOf
<1>4. OneWithMinion'
  BY <1>1, <1>3 DEF OneWithMinion, Inv
<1>5. ClientKnows'
  BY <1>1, <1>3 DEF ClientKnows, Inv
<1>6. PlacesInOrder
  BY <1>1 DEF Inv
<1>7. fromServer \in Seq(JobId) /\ fromServer' = Append(fromServer, n)
  BY <1>1, <1>2 DEF Inv, TypeOK
<1>8. /\ Jobs(fromServer') = Jobs(fromServer) \cup {n}
      /\ Increasing(fromServer) /\ Before(Jobs(fromServer), {n}) => Increasing(fromServer')
  BY <1>2, <1>7, LastJob
<1>9. \A a \in 1..given : a < n
  BY <1>2
<1>10. /\ Before(Jobs(results), {n}) /\ Before(Jobs(JobsOf(toServer)), {n})
       /\ Before(AtMinion, {n}) /\ Before(Jobs(queue), {n}) /\ Before(Jobs(fromServer), {n})
  BY <1>6, <1>9 DEF PlacesInOrder, Before
<1>11. InOrder(Jobs(results), Jobs(JobsOf(toServer)), AtMinion, Jobs(queue), Jobs(fromServer'))
  BY <1>6, <1>8, <1>10 DEF PlacesInOrder, InOrder, Before
<1>12. n \notin orphaned
  BY <1>2, <1>6 DEF PlacesInOrder
<1>13. 1..given' = (1..given) \cup {n}
  BY <1>1, <1>2
<1> QED
  BY <1>1, <1>3, <1>4, <1>5, <1>6, <1>8, <1>10, <1>11, <1>12, <1>13 DEF Kept, PlacesInOrder
LEMMA ServerReceivesKeeps == ASSUME Inv, ServerReceives PROVE Kept'
<1> DEFINE m == Head(toServer)
           x == m.job
<1>1. /\ UNCHANGED <<toMinion, fromMinion, script, currentJob, orphaned, given, lost,
                      queue, minionWaiting, sending, fromServer>>
      /\ toServer # <<>> /\ toServer' = Tail(toServer)
      /\ results' = IF m.subject = "RESULT" /\ ~lost THEN Append(results, x) ELSE results
  BY DEF ServerReceives, clientVars, scriptVars, minionNet
<1>2. /\ Answers' = Answers /\ OnTheirWay' = OnTheirWay /\ AtMinion' = AtMinion
      /\ JobsOf(fromMinion)' = JobsOf(fromMinion)
  BY <1>1 DEF Answers, OnTheirWay, AtMinion, JobsOf
<1>3. OneWithMinion'
  BY <1>1, <1>2 DEF OneWithMinion, Inv
<1>4. ClientKnows'
  BY <1>1, <1>2 DEF ClientKnows, Inv
<1>5. ASSUME ~lost' PROVE PlacesInOrder'
  <2>1. PlacesInOrder /\ ~lost
    BY <1>1, <1>5 DEF Inv
  <2>2. toServer \in Seq(Messages) /\ results \in Seq(JobId)
    BY DEF Inv, TypeOK
  <2>3. JobsOf(toServer)' = JobsOf(Tail(toServer))
    BY <1>1 DEF JobsOf
  <2>4. m \in Messages /\ Jobs(JobsOf(toServer)) = Jobs(JobsOf(toServer)') \cup Single(x)
    BY <1>1, <2>2, <2>3, FirstMessage
  <2>5. Increasing(JobsOf(toServer)') /\ Before(Single(x), Jobs(JobsOf(toServer)'))
    BY <1>1, <2>1, <2>2, <2>3, FirstMessage DEF PlacesInOrder
  <2>6. CASE m.subject = "RESULT"
    <3>1. x \in JobId /\ Single(x) = {x}
      BY <2>4, <2>6, JobOfMessage, JobIdsAreNatural DEF Single
    <3>2. results' = Append(results, x)
      BY <1>1, <2>1, <2>6
    <3>3. Before(Jobs(results), {x})
      BY <2>1, <2>4, <3>1 DEF PlacesInOrder, InOrder, Before
    <3>4. Jobs(results') = Jobs(results) \cup {x} /\ Increasing(results')
      BY <2>1, <2>2, <3>1, <3>2, <3>3, LastJob DEF PlacesInOrder
    <3> QED
      BY <1>1, <1>2, <2>1, <2>4, <2>5, <3>1, <3>4 DEF PlacesInOrder, InOrder, Before
  <2>7. CASE m.subject # "RESULT"
    <3>1. Single(x) = {} /\ results' = results
      BY <1>1, <2>4, <2>7, JobOfMessage DEF Single
    <3> QED
      BY <1>1, <1>2, <2>1, <2>4, <2>5, <3>1 DEF PlacesInOrder
  <2> QED
    BY <2>6, <2>7
<1> QED
  BY <1>3, <1>4, <1>5 DEF Kept

LEMMA RestKeeps == ASSUME Inv, ServerTimesOut \/ UNCHANGED vars PROVE Kept'
<1>1. /\ UNCHANGED <<toMinion, fromMinion, script, currentJob, orphaned, given, results,
                      queue, minionWaiting, sending, fromServer, toServer>>
      /\ lost' = TRUE \/ lost' = lost
  BY DEF ServerTimesOut, vars, clientVars, scriptVars, serverVars, minionNet, serverNet
<1>2. /\ Answers' = Answers /\ OnTheirWay' = OnTheirWay /\ AtMinion' = AtMinion
      /\ JobsOf(fromMinion)' = JobsOf(fromMinion) /\ JobsOf(toServer)' = JobsOf(toServer)
  BY <1>1 DEF Answers, OnTheirWay, AtMinion, JobsOf
<1>3. OneWithMinion' /\ ClientKnows'
  BY <1>1, <1>2 DEF OneWithMinion, ClientKnows, Inv
<1>4. ~lost' => PlacesInOrder'
  BY <1>1, <1>2 DEF PlacesInOrder, Inv
<1> QED
  BY <1>3, <1>4 DEF Kept

-----------------------------------------------------------------------------
(* The theorems *)

LEMMA InitImpliesInv == Init => Inv
<1> SUFFICES ASSUME Init PROVE Inv
  OBVIOUS
<1> USE DEF Init
<1>1. TypeOK
  <2>1. <<>> \in Seq(JobId) /\ <<>> \in Seq(Messages)
    OBVIOUS
  <2>2. 0 \in 0..MaxScripts /\ 0 \in 0..MaxJobs
    BY WorkerAssumption
  <2> QED
    BY <2>1, <2>2 DEF TypeOK
<1>2. JobsOf(<<>>) = <<>>
  <2>1. <<>> \in Seq(Messages)
    OBVIOUS
  <2> QED
    BY <2>1, JobsOfMessages
<1>3. Answers = {} /\ OnTheirWay = {} /\ AtMinion = {}
  BY <1>2, JobsOfNone DEF Answers, OnTheirWay, AtMinion, Single
<1>4. OneWithMinion /\ ClientKnows
  BY <1>2, <1>3, JobsOfNone DEF OneWithMinion, ClientKnows
<1>5. PlacesInOrder
  BY <1>2, <1>3, JobsOfNone DEF PlacesInOrder, InOrder, Before
<1> QED
  BY <1>1, <1>4, <1>5 DEF Inv

LEMMA StepKeepsInv == Inv /\ [Next]_vars => Inv'
<1> SUFFICES ASSUME Inv, [Next]_vars PROVE Inv'
  OBVIOUS
<1>1. TypeOK'
  <2>1. CASE Next
    BY <2>1, TypeIsPreserved DEF Inv
  <2>2. CASE UNCHANGED vars
    BY <2>2 DEF Inv, TypeOK, vars, clientVars, scriptVars, serverVars, minionNet, serverNet
  <2> QED
    BY <2>1, <2>2
<1>2. Kept'
  BY JobFromNetworkKeeps, SendToMinionKeeps, ResultFromMinionKeeps, HelloFromMinionKeeps,
     GoodbyeFromMinionKeeps, StartScriptKeeps, NextJobKeeps, SubmitResultKeeps, DieKeeps,
     LeaveKeeps, GiveJobKeeps, ServerReceivesKeeps, RestKeeps
  DEF Next, Client, Minion, Server
<1> QED
  BY <1>1, <1>2 DEF Inv, Kept

LEMMA InvIsKept == Spec => []Inv
<1> QED
  BY InitImpliesInv, StepKeepsInv, PTL DEF Spec

\* In a row, the places between the client and its minion hold one job at most.
LEMMA InvImpliesIdle == Inv => MinionWaitsIffIdle
<1> SUFFICES ASSUME Inv PROVE MinionWaitsIffIdle
  OBVIOUS
<1> DEFINE s1 == JobsOf(fromMinion) \o <<currentJob>>
           s2 == s1 \o toMinion
           s3 == s2 \o <<sending>>
<1>1. /\ JobsOf(fromMinion) \in Seq(Nat) /\ toMinion \in Seq(Nat)
      /\ currentJob \in Nat /\ sending \in Nat
  BY TypedPlaces DEF Inv
<1>2. /\ OneAtMost(JobsOf(fromMinion)) /\ OneAtMost(toMinion)
      /\ Answers = {} \/ Single(currentJob) = {}
      /\ Answers \cup Single(currentJob) = {} \/ OnTheirWay = {}
      /\ Answers \cup Single(currentJob) \cup OnTheirWay = {} \/ Single(sending) = {}
  BY DEF Inv, OneWithMinion, Single
<1>3. /\ s1 \in Seq(Nat) /\ Jobs(s1) = Answers \cup Single(currentJob) /\ OneAtMost(s1)
  BY <1>1, <1>2, OnOne, OnConcat, ZenonT(30) DEF Answers
<1> HIDE DEF s1
<1>4. /\ s2 \in Seq(Nat) /\ Jobs(s2) = Answers \cup Single(currentJob) \cup OnTheirWay
      /\ OneAtMost(s2)
  BY <1>1, <1>2, <1>3, OnConcat DEF OnTheirWay
<1> HIDE DEF s2
<1>5. s3 \in Seq(Nat) /\ Jobs(s3) = AtMinion /\ OneAtMost(s3)
  <2> DEFINE u == <<sending>>
  <2>1. u \in Seq(Nat) /\ Jobs(u) = Single(sending) /\ OneAtMost(u)
    BY <1>1, OnOne
  <2> HIDE DEF u
  <2>2. Jobs(s2) = {} \/ Jobs(u) = {}
    BY <1>2, <1>4, <2>1
  <2>3. /\ s2 \o u \in Seq(Nat) /\ Jobs(s2 \o u) = Jobs(s2) \cup Jobs(u)
        /\ OneAtMost(s2 \o u)
    BY <1>4, <2>1, <2>2, OnConcat
  <2>4. Jobs(s2 \o u) = AtMinion
    BY <1>4, <2>1, <2>3 DEF AtMinion
  <2> QED
    BY <2>3, <2>4 DEF u
<1>6. WithMinion = s3
  BY DEF WithMinion, s1, s2
<1>7. ToSet(s3) # {}
  <2>1. Len(s3) = Len(s2) + 1 /\ Len(s2) \in Nat /\ DOMAIN s3 = 1..Len(s3)
    BY <1>1, <1>4
  <2>2. Len(s3) \in DOMAIN s3
    BY <2>1
  <2> QED
    BY <2>2 DEF ToSet
<1> HIDE DEF s3
<1>8. ToSet(WithMinion) = {NoJob} <=> AtMinion = {}
  BY <1>5, <1>6, <1>7 DEF Jobs
<1> QED
  BY <1>5, <1>6, <1>8 DEF MinionWaitsIffIdle, Inv, ClientKnows, OneAtMost

\* In a row, all places hold the jobs in order.
LEMMA InvImpliesOrder == Inv => JobsKeepTheirOrder
<1> SUFFICES ASSUME Inv, ~lost PROVE JobsKeepTheirOrder
  BY DEF JobsKeepTheirOrder
<1> DEFINE s1 == results \o JobsOf(toServer)
           s2 == s1 \o WithMinion
           s3 == s2 \o queue
           s4 == s3 \o fromServer
<1>1. /\ JobsOf(toServer) \in Seq(Nat) /\ queue \in Seq(Nat) /\ results \in Seq(Nat)
      /\ fromServer \in Seq(Nat)
  BY TypedPlaces DEF Inv
<1>2. PlacesInOrder
  BY DEF Inv
<1>3. WithMinion \in Seq(Nat) /\ Jobs(WithMinion) = AtMinion /\ Increasing(WithMinion)
  <2>1. OneAtMost(WithMinion)
    BY InvImpliesIdle DEF MinionWaitsIffIdle, OneAtMost
  <2>2. /\ JobsOf(fromMinion) \in Seq(Nat) /\ toMinion \in Seq(Nat)
        /\ <<currentJob>> \in Seq(Nat) /\ <<sending>> \in Seq(Nat)
        /\ Jobs(<<currentJob>>) = Single(currentJob) /\ Jobs(<<sending>>) = Single(sending)
    BY TypedPlaces, OnOne DEF Inv
  <2> DEFINE t1 == JobsOf(fromMinion) \o <<currentJob>>
             t2 == t1 \o toMinion
             t3 == t2 \o <<sending>>
  <2>3. t1 \in Seq(Nat) /\ Jobs(t1) = Answers \cup Single(currentJob)
    <3> DEFINE u == <<currentJob>>
    <3>1. u \in Seq(Nat) /\ Jobs(u) = Single(currentJob)
      BY <2>2
    <3> HIDE DEF u
    <3>2. /\ JobsOf(fromMinion) \o u \in Seq(Nat)
          /\ Jobs(JobsOf(fromMinion) \o u) = Jobs(JobsOf(fromMinion)) \cup Jobs(u)
      BY <2>2, <3>1, OnConcat
    <3> QED
      BY <3>1, <3>2 DEF Answers, u
  <2> HIDE DEF t1
  <2>4. t2 \in Seq(Nat) /\ Jobs(t2) = Answers \cup Single(currentJob) \cup OnTheirWay
    BY <2>2, <2>3, OnConcat DEF OnTheirWay
  <2> HIDE DEF t2
  <2>5. t3 \in Seq(Nat) /\ Jobs(t3) = AtMinion
    BY <2>2, <2>4, OnConcat DEF AtMinion
  <2>6. WithMinion = t3
    BY DEF WithMinion, t1, t2
  <2> HIDE DEF t3
  <2>7. WithMinion \in Seq(Nat) /\ Jobs(WithMinion) = AtMinion
    BY <2>5, <2>6
  <2>8. Increasing(WithMinion)
    BY <2>1, <2>7 DEF OneAtMost, Increasing
  <2> QED
    BY <2>7, <2>8
<1> HIDE DEF WithMinion
<1>4. /\ s1 \in Seq(Nat) /\ Jobs(s1) = Jobs(results) \cup Jobs(JobsOf(toServer))
      /\ Increasing(s1)
  BY <1>1, <1>2, OnConcat DEF PlacesInOrder, InOrder
<1>5. /\ Before(Jobs(s1), AtMinion) /\ Before(Jobs(s1), Jobs(queue))
      /\ Before(Jobs(s1), Jobs(fromServer))
  BY <1>2, <1>4 DEF PlacesInOrder, InOrder, Before
<1> HIDE DEF s1
<1>6. s2 \in Seq(Nat) /\ Jobs(s2) = Jobs(s1) \cup AtMinion /\ Increasing(s2)
  BY <1>3, <1>4, <1>5, OnConcat
<1>7. Before(Jobs(s2), Jobs(queue)) /\ Before(Jobs(s2), Jobs(fromServer))
  BY <1>2, <1>5, <1>6 DEF PlacesInOrder, InOrder, Before
<1> HIDE DEF s2
<1>8. s3 \in Seq(Nat) /\ Jobs(s3) = Jobs(s2) \cup Jobs(queue) /\ Increasing(s3)
  BY <1>1, <1>2, <1>6, <1>7, OnConcat DEF PlacesInOrder
<1>9. Before(Jobs(s3), Jobs(fromServer))
  BY <1>2, <1>7, <1>8 DEF PlacesInOrder, InOrder, Before
<1> HIDE DEF s3
<1>10. s4 \in Seq(Nat) /\ Jobs(s4) = Jobs(s3) \cup Jobs(fromServer) /\ Increasing(s4)
  BY <1>1, <1>2, <1>8, <1>9, OnConcat DEF PlacesInOrder
<1>11. OnTheWay = s4
  BY DEF OnTheWay, s1, s2, s3
<1> HIDE DEF s4
<1>12. Jobs(OnTheWay) = (1..given) \ orphaned /\ Increasing(OnTheWay)
  BY <1>2, <1>4, <1>6, <1>8, <1>10, <1>11 DEF PlacesInOrder
<1> QED
  BY <1>12 DEF JobsKeepTheirOrder, Jobs, Increasing

\* Every variable of the client, its minions and what the server knows of them has its
\* type; in particular a RESULT always names a job.
THEOREM TypeIsKept == Spec => []TypeOK
BY InvIsKept, PTL DEF Inv

\* A client gives its minion one job at a time, and minionWaiting_ says exactly whether
\* one is out, with any number of minions that die, leave and are replaced
\* (worker.cpp:42-66).
THEOREM OneJobAtATime == Spec => []MinionWaitsIffIdle
BY InvIsKept, InvImpliesIdle, PTL

\* Until the server gives a client up, the jobs it has sent and no minion has taken to
\* its grave are, each once, on their way, in the order of their sending: the results
\* come back in order, none twice, none is forgotten (worker.cpp:42-66).
THEOREM ResultsInOrder == Spec => []JobsKeepTheirOrder
BY InvIsKept, InvImpliesOrder, PTL
=============================================================================
