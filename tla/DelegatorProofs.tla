-------------------------- MODULE DelegatorProofs ---------------------------
(***************************************************************************)
(* Theorems of Delegator, for any requesters, workers, job types and       *)
(* bounds: what it promises (its safety properties), and that it           *)
(* implements RequestReply.                                                *)
(***************************************************************************)
EXTENDS Delegator, FiniteSetTheorems, SequenceTheorems, TLAPS

-----------------------------------------------------------------------------
(* The operators the actions are built from *)

\* An ordering of a finite set is a sequence that holds each element once.
LEMMA OrderingIsSeq ==
    ASSUME NEW S, IsFiniteSet(S), NEW q \in SetToSeqs(S)
    PROVE  /\ q \in Seq(S)
           /\ Len(q) = Cardinality(S)
           /\ DOMAIN q = 1..Len(q)
           /\ \A i \in DOMAIN q : q[i] \in S
           /\ \A i, j \in DOMAIN q : q[i] = q[j] => i = j
           /\ \A x \in S : \E i \in DOMAIN q : q[i] = x
  <1>1. Cardinality(S) \in Nat
    BY FS_CardinalityType
  <1>2. q \in [1..Cardinality(S) -> S]
    BY DEF SetToSeqs
  <1>3. q \in Seq(S)
    BY <1>1, <1>2, IsASeq
  <1>4. Len(q) = Cardinality(S)
    BY <1>1, <1>2, <1>3, LenProperties
  <1>5. \A i, j \in DOMAIN q : q[i] = q[j] => i = j
    BY DEF SetToSeqs
  <1>6. \A x \in S : \E i \in DOMAIN q : q[i] = x
    <2> DEFINE D == 1..Cardinality(S)
    <2>1. q \in Injection(D, S)
      BY <1>2, <1>5 DEF Injection, IsInjective
    <2>2. Cardinality(D) = Cardinality(S)
      BY <1>1, FS_Interval
    <2>3. q \in Surjection(D, S)
      <3> HIDE DEF D
      <3> QED
        BY <2>1, <2>2, FS_Injection
    <2> QED
      BY <1>2, <2>3 DEF Surjection
  <1> QED
    BY <1>1, <1>2, <1>3, <1>4, <1>5, <1>6

\* What is where in a concatenation.
LEMMA Concatenation ==
    ASSUME NEW S, NEW s \in Seq(S), NEW t \in Seq(S)
    PROVE  /\ s \o t \in Seq(S)
           /\ Len(s \o t) = Len(s) + Len(t)
           /\ DOMAIN (s \o t) = 1..(Len(s) + Len(t))
           /\ \A i \in 1..Len(s) : (s \o t)[i] = s[i]
           /\ \A i \in (Len(s) + 1)..(Len(s) + Len(t)) :
                 i - Len(s) \in 1..Len(t) /\ (s \o t)[i] = t[i - Len(s)]
  <1>1. Len(s) \in Nat /\ Len(t) \in Nat
    BY LenProperties
  <1>2. /\ s \o t \in Seq(S)
        /\ Len(s \o t) = Len(s) + Len(t)
        /\ \A i \in 1..(Len(s) + Len(t)) :
              (s \o t)[i] = IF i <= Len(s) THEN s[i] ELSE t[i - Len(s)]
    BY ConcatProperties
  <1>3. DOMAIN (s \o t) = 1..(Len(s) + Len(t))
    BY <1>2, LenProperties
  <1>4. \A i \in 1..Len(s) : (s \o t)[i] = s[i]
    BY <1>1, <1>2
  <1>5. \A i \in (Len(s) + 1)..(Len(s) + Len(t)) :
          i - Len(s) \in 1..Len(t) /\ (s \o t)[i] = t[i - Len(s)]
    BY <1>1, <1>2
  <1> QED
    BY <1>2, <1>3, <1>4, <1>5

\* Taking out position i shifts what stands behind it.
LEMMA WithoutIndexProperties ==
    ASSUME NEW S, NEW q \in Seq(S), NEW i \in 1..Len(q)
    PROVE  /\ RemoveAt(q, i) \in Seq(S)
           /\ Len(RemoveAt(q, i)) = Len(q) - 1
           /\ \A j \in 1..(Len(q) - 1) :
                 RemoveAt(q, i)[j] = IF j < i THEN q[j] ELSE q[j + 1]
  <1> DEFINE front == SubSeq(q, 1, i - 1)
             back  == SubSeq(q, i + 1, Len(q))
  <1>1. Len(q) \in Nat /\ \A j \in 1..Len(q) : q[j] \in S
    BY LenProperties, ElementOfSeq
  <1>2. /\ front \in Seq(S)
        /\ Len(front) = i - 1
        /\ \A j \in 1..(i - 1) : front[j] = q[j]
    BY <1>1, SubSeqProperties
  <1>3. /\ back \in Seq(S)
        /\ Len(back) = Len(q) - i
        /\ \A j \in 1..(Len(q) - i) : back[j] = q[j + i]
    BY <1>1, SubSeqProperties
  <1> HIDE DEF front, back
  <1>0. Len(front) + Len(back) = Len(q) - 1
    BY <1>1, <1>2, <1>3
  <1>4. RemoveAt(q, i) = front \o back
    BY DEF RemoveAt, front, back
  <1>5. /\ front \o back \in Seq(S)
        /\ Len(front \o back) = Len(q) - 1
        /\ \A j \in 1..(Len(q) - 1) :
              (front \o back)[j] = IF j <= i - 1 THEN front[j] ELSE back[j - (i - 1)]
    <2>1. /\ front \o back \in Seq(S)
          /\ Len(front \o back) = Len(front) + Len(back)
          /\ \A j \in 1..(Len(front) + Len(back)) :
                (front \o back)[j] = IF j <= Len(front) THEN front[j] ELSE back[j - Len(front)]
      BY <1>2, <1>3, ConcatProperties
    <2> QED
      BY <1>0, <1>2, <2>1
  <1>6. ASSUME NEW j \in 1..(Len(q) - 1)
        PROVE  (front \o back)[j] = IF j < i THEN q[j] ELSE q[j + 1]
    <2>1. CASE j < i
      BY <1>1, <1>2, <1>5, <2>1
    <2>2. CASE ~(j < i)
      <3>1. j - (i - 1) \in 1..(Len(q) - i) /\ (j - (i - 1)) + i = j + 1
        BY <1>1, <2>2
      <3>2. back[j - (i - 1)] = q[j + 1]
        BY <1>3, <3>1
      <3> QED
        BY <1>1, <1>5, <2>2, <3>2
    <2> QED
      BY <2>1, <2>2
  <1> QED
    BY <1>4, <1>5, <1>6

\* The jobs receiveRequest appends.
LEMMA NewJobsAreJobs ==
    ASSUME TypeOK, NEW k \in Key, NEW types \in SUBSET JobType,
           NEW order \in SetToSeqs(types)
    PROVE  NewJobs(k, order) \in Seq(Job)
  <1>1. IsFiniteSet(types)
    BY DelegatorAssumption, FS_Subset
  <1>2. /\ DOMAIN order = 1..Len(order) /\ Len(order) \in Nat
        /\ \A i \in DOMAIN order : order[i] \in JobType
    BY <1>1, OrderingIsSeq, LenProperties
  <1>3. [i \in 1..Len(order) |->
              [type |-> order[i], id |-> nextJobId + i - 1, key |-> k]]
            \in [1..Len(order) -> Job]
    BY <1>2 DEF Job, TypeOK
  <1> QED
    BY <1>2, <1>3, IsASeq DEF NewJobs

\* Filling in a result changes the job's slot and the count, nothing else.
LEMMA FilledProperties ==
    ASSUME NEW r \in Request, NEW job \in Job, NEW value \in Value
    PROVE  /\ Filled(r, job, value) \in Request
           /\ Filled(r, job, value).types = r.types
           /\ Filled(r, job, value).data = r.data
           /\ Filled(r, job, value).results = [r.results EXCEPT ![job.type] = value]
           /\ Filled(r, job, value).nDone = r.nDone + 1
  <1>1. [r.results EXCEPT ![job.type] = value] \in [JobType -> Value \cup {NoResult}]
    BY DEF Request, Job
  <1> DEFINE results == [r.results EXCEPT ![job.type] = value]
  <1>2. Filled(r, job, value) = [r EXCEPT !.results = results, !.nDone = r.nDone + 1]
    BY DEF Filled
  <1> HIDE DEF results
  <1>3. results \in [JobType -> Value \cup {NoResult}]
    BY <1>1 DEF results
  <1>4. [r EXCEPT !.results = results, !.nDone = r.nDone + 1] \in Request
    <2>1. r.nDone + 1 \in Nat
      BY DEF Request
    <2> DEFINE n == r.nDone + 1
    <2> HIDE DEF n
    <2>2. [r EXCEPT !.results = results, !.nDone = n] \in Request
      BY <1>3, <2>1 DEF Request, n
    <2> QED
      BY <2>2 DEF n
  <1>5. /\ [r EXCEPT !.results = results, !.nDone = r.nDone + 1].types = r.types
        /\ [r EXCEPT !.results = results, !.nDone = r.nDone + 1].data = r.data
        /\ [r EXCEPT !.results = results, !.nDone = r.nDone + 1].results = results
        /\ [r EXCEPT !.results = results, !.nDone = r.nDone + 1].nDone = r.nDone + 1
    BY DEF Request
  <1> QED
    BY <1>2, <1>4, <1>5 DEF results

-----------------------------------------------------------------------------
(* Type correctness *)

LEMMA InitTypeOK == Init => TypeOK
  <1> SUFFICES ASSUME Init PROVE TypeOK
    OBVIOUS
  <1>1. IsFiniteSet({}) /\ Cardinality({}) = 0
    BY FS_EmptySet
  <1>2. EmptyRequest \in Request
    BY DEF EmptyRequest, Request, Payload
  <1>3. /\ jobQueue \in Seq(Job)
        /\ held \in [Worker -> Seq(JobMsg)]
        /\ range \in [Worker -> JobRange]
        /\ wip \in [Worker -> SUBSET Job]
    BY DEF Init, JobRange
  <1>4. \A w \in Worker :
          /\ IsFiniteSet(wip[w]) /\ Cardinality(wip[w]) <= MaxJobs
          /\ w \notin connected => wip[w] = {}
          /\ \A job \in wip[w] : range[w].lo <= job.type /\ job.type < range[w].hi
    BY <1>1, DelegatorAssumption DEF Init
  <1>5. hellos \in [Worker -> 0..MaxHellos] /\ requests \in 0..MaxRequests
    BY DelegatorAssumption DEF Init
  <1>6. request \in [Key -> Request]
    BY <1>2 DEF Init
  <1>7. crashed \in BOOLEAN
    BY DEF Init
  <1>8. /\ pending \subseteq Key /\ connected \subseteq Worker
        /\ nextJobId \in Nat /\ cursor \in Nat \ {0}
        /\ phase \in {"requester", "heartbeat", "network", "onPoll"}
    BY DEF Init
  <1> QED
    BY <1>3, <1>4, <1>5, <1>6, <1>7, <1>8 DEF TypeOK

LEMMA ReceiveRequestTypeOK ==
    ASSUME TypeOK, NEW k \in Key, ReceiveRequest(k)
    PROVE  TypeOK'
  <1> USE DEF ReceiveRequest, workerVars
  <1>0. PICK types \in (SUBSET JobType) \ {{}}, data \in Data :
          \E order \in SetToSeqs(types) :
            /\ request' = [request EXCEPT ![k] = NewRequest(types, data)]
            /\ jobQueue' = jobQueue \o NewJobs(k, order)
            /\ nextJobId' = nextJobId + Cardinality(types)
    OBVIOUS
  <1>1. PICK order \in SetToSeqs(types) :
          /\ request' = [request EXCEPT ![k] = NewRequest(types, data)]
          /\ jobQueue' = jobQueue \o NewJobs(k, order)
          /\ nextJobId' = nextJobId + Cardinality(types)
    BY <1>0
  <1>2. request' \in [Key -> Request]
    <2>1. NewRequest(types, data) \in Request
      BY DEF NewRequest, EmptyRequest, Request, Payload
    <2> QED
      BY <1>1, <2>1 DEF TypeOK
  <1>3. jobQueue' \in Seq(Job)
    <2>1. NewJobs(k, order) \in Seq(Job)
      BY NewJobsAreJobs
    <2> QED
      BY <1>1, <2>1, Concatenation DEF TypeOK
  <1>4. nextJobId' \in Nat
    <2>1. Cardinality(types) \in Nat
      BY DelegatorAssumption, FS_Subset, FS_CardinalityType
    <2> QED
      BY <1>1, <2>1 DEF TypeOK
  <1>5. requests' \in 0..MaxRequests
    BY DelegatorAssumption DEF TypeOK
  <1> QED
    BY <1>2, <1>3, <1>4, <1>5 DEF TypeOK

LEMMA DisconnectWorkerTypeOK ==
    ASSUME TypeOK, NEW w \in Worker, DisconnectWorker(w),
           phase' \in {"network", "onPoll"}
    PROVE  TypeOK'
  <1> USE DEF DisconnectWorker, envVars
  <1>1. jobQueue' \in Seq(Job)
    <2>1. PICK order \in SetToSeqs(wip[w]) : jobQueue' = order \o jobQueue
      OBVIOUS
    <2>2. order \in Seq(wip[w]) /\ wip[w] \subseteq Job
      BY OrderingIsSeq DEF TypeOK
    <2>3. order \in Seq(Job)
      BY <2>2, SeqMonotonic
    <2> QED
      BY <2>1, <2>3, Concatenation DEF TypeOK
  <1>2. IsFiniteSet({}) /\ Cardinality({}) = 0
    BY FS_EmptySet
  <1>3. \A v \in Worker :
          /\ IsFiniteSet(wip'[v]) /\ Cardinality(wip'[v]) <= MaxJobs
          /\ v \notin connected' => wip'[v] = {}
          /\ \A job \in wip'[v] : range'[v].lo <= job.type /\ job.type < range'[v].hi
    BY <1>2, DelegatorAssumption DEF TypeOK
  <1>4. range' \in [Worker -> JobRange] /\ wip' \in [Worker -> SUBSET Job]
    BY DEF TypeOK, JobRange
  <1> QED
    BY <1>1, <1>3, <1>4 DEF TypeOK

LEMMA HelloTypeOK ==
    ASSUME TypeOK, NEW w \in Worker, Hello(w)
    PROVE  TypeOK'
  <1> USE DEF Hello, queueVars
  <1>1. hellos' \in [Worker -> 0..MaxHellos]
    BY DelegatorAssumption DEF TypeOK
  <1>2. CASE w \in connected
    BY <1>1, <1>2 DEF TypeOK
  <1>3. CASE w \notin connected
    <2>1. PICK h \in Hellos[w] : range' = [range EXCEPT ![w] = RangeOf(h)]
      BY <1>3
    <2>2. RangeOf(h) \in JobRange
      BY DelegatorAssumption DEF RangeOf, JobRange
    <2>3. range' \in [Worker -> JobRange]
      BY <2>1, <2>2 DEF TypeOK
    <2>4. \A v \in Worker : \A job \in wip[v] :
             range'[v].lo <= job.type /\ job.type < range'[v].hi
      BY <1>3, <2>1 DEF TypeOK
    <2> QED
      BY <1>1, <1>3, <2>3, <2>4 DEF TypeOK
  <1> QED
    BY <1>2, <1>3

LEMMA ReceiveResultTypeOK ==
    ASSUME TypeOK, NEW w \in Worker, ReceiveResult(w)
    PROVE  TypeOK'
  <1> DEFINE msg == Head(held[w])
  <1>1. msg \in JobMsg /\ Tail(held[w]) \in Seq(JobMsg)
    BY HeadTailProperties DEF TypeOK, ReceiveResult
  <1>2. /\ held' \in [Worker -> Seq(JobMsg)]
        /\ phase' = "onPoll"
        /\ crashed' \in BOOLEAN
        /\ UNCHANGED <<jobQueue, nextJobId, connected, range, cursor, hellos, requests>>
    BY <1>1 DEF TypeOK, ReceiveResult
  <1>3. CASE UNCHANGED <<pending, request, reply, wip>>
    BY <1>2, <1>3 DEF TypeOK
  <1>4. CASE /\ w \in connected
             /\ UNCHANGED crashed
             /\ \E job \in Known(w, msg.id) :
                   AcceptResult(w, job, Compute(msg.type, msg.data))
    <2>1. PICK job \in Known(w, msg.id) :
                   AcceptResult(w, job, Compute(msg.type, msg.data))
      BY <1>4
    <2>2. job \in wip[w] /\ job \in Job /\ job.key \in Key /\ job.type \in JobType
      BY DEF Known, TypeOK, Job
    <2>3. Compute(msg.type, msg.data) \in Value
      BY <1>1 DEF Compute, Value, JobMsg
    <2> DEFINE r == Filled(request[job.key], job, Compute(msg.type, msg.data))
    <2>4. r \in Request
      <3>1. request[job.key] \in Request
        BY <2>2 DEF TypeOK
      <3> QED
        BY <2>2, <2>3, <3>1, FilledProperties
    <2>5. EmptyRequest \in Request
      BY DEF EmptyRequest, Request, Payload
    <2> HIDE DEF r
    <2>6. pending' \subseteq Key /\ request' \in [Key -> Request]
      <3>1. \/ /\ pending' = pending \ {job.key}
               /\ request' = [request EXCEPT ![job.key] = EmptyRequest]
            \/ /\ request' = [request EXCEPT ![job.key] = r]
               /\ pending' = pending
        BY <2>1 DEF AcceptResult, r
      <3>2. pending' \subseteq Key
        BY <3>1 DEF TypeOK
      <3>3. request \in [Key -> Request]
        BY DEF TypeOK
      <3>4. CASE request' = [request EXCEPT ![job.key] = EmptyRequest]
        BY <2>5, <3>2, <3>3, <3>4
      <3>5. CASE request' = [request EXCEPT ![job.key] = r]
        BY <2>4, <3>2, <3>3, <3>5
      <3> QED
        BY <3>1, <3>2, <3>4, <3>5
    <2>7. wip' = [wip EXCEPT ![w] = @ \ {job}]
      BY <2>1 DEF AcceptResult
    <2>8. \A v \in Worker : wip'[v] \subseteq wip[v]
      BY <2>7 DEF TypeOK
    <2>9. ASSUME NEW v \in Worker
          PROVE  IsFiniteSet(wip'[v]) /\ Cardinality(wip'[v]) <= MaxJobs
      <3>1. IsFiniteSet(wip[v]) /\ Cardinality(wip[v]) <= MaxJobs
        BY DEF TypeOK
      <3>2. IsFiniteSet(wip'[v]) /\ Cardinality(wip'[v]) <= Cardinality(wip[v])
        BY <2>8, <3>1, FS_Subset
      <3>3. Cardinality(wip[v]) \in Nat /\ Cardinality(wip'[v]) \in Nat
        BY <3>1, <3>2, FS_CardinalityType
      <3> QED
        BY <3>1, <3>2, <3>3, DelegatorAssumption
    <2>10. wip' \in [Worker -> SUBSET Job]
      BY <2>7 DEF TypeOK
    <2> QED
      BY <1>2, <1>4, <2>6, <2>8, <2>9, <2>10 DEF TypeOK
  <1> QED
    BY <1>3, <1>4 DEF ReceiveResult

LEMMA AssignTypeOK ==
    ASSUME TypeOK, NEW w \in Worker, Assign(w)
    PROVE  TypeOK'
  <1> USE DEF Assign, controlVars
  <1> DEFINE job == jobQueue[cursor]
  <1>1. cursor \in 1..Len(jobQueue)
    BY LenProperties DEF TypeOK
  <1>2. job \in Job
    BY <1>1, ElementOfSeq DEF TypeOK
  <1>3. jobQueue' \in Seq(Job)
    BY <1>1, WithoutIndexProperties DEF TypeOK
  <1>4. pending' \subseteq Key
    BY <1>2 DEF TypeOK, Job
  <1>5. held' \in [Worker -> Seq(JobMsg)]
    <2>1. [type |-> job.type, id |-> job.id, data |-> request[job.key].data] \in JobMsg
      BY <1>2 DEF TypeOK, Job, JobMsg, Request
    <2> QED
      BY <2>1, AppendProperties DEF TypeOK
  <1>6. wip' = [wip EXCEPT ![w] = @ \cup {job}] /\ wip' \in [Worker -> SUBSET Job]
    BY <1>2 DEF TypeOK
  <1>7. ASSUME NEW v \in Worker
        PROVE  IsFiniteSet(wip'[v]) /\ Cardinality(wip'[v]) <= MaxJobs
    <2>1. IsFiniteSet(wip[v]) /\ Cardinality(wip[v]) \in Nat
      BY FS_CardinalityType DEF TypeOK
    <2>2. CASE v = w
      <3>00. Cardinality(wip[v]) < MaxJobs
        BY <2>2 DEF Eligible
      <3> HIDE DEF job
      <3>0. /\ IsFiniteSet(wip[v] \cup {job})
            /\ Cardinality(wip[v] \cup {job}) =
                  IF job \in wip[v] THEN Cardinality(wip[v]) ELSE Cardinality(wip[v]) + 1
        BY <2>1, FS_AddElement
      <3>1. IsFiniteSet(wip[v] \cup {job}) /\ Cardinality(wip[v] \cup {job}) <= Cardinality(wip[v]) + 1
        BY <2>1, <3>0
      <3>2. Cardinality(wip[v] \cup {job}) \in Nat
        BY <3>1, FS_CardinalityType
      <3>3. wip'[v] = wip[v] \cup {job}
        BY <1>6, <2>2 DEF TypeOK
      <3>4. Cardinality(wip[v] \cup {job}) <= MaxJobs
        BY <2>1, <3>00, <3>1, <3>2, DelegatorAssumption
      <3> QED
        BY <3>1, <3>3, <3>4
    <2>3. CASE v # w
      BY <1>6, <2>3 DEF TypeOK
    <2> QED
      BY <2>2, <2>3
  <1>8. \A v \in Worker :
          /\ v \notin connected' => wip'[v] = {}
          /\ \A j \in wip'[v] : range'[v].lo <= j.type /\ j.type < range'[v].hi
    BY <1>6 DEF Eligible, TypeOK
  <1> HIDE DEF job
  <1> QED
    BY <1>3, <1>4, <1>5, <1>6, <1>7, <1>8 DEF TypeOK

LEMMA NextTypeOK ==
    ASSUME TypeOK, [Next]_vars
    PROVE  TypeOK'
  <1>1. CASE UNCHANGED vars
    BY <1>1 DEF TypeOK, vars, queueVars, workerVars, controlVars, envVars
  <1>2. ASSUME NEW k \in Key, ReceiveRequest(k) PROVE TypeOK'
    BY <1>2, ReceiveRequestTypeOK
  <1>3. ASSUME NEW k \in Key, Retrieve(k) PROVE TypeOK'
    BY <1>3 DEF Retrieve, TypeOK, queueVars, workerVars, controlVars
  <1>4. ASSUME NEW w \in Worker, WorkerStep(w) PROVE TypeOK'
    BY <1>4, DisconnectWorkerTypeOK, HelloTypeOK, ReceiveResultTypeOK
       DEF WorkerStep, HeartbeatGoodbye, NetworkGoodbye
  <1>5. CASE NoMessage
    BY <1>5 DEF NoMessage, TypeOK, queueVars, workerVars, envVars
  <1>6. ASSUME NEW w \in Worker, Assign(w) PROVE TypeOK'
    BY <1>6, AssignTypeOK
  <1>7. CASE SkipJob
    BY <1>7 DEF SkipJob, TypeOK, queueVars, workerVars, envVars
  <1>8. CASE EndPass
    BY <1>8 DEF EndPass, TypeOK, queueVars, workerVars, envVars
  <1> QED
    BY <1>1, <1>2, <1>3, <1>4, <1>5, <1>6, <1>7, <1>8 DEF Next, Pass

\* Every variable keeps its type, no worker ever has more than MaxJobs jobs or
\* one outside its range: for every pool of workers and every load.
THEOREM TypeCorrect == Spec => []TypeOK
  <1>1. Init => TypeOK
    BY InitTypeOK
  <1>2. TypeOK /\ [Next]_vars => TypeOK'
    BY NextTypeOK
  <1> QED
    BY <1>1, <1>2, PTL DEF Spec

-----------------------------------------------------------------------------
(* Conservation of jobs *)

\* The inductive invariant.  That a completed request leaves no job behind needs
\* nDone to count the filled slots; that the filled slot had no second job needs
\* every job to be in one place.
JobInv == TypeOK /\ OnePlacePerJob /\ JobsMatchOpenSlots /\ DoneCountsFilledSlots

LEMMA QueueDomain ==
    ASSUME TypeOK
    PROVE  /\ DOMAIN jobQueue = 1..Len(jobQueue) /\ Len(jobQueue) \in Nat
           /\ \A i \in 1..Len(jobQueue) : jobQueue[i] \in Job
           /\ Live \subseteq Job
  <1>1. jobQueue \in Seq(Job)
    BY DEF TypeOK
  <1>2. /\ DOMAIN jobQueue = 1..Len(jobQueue) /\ Len(jobQueue) \in Nat
        /\ \A i \in 1..Len(jobQueue) : jobQueue[i] \in Job
    BY <1>1, LenProperties, ElementOfSeq
  <1> QED
    BY <1>2 DEF Live, Queued, TypeOK

\* Steps that move jobs about but neither make nor finish any.
LEMMA SameJobs ==
    ASSUME JobsMatchOpenSlots, DoneCountsFilledSlots,
           Live' = Live, UNCHANGED <<pending, request>>
    PROVE  JobsMatchOpenSlots' /\ DoneCountsFilledSlots'
  BY DEF JobsMatchOpenSlots, DoneCountsFilledSlots, Open

LEMMA AssignKeepsJobs ==
    ASSUME JobInv, NEW w \in Worker, Assign(w)
    PROVE  JobInv'
  <1> DEFINE i == cursor
             job == jobQueue[i]
             n == Len(jobQueue)
             old(a) == IF a < i THEN a ELSE a + 1
  <1>1. TypeOK /\ TypeOK'
    BY AssignTypeOK DEF JobInv
  <1>2. /\ i \in 1..n /\ n \in Nat /\ DOMAIN jobQueue = 1..n
        /\ Live \subseteq Job
    BY <1>1, QueueDomain DEF TypeOK, Assign
  <1>3. /\ wip' = [wip EXCEPT ![w] = @ \cup {job}]
        /\ jobQueue' = RemoveAt(jobQueue, i)
        /\ nextJobId' = nextJobId /\ request' = request
        /\ pending' = pending \cup {job.key}
    BY DEF Assign
  <1>4. /\ DOMAIN jobQueue' = 1..(n - 1)
        /\ \A a \in 1..(n - 1) : jobQueue'[a] = jobQueue[old(a)]
    <2>0. jobQueue \in Seq(Job) /\ i \in 1..Len(jobQueue)
      BY <1>1, <1>2 DEF TypeOK
    <2>1. /\ jobQueue' \in Seq(Job) /\ Len(jobQueue') = n - 1
          /\ \A a \in 1..(n - 1) :
                jobQueue'[a] = IF a < i THEN jobQueue[a] ELSE jobQueue[a + 1]
      BY <1>3, <2>0, WithoutIndexProperties
    <2>2. ASSUME NEW a \in 1..(n - 1) PROVE jobQueue'[a] = jobQueue[old(a)]
      <3>1. CASE a < i
        BY <2>1, <3>1
      <3>2. CASE ~(a < i)
        BY <2>1, <3>2
      <3> QED
        BY <3>1, <3>2
    <2> QED
      BY <2>1, <2>2, LenProperties
  <1>5. /\ \A a \in 1..(n - 1) : old(a) \in 1..n /\ old(a) # i
        /\ \A a, b \in 1..(n - 1) : old(a) = old(b) => a = b
        /\ \A b \in 1..n : b # i => \E a \in 1..(n - 1) : old(a) = b
    <2>1. ASSUME NEW b \in 1..n, b # i PROVE \E a \in 1..(n - 1) : old(a) = b
      <3>1. CASE b < i
        <4>1. b \in 1..(n - 1) /\ old(b) = b
          BY <1>2, <3>1
        <4> QED
          BY <4>1
      <3>2. CASE b > i
        <4>1. b - 1 \in 1..(n - 1) /\ old(b - 1) = b
          BY <1>2, <3>2
        <4> QED
          BY <4>1
      <3> QED
        BY <1>2, <2>1, <3>1, <3>2
    <2>2. \A a \in 1..(n - 1) : old(a) \in 1..n /\ old(a) # i
      BY <1>2
    <2>3. \A a, b \in 1..(n - 1) : old(a) = old(b) => a = b
      BY <1>2
    <2> QED
      BY <2>1, <2>2, <2>3
  <1>6. wip'[w] = wip[w] \cup {job} /\ \A v \in Worker : v # w => wip'[v] = wip[v]
    BY <1>1, <1>3 DEF TypeOK
  <1> HIDE DEF old
  <1>7. Live' = Live
    <2>1. Queued' \cup {job} = Queued
      <3>1. \A a \in 1..(n - 1) : jobQueue'[a] \in Queued
        BY <1>2, <1>4, <1>5 DEF Queued
      <3>2. ASSUME NEW b \in 1..n, b # i PROVE jobQueue[b] \in Queued'
        <4>1. PICK a \in 1..(n - 1) : old(a) = b
          BY <1>5, <3>2
        <4> QED
          BY <1>4, <4>1 DEF Queued
      <3>3. job \in Queued
        BY <1>2 DEF Queued
      <3>4. Queued' \subseteq Queued
        BY <1>4, <3>1 DEF Queued
      <3>5. Queued \subseteq Queued' \cup {job}
        BY <1>2, <3>2 DEF Queued
      <3> QED
        BY <3>3, <3>4, <3>5
    <2>2. UNION {wip'[v] : v \in Worker} = (UNION {wip[v] : v \in Worker}) \cup {job}
      BY <1>6
    <2> QED
      BY <2>1, <2>2 DEF Live
  <1>8. job \in Live
    BY <1>2 DEF Live, Queued
  <1>9. pending' = pending
    BY <1>3, <1>8 DEF JobInv, JobsMatchOpenSlots, Open
  <1>10. JobsMatchOpenSlots' /\ DoneCountsFilledSlots'
    BY <1>3, <1>7, <1>9, SameJobs DEF JobInv
  <1>11. OnePlacePerJob'
    <2> USE DEF JobInv, OnePlacePerJob
    <2>1. \A a, b \in DOMAIN jobQueue' : jobQueue'[a].id = jobQueue'[b].id => a = b
      <3> TAKE a, b \in DOMAIN jobQueue'
      <3>1. /\ jobQueue'[a] = jobQueue[old(a)] /\ old(a) \in DOMAIN jobQueue
            /\ jobQueue'[b] = jobQueue[old(b)] /\ old(b) \in DOMAIN jobQueue
        BY <1>2, <1>4, <1>5
      <3>2. jobQueue'[a].id = jobQueue'[b].id => old(a) = old(b)
        BY <3>1
      <3> QED
        BY <1>4, <1>5, <3>2
    <2>2. \A a \in DOMAIN jobQueue', v \in Worker :
             \A j \in wip'[v] : j.id # jobQueue'[a].id
      <3> TAKE a \in DOMAIN jobQueue', v \in Worker
      <3>1. jobQueue'[a] = jobQueue[old(a)] /\ old(a) \in 1..n /\ old(a) # i
        BY <1>4, <1>5
      <3>2. job.id # jobQueue'[a].id
        BY <1>2, <3>1
      <3>3. \A j \in wip[v] : j.id # jobQueue'[a].id
        BY <1>2, <3>1
      <3> QED
        BY <1>6, <3>2, <3>3
    <2>3. \A u, v \in Worker : \A a \in wip'[u], b \in wip'[v] :
             a.id = b.id => u = v /\ a = b
      <3>1. \A v \in Worker : \A j \in wip[v] : j.id # job.id
        BY <1>2
      <3> HIDE DEF job
      <3> QED
        BY <1>6, <3>1
    <2>4. \A j \in Live' : j.id < nextJobId'
      BY <1>3, <1>7
    <2> QED
      BY <2>1, <2>2, <2>3, <2>4
  <1> QED
    BY <1>1, <1>10, <1>11 DEF JobInv

LEMMA DisconnectKeepsJobs ==
    ASSUME JobInv, NEW w \in Worker, DisconnectWorker(w),
           phase' \in {"network", "onPoll"}
    PROVE  JobInv'
  <1>1. TypeOK /\ TypeOK'
    BY DisconnectWorkerTypeOK DEF JobInv
  <1>2. PICK order \in SetToSeqs(wip[w]) : jobQueue' = order \o jobQueue
    BY DEF DisconnectWorker
  <1> DEFINE n == Len(jobQueue)
             m == Len(order)
  <1>3. /\ order \in Seq(Job) /\ m \in Nat /\ DOMAIN order = 1..m
        /\ \A a \in 1..m : order[a] \in wip[w]
        /\ \A a, b \in 1..m : order[a] = order[b] => a = b
        /\ \A j \in wip[w] : \E a \in 1..m : order[a] = j
    <2>1. IsFiniteSet(wip[w]) /\ wip[w] \subseteq Job
      BY <1>1 DEF TypeOK
    <2>2. order \in Seq(wip[w])
      BY <2>1, OrderingIsSeq
    <2> QED
      BY <2>1, <2>2, OrderingIsSeq, SeqMonotonic, LenProperties
  <1>4. /\ jobQueue \in Seq(Job) /\ n \in Nat /\ DOMAIN jobQueue = 1..n
    BY <1>1, QueueDomain DEF TypeOK
  <1>5. /\ DOMAIN jobQueue' = 1..(m + n)
        /\ \A a \in 1..m : jobQueue'[a] = order[a]
        /\ \A a \in (m + 1)..(m + n) : jobQueue'[a] = jobQueue[a - m]
    <2> HIDE DEF m, n
    <2>1. Len(order) = m /\ Len(jobQueue) = n
      BY DEF m, n
    <2>2. order \in Seq(Job) /\ jobQueue \in Seq(Job)
      BY <1>3, <1>4
    <2>3. /\ DOMAIN (order \o jobQueue) = 1..(m + n)
          /\ \A a \in 1..m : (order \o jobQueue)[a] = order[a]
          /\ \A a \in (m + 1)..(m + n) : (order \o jobQueue)[a] = jobQueue[a - m]
      BY <2>1, <2>2, Concatenation, ZenonT(30)
    <2> QED
      BY <1>2, <2>3
  <1>6. wip'[w] = {} /\ \A v \in Worker : v # w => wip'[v] = wip[v]
    BY <1>1 DEF DisconnectWorker, TypeOK
  <1>7. nextJobId' = nextJobId /\ pending' = pending /\ request' = request
    BY DEF DisconnectWorker
  <1> HIDE DEF m, n
  <1>8. Live' = Live
    <2>1. Queued' = Queued \cup wip[w]
      <3>1. Queued' \subseteq Queued \cup wip[w]
        BY <1>3, <1>4, <1>5 DEF Queued
      <3>2. ASSUME NEW j \in wip[w] PROVE j \in Queued'
        <4>1. PICK a \in 1..m : order[a] = j
          BY <1>3
        <4>2. a \in 1..(m + n) /\ jobQueue'[a] = j
          BY <1>3, <1>4, <1>5, <4>1
        <4> QED
          BY <1>5, <4>2 DEF Queued
      <3>3. ASSUME NEW a \in 1..n PROVE jobQueue[a] \in Queued'
        <4>1. a + m \in (m + 1)..(m + n) /\ (a + m) - m = a /\ a + m \in 1..(m + n)
          BY <1>3, <1>4
        <4> QED
          BY <1>5, <4>1 DEF Queued
      <3> QED
        BY <1>4, <3>1, <3>2, <3>3 DEF Queued
    <2>2. (UNION {wip'[v] : v \in Worker}) \cup wip[w] = UNION {wip[v] : v \in Worker}
      BY <1>6
    <2> QED
      BY <2>1, <2>2 DEF Live
  <1>9. JobsMatchOpenSlots' /\ DoneCountsFilledSlots'
    BY <1>7, <1>8, SameJobs DEF JobInv
  <1>10. OnePlacePerJob'
    <2> USE DEF JobInv, OnePlacePerJob
    <2>1. ASSUME NEW a \in 1..(m + n), NEW b \in 1..(m + n),
                 jobQueue'[a].id = jobQueue'[b].id
          PROVE  a = b
      <3>1. CASE a <= m /\ b <= m
        <4>1. order[a] = order[b]
          BY <1>3, <1>4, <1>5, <2>1, <3>1
        <4> QED
          BY <1>3, <3>1, <4>1
      <3>2. CASE a > m /\ b > m
        <4>1. a - m \in 1..n /\ b - m \in 1..n
          BY <1>3, <1>4, <3>2
        <4>2. jobQueue[a - m].id = jobQueue[b - m].id
          BY <1>3, <1>4, <1>5, <2>1, <3>2
        <4>3. a - m = b - m
          BY <1>4, <4>1, <4>2
        <4> QED
          BY <1>3, <4>3
      <3>3. CASE a <= m /\ b > m
        <4>1. order[a] \in wip[w] /\ jobQueue'[a] = order[a]
          BY <1>3, <1>5, <3>3
        <4>2. b - m \in DOMAIN jobQueue /\ jobQueue'[b] = jobQueue[b - m]
          BY <1>3, <1>4, <1>5, <3>3
        <4> QED
          BY <2>1, <4>1, <4>2
      <3>4. CASE a > m /\ b <= m
        <4>1. order[b] \in wip[w] /\ jobQueue'[b] = order[b]
          BY <1>3, <1>5, <3>4
        <4>2. a - m \in DOMAIN jobQueue /\ jobQueue'[a] = jobQueue[a - m]
          BY <1>3, <1>4, <1>5, <3>4
        <4> QED
          BY <2>1, <4>1, <4>2
      <3> QED
        BY <1>3, <1>4, <3>1, <3>2, <3>3, <3>4
    <2>2. ASSUME NEW a \in 1..(m + n), NEW v \in Worker, NEW j \in wip'[v]
          PROVE  j.id # jobQueue'[a].id
      <3>1. v # w /\ j \in wip[v]
        BY <1>6
      <3>2. CASE a <= m
        <4>1. order[a] \in wip[w] /\ jobQueue'[a] = order[a]
          BY <1>3, <1>5, <3>2
        <4> QED
          BY <3>1, <4>1
      <3>3. CASE a > m
        <4>1. a - m \in DOMAIN jobQueue /\ jobQueue'[a] = jobQueue[a - m]
          BY <1>3, <1>4, <1>5, <3>3
        <4> QED
          BY <3>1, <4>1
      <3> QED
        BY <1>3, <1>4, <3>2, <3>3
    <2>3. \A u, v \in Worker : \A a \in wip'[u], b \in wip'[v] :
             a.id = b.id => u = v /\ a = b
      BY <1>6
    <2>4. \A j \in Live' : j.id < nextJobId'
      BY <1>7, <1>8
    <2> QED
      BY <1>5, <2>1, <2>2, <2>3, <2>4
  <1> QED
    BY <1>1, <1>9, <1>10 DEF JobInv
\* Where the jobs of a new request stand and what they are.
LEMMA NewJobsProperties ==
    ASSUME TypeOK, NEW k \in Key, NEW types \in SUBSET JobType,
           NEW order \in SetToSeqs(types)
    PROVE  /\ Len(order) \in Nat /\ Len(order) = Cardinality(types)
           /\ NewJobs(k, order) \in Seq(Job)
           /\ Len(NewJobs(k, order)) = Len(order)
           /\ \A a \in 1..Len(order) :
                 /\ NewJobs(k, order)[a] =
                       [type |-> order[a], id |-> nextJobId + a - 1, key |-> k]
                 /\ order[a] \in types
           /\ \A a, b \in 1..Len(order) : order[a] = order[b] => a = b
           /\ \A t \in types : \E a \in 1..Len(order) : order[a] = t
  <1>1. IsFiniteSet(types)
    BY DelegatorAssumption, FS_Subset
  <1>2. /\ DOMAIN order = 1..Len(order) /\ Len(order) \in Nat
        /\ Len(order) = Cardinality(types)
        /\ \A a \in 1..Len(order) : order[a] \in types
        /\ \A a, b \in 1..Len(order) : order[a] = order[b] => a = b
        /\ \A t \in types : \E a \in 1..Len(order) : order[a] = t
    BY <1>1, OrderingIsSeq, LenProperties
  <1>3. NewJobs(k, order) \in Seq(Job)
    BY NewJobsAreJobs
  <1>4. /\ DOMAIN NewJobs(k, order) = 1..Len(order)
        /\ \A a \in 1..Len(order) : NewJobs(k, order)[a] =
              [type |-> order[a], id |-> nextJobId + a - 1, key |-> k]
    BY <1>2 DEF NewJobs
  <1>5. Len(NewJobs(k, order)) = Len(order)
    BY <1>2, <1>3, <1>4, LenProperties
  <1> QED
    BY <1>2, <1>3, <1>4, <1>5

\* A key that is not pending has no live job, so the new jobs are the only ones
\* of their key; their ids have not been given out before.
LEMMA ReceiveRequestKeepsJobs ==
    ASSUME JobInv, NEW k \in Key, ReceiveRequest(k)
    PROVE  JobInv'
  <1>1. TypeOK /\ TypeOK'
    BY ReceiveRequestTypeOK DEF JobInv
  <1>2. PICK types \in (SUBSET JobType) \ {{}}, data \in Data :
          \E order \in SetToSeqs(types) :
            /\ request' = [request EXCEPT ![k] = NewRequest(types, data)]
            /\ jobQueue' = jobQueue \o NewJobs(k, order)
            /\ nextJobId' = nextJobId + Cardinality(types)
    BY DEF ReceiveRequest
  <1>3. PICK order \in SetToSeqs(types) :
          /\ request' = [request EXCEPT ![k] = NewRequest(types, data)]
          /\ jobQueue' = jobQueue \o NewJobs(k, order)
          /\ nextJobId' = nextJobId + Cardinality(types)
    BY <1>2
  <1>4. k \notin pending /\ pending' = pending \cup {k} /\ wip' = wip
    BY DEF ReceiveRequest, workerVars
  <1> DEFINE n == Len(jobQueue)
             m == Len(order)
             new(a) == [type |-> order[a], id |-> nextJobId + a - 1, key |-> k]
             New == {new(a) : a \in 1..m}
  <1>5. /\ m \in Nat /\ m = Cardinality(types) /\ types # {} /\ types \subseteq JobType
        /\ \A a \in 1..m : NewJobs(k, order)[a] = new(a) /\ order[a] \in types
        /\ \A a, b \in 1..m : order[a] = order[b] => a = b
        /\ \A t \in types : \E a \in 1..m : order[a] = t
    BY <1>1, NewJobsProperties
  <1>6. /\ jobQueue \in Seq(Job) /\ n \in Nat /\ DOMAIN jobQueue = 1..n
        /\ Live \subseteq Job /\ nextJobId \in Nat
    BY <1>1, QueueDomain DEF TypeOK
  <1>7. /\ DOMAIN jobQueue' = 1..(n + m)
        /\ \A a \in 1..n : jobQueue'[a] = jobQueue[a]
        /\ \A a \in (n + 1)..(n + m) : a - n \in 1..m /\ jobQueue'[a] = new(a - n)
    <2>1. NewJobs(k, order) \in Seq(Job) /\ Len(NewJobs(k, order)) = m
      BY <1>1, NewJobsProperties
    <2> HIDE DEF m, n, new
    <2>2. Len(jobQueue) = n
      BY DEF n
    <2>3. /\ DOMAIN jobQueue' = 1..(n + m)
          /\ \A a \in 1..n : jobQueue'[a] = jobQueue[a]
          /\ \A a \in (n + 1)..(n + m) :
                a - n \in 1..m /\ jobQueue'[a] = NewJobs(k, order)[a - n]
      BY <1>3, <1>6, <2>1, <2>2, Concatenation
    <2> QED
      BY <1>5, <2>3
  <1>8. /\ \A a \in 1..m : /\ new(a).id = nextJobId + a - 1
                           /\ new(a).key = k /\ new(a).type = order[a]
        /\ \A a, b \in 1..m : new(a).id = new(b).id => a = b
    BY <1>5, <1>6
  <1> HIDE DEF m, n, new
  <1>9. Live' = Live \cup New
    <2>1. Queued' \subseteq Queued \cup New
      <3>1. ASSUME NEW a \in 1..(n + m) PROVE jobQueue'[a] \in Queued \cup New
        <4>1. CASE a <= n
          BY <1>5, <1>6, <1>7, <4>1 DEF Queued
        <4>2. CASE a > n
          <5>1. a \in (n + 1)..(n + m)
            BY <1>5, <1>6, <4>2
          <5> QED
            BY <1>7, <5>1
        <4> QED
          BY <1>5, <1>6, <4>1, <4>2
      <3> QED
        BY <1>7, <3>1 DEF Queued
    <2>2. Queued \subseteq Queued'
      <3>1. ASSUME NEW a \in 1..n PROVE jobQueue[a] \in Queued'
        <4>1. a \in 1..(n + m) /\ jobQueue'[a] = jobQueue[a]
          BY <1>5, <1>6, <1>7
        <4> QED
          BY <1>7, <4>1 DEF Queued
      <3> QED
        BY <1>6, <3>1 DEF Queued
    <2>3. ASSUME NEW a \in 1..m PROVE new(a) \in Queued'
      <3>1. a + n \in (n + 1)..(n + m) /\ (a + n) - n = a /\ a + n \in 1..(n + m)
        BY <1>5, <1>6
      <3>2. jobQueue'[a + n] = new(a)
        BY <1>7, <3>1
      <3> QED
        BY <1>7, <3>1, <3>2 DEF Queued
    <2>4. Queued' = Queued \cup New
      BY <2>1, <2>2, <2>3
    <2> QED
      BY <1>4, <2>4 DEF Live
  <1> HIDE DEF New
  <1>10. \A j \in New : \E a \in 1..m : j = new(a)
    BY DEF New
  <1>11. /\ request'[k] = NewRequest(types, data)
         /\ \A x \in Key : x # k => request'[x] = request[x]
    BY <1>1, <1>3 DEF TypeOK
  <1>12. /\ request'[k].types = types /\ request'[k].nDone = 0
         /\ \A t \in JobType : request'[k].results[t] = NoResult
    BY <1>11 DEF NewRequest, EmptyRequest
  <1>13. /\ \A x \in Key, t \in JobType : x # k => (Open(x, t)' <=> Open(x, t))
         /\ \A t \in JobType : Open(k, t)' <=> t \in types
    BY <1>4, <1>11, <1>12 DEF Open
  <1>14. \A j \in Live : j.key # k /\ j.key \in Key /\ j.type \in JobType
    BY <1>4, <1>6 DEF JobInv, JobsMatchOpenSlots, Open, Job
  <1>15. JobsMatchOpenSlots'
    <2>1. ASSUME NEW j \in Live' PROVE Open(j.key, j.type)'
      <3>1. CASE j \in Live
        <4>1. Open(j.key, j.type) /\ j.key # k /\ j.key \in Key /\ j.type \in JobType
          BY <1>14, <3>1 DEF JobInv, JobsMatchOpenSlots
        <4> QED
          BY <1>13, <4>1
      <3>2. CASE j \in New
        <4>1. PICK a \in 1..m : j = new(a)
          BY <1>10, <3>2
        <4>2. j.key = k /\ j.type \in types
          BY <1>5, <1>8, <4>1
        <4> QED
          BY <1>5, <1>13, <4>2
      <3> QED
        BY <1>9, <2>1, <3>1, <3>2
    <2>2. ASSUME NEW a \in Live', NEW b \in Live', a.key = b.key, a.type = b.type
          PROVE  a = b
      <3>1. CASE a \in Live /\ b \in Live
        BY <2>2, <3>1 DEF JobInv, JobsMatchOpenSlots
      <3>2. CASE a \in New /\ b \in New
        <4>1. PICK x \in 1..m, y \in 1..m : a = new(x) /\ b = new(y)
          BY <1>10, <3>2
        <4> QED
          BY <1>5, <1>8, <2>2, <4>1
      <3>3. \A j \in New : j.key = k
        BY <1>8, <1>10
      <3> QED
        BY <1>9, <1>14, <2>2, <3>1, <3>2, <3>3
    <2>3. ASSUME NEW x \in Key, NEW t \in JobType, Open(x, t)'
          PROVE  \E j \in Live' : j.key = x /\ j.type = t
      <3>1. CASE x = k
        <4>1. t \in types
          BY <1>13, <2>3, <3>1
        <4>2. PICK a \in 1..m : order[a] = t
          BY <1>5, <4>1
        <4>3. new(a) \in New /\ new(a).key = k /\ new(a).type = t
          BY <1>8, <4>2 DEF New
        <4> QED
          BY <1>9, <3>1, <4>3
      <3>2. CASE x # k
        BY <1>9, <1>13, <2>3, <3>2 DEF JobInv, JobsMatchOpenSlots
      <3> QED
        BY <3>1, <3>2
    <2> QED
      BY <2>1, <2>2, <2>3 DEF JobsMatchOpenSlots
  <1>16. DoneCountsFilledSlots'
    <2>1. ASSUME NEW x \in pending'
          PROVE  LET filled == {t \in request[x].types : request[x].results[t] # NoResult}
                 IN  (/\ request[x].nDone = Cardinality(filled)
                      /\ request[x].nDone < Cardinality(request[x].types))'
      <3>1. CASE x = k
        <4>1. {t \in request'[x].types : request'[x].results[t] # NoResult} = {}
          BY <1>5, <1>12, <3>1
        <4>2. Cardinality(types) > 0
          BY <1>5, DelegatorAssumption, FS_Subset, FS_EmptySet, FS_CardinalityType
        <4>3. Cardinality({}) = 0
          BY FS_EmptySet
        <4> QED
          BY <1>12, <3>1, <4>1, <4>2, <4>3
      <3>2. CASE x # k
        <4>1. x \in pending /\ request'[x] = request[x]
          BY <1>1, <1>4, <1>11, <3>2 DEF TypeOK
        <4> QED
          BY <4>1 DEF JobInv, DoneCountsFilledSlots
      <3> QED
        BY <3>1, <3>2
    <2> QED
      BY <2>1 DEF DoneCountsFilledSlots
  <1>17. OnePlacePerJob'
    <2> USE DEF JobInv, OnePlacePerJob
    <2>1. nextJobId' = nextJobId + m
      BY <1>3, <1>5
    <2>2. \A j \in Live : j.id < nextJobId /\ j.id \in Nat
      BY <1>6 DEF Job
    <2>3. \A a \in 1..m : nextJobId <= new(a).id /\ new(a).id < nextJobId + m
      BY <1>5, <1>6, <1>8
    <2>4. \A j \in Live' : j.id < nextJobId'
      <3>1. \A j \in Live : j.id < nextJobId + m
        BY <1>5, <1>6, <2>2
      <3>2. \A j \in New : j.id < nextJobId + m
        BY <1>10, <2>3
      <3> QED
        BY <1>9, <2>1, <3>1, <3>2
    <2>5. \A a \in 1..n : jobQueue[a] \in Live
      BY <1>6 DEF Live, Queued
    <2>6. ASSUME NEW a \in 1..(n + m), NEW b \in 1..(n + m),
                 jobQueue'[a].id = jobQueue'[b].id
          PROVE  a = b
      <3>1. CASE a \in 1..n /\ b \in 1..n
        BY <1>6, <1>7, <2>6, <3>1
      <3>2. CASE a \in (n + 1)..(n + m) /\ b \in (n + 1)..(n + m)
        <4>1. a - n = b - n
          BY <1>7, <1>8, <2>6, <3>2
        <4> QED
          BY <1>5, <1>6, <4>1
      <3>3. ASSUME NEW x \in 1..n, NEW y \in (n + 1)..(n + m)
            PROVE  jobQueue'[x].id # jobQueue'[y].id
        <4>1. jobQueue'[x].id < nextJobId /\ jobQueue'[x].id \in Nat
          BY <1>7, <2>2, <2>5
        <4>2. y - n \in 1..m /\ jobQueue'[y] = new(y - n)
          BY <1>7
        <4> QED
          BY <1>6, <2>3, <4>1, <4>2
      <3> QED
        BY <1>5, <1>6, <2>6, <3>1, <3>2, <3>3, SMTT(30)
    <2>7. ASSUME NEW a \in 1..(n + m), NEW v \in Worker, NEW j \in wip'[v]
          PROVE  j.id # jobQueue'[a].id
      <3>1. j \in wip[v] /\ j \in Live
        BY <1>4 DEF Live
      <3>2. CASE a \in 1..n
        BY <1>6, <1>7, <3>1, <3>2
      <3>3. CASE a \in (n + 1)..(n + m)
        <4>1. a - n \in 1..m /\ jobQueue'[a] = new(a - n)
          BY <1>7, <3>3
        <4> QED
          BY <1>6, <2>2, <2>3, <3>1, <4>1
      <3> QED
        BY <1>5, <1>6, <3>2, <3>3
    <2>8. \A u, v \in Worker : \A a \in wip'[u], b \in wip'[v] :
             a.id = b.id => u = v /\ a = b
      BY <1>4
    <2> QED
      BY <1>7, <2>4, <2>6, <2>7, <2>8
  <1> QED
    BY <1>1, <1>15, <1>16, <1>17 DEF JobInv
\* A result takes one job away and fills that job's slot; the last one takes the
\* request away, and by the count no other slot of it was open.
LEMMA AcceptResultKeepsJobs ==
    ASSUME JobInv, TypeOK', NEW w \in Worker, NEW job \in wip[w], NEW value \in Value,
           AcceptResult(w, job, value),
           UNCHANGED <<jobQueue, nextJobId>>
    PROVE  JobInv'
  <1> DEFINE k == job.key
             r == Filled(request[k], job, value)
             slots(q) == {t \in q.types : q.results[t] # NoResult}
  <1>1. /\ job \in Job /\ k \in Key /\ job.type \in JobType
        /\ request \in [Key -> Request] /\ request[k] \in Request
        /\ wip \in [Worker -> SUBSET Job]
    BY DEF JobInv, TypeOK, Job
  <1>2. /\ job \in Live /\ Live \subseteq Job
        /\ k \in pending /\ job.type \in request[k].types
        /\ request[k].results[job.type] = NoResult
    <2>1. job \in Live /\ Live \subseteq Job
      BY QueueDomain DEF JobInv, Live
    <2> QED
      BY <2>1 DEF JobInv, JobsMatchOpenSlots, Open
  <1>3. wip'[w] = wip[w] \ {job} /\ \A v \in Worker : v # w => wip'[v] = wip[v]
    BY <1>1 DEF AcceptResult
  <1>4. /\ r \in Request /\ r.types = request[k].types
        /\ r.results = [request[k].results EXCEPT ![job.type] = value]
        /\ r.nDone = request[k].nDone + 1
    BY <1>1, FilledProperties
  <1> HIDE DEF r
  <1>5. \/ /\ r.nDone = Cardinality(r.types)
           /\ pending' = pending \ {k}
           /\ request' = [request EXCEPT ![k] = EmptyRequest]
        \/ /\ r.nDone # Cardinality(r.types)
           /\ pending' = pending
           /\ request' = [request EXCEPT ![k] = r]
    BY DEF AcceptResult, r
  <1>6. value # NoResult
    BY DelegatorAssumption DEF Value, Payload
  <1>7. /\ request[k].results \in [JobType -> Value \cup {NoResult}]
        /\ request[k].types \subseteq JobType /\ request[k].nDone \in Nat
    BY <1>1 DEF Request
  <1>8. /\ r.results[job.type] = value
        /\ \A t \in JobType : t # job.type => r.results[t] = request[k].results[t]
    BY <1>1, <1>4, <1>7
  <1>9. slots(r) = slots(request[k]) \cup {job.type} /\ job.type \notin slots(request[k])
    BY <1>2, <1>4, <1>6, <1>7, <1>8
  <1>10. /\ request[k].nDone = Cardinality(slots(request[k]))
         /\ request[k].nDone < Cardinality(request[k].types)
    BY <1>2 DEF JobInv, DoneCountsFilledSlots
  <1> HIDE DEF k
  <1>11. /\ IsFiniteSet(r.types) /\ slots(r) \subseteq r.types
         /\ Cardinality(slots(r)) = r.nDone
         /\ Cardinality(r.types) \in Nat
    <2>1. IsFiniteSet(r.types) /\ Cardinality(r.types) \in Nat
      BY <1>4, <1>7, DelegatorAssumption, FS_Subset, FS_CardinalityType
    <2>2. IsFiniteSet(slots(request[k]))
      BY <1>4, <2>1, FS_Subset
    <2> DEFINE S == slots(request[k])
    <2>3. Cardinality(S \cup {job.type}) = Cardinality(S) + 1
      <3>1. IsFiniteSet(S) /\ job.type \notin S
        BY <1>9, <2>2
      <3> HIDE DEF S
      <3> QED
        BY <3>1, FS_AddElement
    <2> QED
      BY <1>4, <1>9, <1>10, <2>1, <2>3
  <1>12. Live' = Live \ {job}
    <2>1. job \notin Queued /\ \A v \in Worker : v # w => job \notin wip[v]
      BY DEF JobInv, OnePlacePerJob, Queued
    <2>2. Queued' = Queued
      BY DEF Queued
    <2>3. UNION {wip'[v] : v \in Worker} = (UNION {wip[v] : v \in Worker}) \ {job}
      BY <1>3, <2>1
    <2> QED
      BY <2>1, <2>2, <2>3 DEF Live
  <1>13. \A j \in Live : /\ Open(j.key, j.type) /\ j.key \in Key /\ j.type \in JobType
                         /\ j.key = k /\ j.type = job.type => j = job
    BY <1>2 DEF JobInv, JobsMatchOpenSlots, Job, k
  <1>14. \A x \in Key : x # k => (request'[x] = request[x] /\ (x \in pending' <=> x \in pending))
    BY <1>1, <1>5
  <1>15. \A x \in Key, t \in JobType : x # k => (Open(x, t)' <=> Open(x, t))
    BY <1>14 DEF Open
  <1>16. OnePlacePerJob'
    <2> USE DEF JobInv, OnePlacePerJob
    <2>1. \A v \in Worker : wip'[v] \subseteq wip[v]
      BY <1>3
    <2>2. \A j \in Live' : j.id < nextJobId'
      BY <1>12
    <2> QED
      BY <2>1, <2>2
  <1>17. CASE r.nDone = Cardinality(r.types)
    <2>1. pending' = pending \ {k}
      BY <1>5, <1>17
    <2>2. slots(r) = r.types
      <3> DEFINE S == slots(r)
                 T == r.types
      <3>1. /\ IsFiniteSet(T) /\ S \subseteq T /\ Cardinality(S) = Cardinality(T)
        BY <1>11, <1>17
      <3> HIDE DEF S, T
      <3>2. S = T
        BY <3>1, FS_Subset
      <3> QED
        BY <3>2 DEF S, T
    <2>3. \A t \in JobType : Open(k, t) => t = job.type
      BY <1>4, <1>7, <1>8, <2>2 DEF Open
    <2>4. \A j \in Live' : j.key # k
      BY <1>12, <1>13, <2>3
    <2>5. JobsMatchOpenSlots'
      <3>1. \A j \in Live' : Open(j.key, j.type)'
        BY <1>12, <1>13, <1>15, <2>4
      <3>2. \A a, b \in Live' : a.key = b.key /\ a.type = b.type => a = b
        BY <1>12 DEF JobInv, JobsMatchOpenSlots
      <3>3. ASSUME NEW x \in Key, NEW t \in JobType, Open(x, t)'
            PROVE  \E j \in Live' : j.key = x /\ j.type = t
        <4>1. x # k
          BY <2>1, <3>3 DEF Open
        <4>2. PICK j \in Live : j.key = x /\ j.type = t
          BY <1>15, <3>3, <4>1 DEF JobInv, JobsMatchOpenSlots
        <4>3. j # job
          BY <4>1, <4>2 DEF k
        <4> QED
          BY <1>12, <4>2, <4>3
      <3> QED
        BY <3>1, <3>2, <3>3 DEF JobsMatchOpenSlots
    <2>6. \A x \in pending' : x \in pending /\ request'[x] = request[x]
      BY <1>14, <2>1 DEF JobInv, TypeOK
    <2>7. DoneCountsFilledSlots'
      BY <2>6 DEF JobInv, DoneCountsFilledSlots
    <2> QED
      BY <1>16, <2>5, <2>7 DEF JobInv
  <1>18. CASE r.nDone # Cardinality(r.types)
    <2>1. pending' = pending /\ request'[k] = r
      BY <1>1, <1>5, <1>18 DEF k
    <2>2. \A t \in JobType : Open(k, t)' <=> Open(k, t) /\ t # job.type
      BY <1>4, <1>6, <1>8, <2>1 DEF Open
    <2>3. JobsMatchOpenSlots'
      <3>1. ASSUME NEW j \in Live' PROVE Open(j.key, j.type)'
        <4>1. j \in Live /\ j # job
          BY <1>12
        <4>2. CASE j.key = k
          BY <1>13, <2>2, <4>1, <4>2
        <4>3. CASE j.key # k
          BY <1>13, <1>15, <4>1, <4>3
        <4> QED
          BY <4>2, <4>3
      <3>2. \A a, b \in Live' : a.key = b.key /\ a.type = b.type => a = b
        BY <1>12 DEF JobInv, JobsMatchOpenSlots
      <3>3. ASSUME NEW x \in Key, NEW t \in JobType, Open(x, t)'
            PROVE  \E j \in Live' : j.key = x /\ j.type = t
        <4>1. Open(x, t) /\ ~(x = k /\ t = job.type)
          BY <1>15, <2>2, <3>3
        <4>2. PICK j \in Live : j.key = x /\ j.type = t
          BY <4>1 DEF JobInv, JobsMatchOpenSlots
        <4>3. j # job
          BY <4>1, <4>2 DEF k
        <4> QED
          BY <1>12, <4>2, <4>3
      <3> QED
        BY <3>1, <3>2, <3>3 DEF JobsMatchOpenSlots
    <2>4. r.nDone < Cardinality(r.types)
      BY <1>4, <1>7, <1>10, <1>11, <1>18
    <2>5. DoneCountsFilledSlots'
      <3>1. ASSUME NEW x \in pending'
            PROVE  /\ request'[x].nDone = Cardinality(slots(request'[x]))
                   /\ request'[x].nDone < Cardinality(request'[x].types)
        <4>1. CASE x = k
          BY <1>11, <2>1, <2>4, <4>1
        <4>2. CASE x # k
          <5>1. x \in pending /\ request'[x] = request[x]
            BY <1>14, <2>1, <4>2 DEF JobInv, TypeOK
          <5> QED
            BY <5>1 DEF JobInv, DoneCountsFilledSlots
        <4> QED
          BY <4>1, <4>2
      <3> QED
        BY <3>1 DEF DoneCountsFilledSlots
    <2> QED
      BY <1>16, <2>3, <2>5 DEF JobInv
  <1> QED
    BY <1>17, <1>18

LEMMA ReceiveResultKeepsJobs ==
    ASSUME JobInv, NEW w \in Worker, ReceiveResult(w)
    PROVE  JobInv'
  <1> DEFINE msg == Head(held[w])
  <1>1. TypeOK'
    BY ReceiveResultTypeOK DEF JobInv
  <1>2. UNCHANGED <<jobQueue, nextJobId>>
    BY DEF ReceiveResult
  <1>3. CASE UNCHANGED <<pending, request, wip>>
    <2>1. Live' = Live
      BY <1>2, <1>3 DEF Live, Queued
    <2>2. OnePlacePerJob'
      BY <1>2, <1>3, <2>1 DEF JobInv, OnePlacePerJob
    <2> QED
      BY <1>1, <1>3, <2>1, <2>2, SameJobs DEF JobInv
  <1>4. ASSUME NEW job \in Known(w, msg.id),
               AcceptResult(w, job, Compute(msg.type, msg.data)), w \in connected,
               held[w] # <<>>
        PROVE  JobInv'
    <2>1. msg \in JobMsg
      BY <1>4, HeadTailProperties DEF JobInv, TypeOK
    <2>2. Compute(msg.type, msg.data) \in Value
      BY <2>1 DEF Compute, Value, JobMsg
    <2>3. job \in wip[w]
      BY DEF Known
    <2> QED
      BY <1>1, <1>2, <1>4, <2>2, <2>3, AcceptResultKeepsJobs
  <1> QED
    BY <1>3, <1>4 DEF ReceiveResult

LEMMA InitJobInv == Init => JobInv
  <1> SUFFICES ASSUME Init PROVE JobInv
    OBVIOUS
  <1>1. TypeOK
    BY InitTypeOK
  <1>2. DOMAIN jobQueue = {}
    BY DEF Init
  <1>3. pending = {} /\ \A w \in Worker : wip[w] = {}
    BY DEF Init
  <1>4. Live = {}
    BY <1>2, <1>3 DEF Live, Queued
  <1> QED
    BY <1>1, <1>2, <1>3, <1>4
       DEF JobInv, OnePlacePerJob, JobsMatchOpenSlots, DoneCountsFilledSlots, Open

LEMMA NextJobInv ==
    ASSUME JobInv, [Next]_vars
    PROVE  JobInv'
  <1>1. ASSUME UNCHANGED <<queueVars, wip>> PROVE JobInv'
    <2>1. TypeOK'
      BY NextTypeOK DEF JobInv
    <2>2. Live' = Live
      BY <1>1 DEF Live, Queued, queueVars
    <2>3. OnePlacePerJob'
      BY <1>1, <2>2 DEF JobInv, OnePlacePerJob, queueVars
    <2>4. UNCHANGED <<pending, request>>
      BY <1>1 DEF queueVars
    <2> QED
      BY <2>1, <2>2, <2>3, <2>4, SameJobs DEF JobInv
  <1>2. ASSUME NEW k \in Key, ReceiveRequest(k) PROVE JobInv'
    BY <1>2, ReceiveRequestKeepsJobs
  <1>3. ASSUME NEW w \in Worker, Assign(w) PROVE JobInv'
    BY <1>3, AssignKeepsJobs
  <1>4. ASSUME NEW w \in Worker, WorkerStep(w) PROVE JobInv'
    <2>1. CASE HeartbeatGoodbye(w) \/ NetworkGoodbye(w)
      BY <2>1, DisconnectKeepsJobs DEF HeartbeatGoodbye, NetworkGoodbye
    <2>2. CASE Hello(w)
      BY <1>1, <2>2 DEF Hello
    <2>3. CASE ReceiveResult(w)
      BY <2>3, ReceiveResultKeepsJobs
    <2> QED
      BY <1>4, <2>1, <2>2, <2>3 DEF WorkerStep
  <1>5. CASE NoMessage \/ SkipJob \/ EndPass
    BY <1>1, <1>5 DEF NoMessage, SkipJob, EndPass, workerVars
  <1>6. ASSUME NEW k \in Key, Retrieve(k) PROVE JobInv'
    BY <1>1, <1>6 DEF Retrieve, workerVars
  <1>7. CASE UNCHANGED vars
    BY <1>1, <1>7 DEF vars, workerVars
  <1> QED
    BY <1>2, <1>3, <1>4, <1>5, <1>6, <1>7 DEF Next, Pass

LEMMA JobsInvariant == Spec => []JobInv
  <1>1. Init => JobInv
    BY InitJobInv
  <1>2. JobInv /\ [Next]_vars => JobInv'
    BY NextJobInv
  <1> QED
    BY <1>1, <1>2, PTL DEF Spec

\* A job is always in one place, whatever the number of workers, however often
\* they come and go: re-queueing on a GOODBYE neither copies nor drops one.
THEOREM EachJobInOnePlace == Spec => []OnePlacePerJob
  <1>1. JobInv => OnePlacePerJob
    BY DEF JobInv
  <1> QED
    BY <1>1, JobsInvariant, PTL

\* The live jobs are always exactly the open slots of the pending requests.
THEOREM JobsAlwaysMatchSlots == Spec => []JobsMatchOpenSlots
  <1>1. JobInv => JobsMatchOpenSlots
    BY DEF JobInv
  <1> QED
    BY <1>1, JobsInvariant, PTL

\* nDone always counts the filled slots: a RESULT is sent with the last of them
\* and never with one still empty.
THEOREM DoneAlwaysCounts == Spec => []DoneCountsFilledSlots
  <1>1. JobInv => DoneCountsFilledSlots
    BY DEF JobInv
  <1> QED
    BY <1>1, JobsInvariant, PTL
-----------------------------------------------------------------------------
(* The walk of onPoll over the queue *)

\* Behind the cursor of onPoll only jobs are left that no worker can take, as
\* handing out a job gives no worker more room; outside onPoll the cursor is at
\* the head of the queue.
PollInv ==
    /\ phase # "onPoll" => cursor = 1
    /\ phase = "onPoll" =>
          \A i \in 1..Len(jobQueue) : i < cursor =>
              \A w \in Worker : ~Eligible(w, jobQueue[i].type)
    /\ WorkConserving

\* Handing out a job makes no worker eligible that was not.
LEMMA AssignMakesNoneEligible ==
    ASSUME TypeOK, NEW w \in Worker, Assign(w), NEW v \in Worker, NEW t,
           ~Eligible(v, t)
    PROVE  ~Eligible(v, t)'
  <1> DEFINE job == jobQueue[cursor]
  <1>1. UNCHANGED <<connected, range>> /\ wip' = [wip EXCEPT ![w] = @ \cup {job}]
    BY DEF Assign
  <1>2. IsFiniteSet(wip[v]) /\ Cardinality(wip[v]) \in Nat
    BY FS_CardinalityType DEF TypeOK
  <1>3. wip'[v] = wip[v] \/ wip'[v] = wip[v] \cup {job}
    BY <1>1 DEF TypeOK
  <1> HIDE DEF job
  <1>4. Cardinality(wip[v]) <= Cardinality(wip'[v]) /\ Cardinality(wip'[v]) \in Nat
    <2>1. CASE wip'[v] = wip[v]
      BY <1>2, <2>1
    <2>2. CASE wip'[v] = wip[v] \cup {job}
      <3>1. Cardinality(wip[v] \cup {job}) =
               IF job \in wip[v] THEN Cardinality(wip[v]) ELSE Cardinality(wip[v]) + 1
        BY <1>2, FS_AddElement
      <3> QED
        BY <1>2, <2>2, <3>1
    <2> QED
      BY <1>3, <2>1, <2>2
  <1>5. Cardinality(wip'[v]) < MaxJobs => Cardinality(wip[v]) < MaxJobs
    BY <1>2, <1>4, DelegatorAssumption
  <1> QED
    BY <1>1, <1>5 DEF Eligible

LEMMA AssignKeepsPollInv ==
    ASSUME TypeOK, PollInv, NEW w \in Worker, Assign(w)
    PROVE  PollInv'
  <1>1. /\ phase = "onPoll" /\ phase' = "onPoll" /\ cursor' = cursor
        /\ jobQueue' = RemoveAt(jobQueue, cursor)
    BY DEF Assign, controlVars
  <1>2. Len(jobQueue) \in Nat /\ cursor \in 1..Len(jobQueue)
    BY LenProperties DEF Assign, TypeOK
  <1>3. /\ Len(jobQueue') = Len(jobQueue) - 1
        /\ \A j \in 1..(Len(jobQueue) - 1) :
              jobQueue'[j] = IF j < cursor THEN jobQueue[j] ELSE jobQueue[j + 1]
    BY <1>1, <1>2, WithoutIndexProperties, SMTT(30) DEF TypeOK
  <1>4. ASSUME NEW i \in 1..Len(jobQueue'), i < cursor', NEW v \in Worker
        PROVE  ~Eligible(v, jobQueue[i].type)'
    <2>1. i \in 1..Len(jobQueue) /\ i < cursor /\ jobQueue'[i] = jobQueue[i]
      BY <1>1, <1>2, <1>3, <1>4
    <2>2. ~Eligible(v, jobQueue[i].type)
      BY <1>1, <2>1 DEF PollInv
    <2>3. \A t : ~Eligible(v, t) =>
             ~(/\ v \in connected'
               /\ range'[v].lo <= t /\ t < range'[v].hi
               /\ Cardinality(wip'[v]) < MaxJobs)
      BY AssignMakesNoneEligible DEF Eligible
    <2> QED
      BY <2>1, <2>2, <2>3 DEF Eligible
  <1> QED
    BY <1>1, <1>4 DEF PollInv, WorkConserving

LEMMA NextPollInv ==
    ASSUME TypeOK, PollInv, [Next]_vars
    PROVE  PollInv'
  <1>0. cursor \in Nat \ {0} /\ Len(jobQueue) \in Nat
    BY LenProperties DEF TypeOK
  <1>1. ASSUME UNCHANGED <<jobQueue, connected, range, wip, phase, cursor>>
        PROVE  PollInv'
    BY <1>1 DEF PollInv, WorkConserving, Eligible
  <1>2. ASSUME phase # "onPoll", cursor' = cursor, phase' \in {"heartbeat", "network", "onPoll"}
        PROVE  PollInv'
    BY <1>2 DEF PollInv, WorkConserving
  <1>3. ASSUME NEW w \in Worker, Assign(w) PROVE PollInv'
    BY <1>3, AssignKeepsPollInv
  <1>4. CASE SkipJob
    <2>1. /\ phase' = "onPoll" /\ phase = "onPoll"
          /\ cursor' = cursor + 1
          /\ UNCHANGED <<jobQueue, connected, range, wip>>
          /\ \A w \in Worker : ~Eligible(w, jobQueue[cursor].type)
      BY <1>4 DEF SkipJob, queueVars, workerVars
    <2>2. ASSUME NEW i \in 1..Len(jobQueue), i < cursor', NEW w \in Worker
          PROVE  ~Eligible(w, jobQueue[i].type)
      <3>1. i < cursor \/ i = cursor
        BY <1>0, <2>1, <2>2
      <3> QED
        BY <2>1, <3>1 DEF PollInv
    <2> QED
      BY <2>1, <2>2 DEF PollInv, WorkConserving, Eligible
  <1>5. CASE EndPass
    <2>1. /\ phase = "onPoll" /\ phase' = "requester" /\ cursor' = 1
          /\ UNCHANGED <<jobQueue, connected, range, wip>>
          /\ cursor > Len(jobQueue)
      BY <1>5 DEF EndPass, queueVars, workerVars
    <2>2. ASSUME NEW i \in DOMAIN jobQueue, NEW w \in Worker
          PROVE  ~Eligible(w, jobQueue[i].type)
      <3>1. i \in 1..Len(jobQueue) /\ i < cursor
        BY <1>0, <2>1, QueueDomain
      <3> QED
        BY <2>1, <3>1 DEF PollInv
    <2> QED
      BY <2>1, <2>2 DEF PollInv, WorkConserving, Eligible
  <1>6. CASE NoMessage
    <2>1. /\ phase \in {"requester", "heartbeat", "network"} /\ cursor' = cursor
          /\ phase' \in {"heartbeat", "network", "onPoll"}
      BY <1>6 DEF NoMessage
    <2> QED
      BY <1>2, <2>1
  <1>7. ASSUME NEW k \in Key, ReceiveRequest(k) PROVE PollInv'
    BY <1>2, <1>7 DEF ReceiveRequest
  <1>8. ASSUME NEW k \in Key, Retrieve(k) PROVE PollInv'
    BY <1>1, <1>8 DEF Retrieve, queueVars, workerVars, controlVars
  <1>9. ASSUME NEW w \in Worker, WorkerStep(w) PROVE PollInv'
    BY <1>2, <1>9 DEF WorkerStep, HeartbeatGoodbye, NetworkGoodbye, DisconnectWorker,
                      Hello, ReceiveResult
  <1>10. CASE UNCHANGED vars
    BY <1>1, <1>10 DEF vars, queueVars, workerVars, controlVars
  <1> QED
    BY <1>3, <1>4, <1>5, <1>6, <1>7, <1>8, <1>9, <1>10 DEF Next, Pass

LEMMA PollInvariant == Spec => [](JobInv /\ PollInv)
  <1>1. Init => PollInv
    BY DEF Init, PollInv, WorkConserving
  <1>2. JobInv /\ PollInv /\ [Next]_vars => PollInv'
    BY NextPollInv DEF JobInv
  <1> QED
    BY <1>1, <1>2, JobsInvariant, PTL DEF Spec

\* When onPoll returns, every job in the queue is one that no worker could take,
\* for any number of workers, job types and places per worker.
THEOREM NoIdleWorker == Spec => []WorkConserving
  <1>1. PollInv => WorkConserving
    BY DEF PollInv
  <1> QED
    BY <1>1, PollInvariant, PTL

\* onPoll never hands out a job while one of its type stands before it.
LEMMA NextInOrder ==
    ASSUME JobInv, PollInv, [Next]_vars,
           NEW i \in DOMAIN jobQueue, NEW j \in DOMAIN jobQueue,
           i < j, jobQueue[i].type = jobQueue[j].type,
           NEW w \in Worker, jobQueue[j] \in wip'[w] \ wip[w]
    PROVE  FALSE
  <1>1. PICK v \in Worker : Assign(v)
    <2>1. wip[w] \subseteq Job /\ wip \in [Worker -> SUBSET Job]
      BY DEF JobInv, TypeOK
    <2>2. ~(wip' = wip)
      OBVIOUS
    <2>3. ASSUME NEW u \in Worker, NEW taken, wip' = [wip EXCEPT ![u] = @ \ taken]
          PROVE  FALSE
      <3>1. wip'[w] \subseteq wip[w]
        BY <2>1, <2>3
      <3> QED
        BY <3>1
    <2>4. ASSUME NEW u \in Worker, DisconnectWorker(u) PROVE FALSE
      <3>1. wip' = [wip EXCEPT ![u] = {}]
        BY <2>4 DEF DisconnectWorker
      <3>2. wip'[w] \subseteq wip[w]
        BY <2>1, <3>1
      <3> QED
        BY <3>2
    <2>5. ASSUME NEW u \in Worker, ReceiveResult(u) PROVE FALSE
      <3>1. ASSUME NEW job, NEW value, AcceptResult(u, job, value) PROVE FALSE
        BY <2>3, <3>1 DEF AcceptResult
      <3> QED
        BY <2>2, <2>5, <3>1 DEF ReceiveResult
    <2> QED
      BY <2>2, <2>4, <2>5 DEF Next, Pass, NoMessage, SkipJob, EndPass, WorkerStep,
         HeartbeatGoodbye, NetworkGoodbye, Hello, ReceiveRequest, Retrieve,
         vars, workerVars
  <1>2. /\ phase = "onPoll" /\ cursor <= Len(jobQueue)
        /\ Eligible(v, jobQueue[cursor].type)
        /\ wip' = [wip EXCEPT ![v] = @ \cup {jobQueue[cursor]}]
    BY <1>1 DEF Assign
  <1>3. /\ cursor \in Nat \ {0} /\ Len(jobQueue) \in Nat /\ wip \in [Worker -> SUBSET Job]
        /\ DOMAIN jobQueue = 1..Len(jobQueue)
    BY LenProperties, QueueDomain DEF JobInv, TypeOK
  <1>4. jobQueue[j] = jobQueue[cursor]
    BY <1>2, <1>3
  <1>5. j = cursor
    BY <1>2, <1>3, <1>4 DEF JobInv, OnePlacePerJob
  <1>6. ~Eligible(v, jobQueue[i].type)
    BY <1>2, <1>3, <1>5 DEF PollInv
  <1> QED
    BY <1>2, <1>4, <1>6

\* Jobs of one type leave the queue in the order they stand in it.
THEOREM NoOvertaking == Spec => AssignedInOrder
  <1>1. JobInv /\ PollInv /\ [Next]_vars =>
           [\A i, j \in DOMAIN jobQueue :
               /\ i < j
               /\ jobQueue[i].type = jobQueue[j].type
               /\ \E w \in Worker : jobQueue[j] \in wip'[w] \ wip[w]
               => jobQueue[i] \notin Queued']_vars
    BY NextInOrder
  <1> QED
    BY <1>1, PollInvariant, PTL DEF Spec, AssignedInOrder

-----------------------------------------------------------------------------
(* The unchecked lookups of receiveResult *)

\* What a connected worker that says HELLO once holds are jobs that are in its
\* workInProgress, each once; before its HELLO it holds nothing.
HeldInProgress ==
    \A w \in Worker :
        /\ hellos[w] = 0 => w \notin connected /\ held[w] = <<>>
        /\ w \in connected =>
              /\ \A i \in 1..Len(held[w]) : \E job \in wip[w] : job.id = held[w][i].id
              /\ \A i, j \in 1..Len(held[w]) : held[w][i].id = held[w][j].id => i = j

ConnectedOnceInv == HeldInProgress /\ NeverCrashes

\* So a result always finds its job, and its request.
LEMMA ResultIsKnown ==
    ASSUME JobInv, HeldInProgress, NEW w \in Worker, w \in connected, held[w] # <<>>
    PROVE  Known(w, Head(held[w]).id) # {}
  <1>1. held[w] \in Seq(JobMsg)
    BY DEF JobInv, TypeOK
  <1>2. 1 \in 1..Len(held[w]) /\ Head(held[w]) = held[w][1]
    BY <1>1, EmptySeq, LenProperties, HeadTailProperties
  <1>3. PICK job \in wip[w] : job.id = held[w][1].id
    BY <1>2 DEF HeldInProgress
  <1>4. job.key \in pending
    BY DEF JobInv, JobsMatchOpenSlots, Open, Live
  <1> QED
    BY <1>2, <1>3, <1>4 DEF Known

\* The answered job is the one at the head; the others are about other jobs.
LEMMA ReceiveResultKeepsHeld ==
    ASSUME JobInv, HeldInProgress, NEW w \in Worker, ReceiveResult(w)
    PROVE  HeldInProgress'
  <1>1. /\ held \in [Worker -> Seq(JobMsg)] /\ wip \in [Worker -> SUBSET Job]
        /\ held[w] \in Seq(JobMsg) /\ held[w] # <<>>
        /\ held' = [held EXCEPT ![w] = Tail(@)]
        /\ UNCHANGED <<connected, hellos>>
    BY DEF JobInv, TypeOK, ReceiveResult
  <1>2. /\ Head(held[w]) = held[w][1] /\ 1 \in 1..Len(held[w]) /\ Len(held[w]) \in Nat
        /\ Len(Tail(held[w])) = Len(held[w]) - 1
        /\ \A i \in 1..Len(Tail(held[w])) : Tail(held[w])[i] = held[w][i + 1]
    BY <1>1, EmptySeq, LenProperties, HeadTailProperties
  <1>3. ASSUME NEW i \in 1..Len(held'[w])
        PROVE  i + 1 \in 1..Len(held[w]) /\ i + 1 # 1 /\ held'[w][i] = held[w][i + 1]
    BY <1>1, <1>2, <1>3
  <1>4. hellos[w] # 0
    BY <1>1 DEF HeldInProgress
  <1>5. \A v \in Worker : v # w => held'[v] = held[v] /\ wip'[v] = wip[v]
    <2>1. ASSUME NEW job, NEW value, AcceptResult(w, job, value)
          PROVE  \A v \in Worker : v # w => wip'[v] = wip[v]
      BY <1>1, <2>1 DEF AcceptResult
    <2> QED
      BY <1>1, <2>1 DEF ReceiveResult
  <1>6. ASSUME w \in connected, NEW i \in 1..Len(held'[w])
        PROVE  \E job \in wip'[w] : job.id = held'[w][i].id
    <2>1. PICK job \in wip[w] : job.id = held[w][i + 1].id
      BY <1>3, <1>6 DEF HeldInProgress
    <2>2. job.id # held[w][1].id
      BY <1>2, <1>3, <1>6, <2>1 DEF HeldInProgress
    <2>3. ASSUME NEW other \in Known(w, Head(held[w]).id), NEW value,
                 AcceptResult(w, other, value)
          PROVE  job \in wip'[w]
      <3>1. wip'[w] = wip[w] \ {other} /\ other.id = held[w][1].id
        BY <1>1, <1>2, <2>3 DEF AcceptResult, Known
      <3> QED
        BY <2>2, <3>1
    <2>4. job \in wip'[w]
      BY <1>1, <1>6, <2>3 DEF ReceiveResult
    <2> QED
      BY <1>3, <1>6, <2>1, <2>4
  <1>7. ASSUME w \in connected, NEW i \in 1..Len(held'[w]), NEW j \in 1..Len(held'[w]),
               held'[w][i].id = held'[w][j].id
        PROVE  i = j
    <2>1. /\ i + 1 \in 1..Len(held[w]) /\ j + 1 \in 1..Len(held[w])
          /\ held[w][i + 1].id = held[w][j + 1].id
      BY <1>3, <1>7
    <2>2. i + 1 = j + 1
      BY <1>7, <2>1 DEF HeldInProgress
    <2>3. i \in Nat /\ j \in Nat
      BY <1>1, <1>2
    <2> QED
      BY <2>2, <2>3
  <1> QED
    BY <1>1, <1>4, <1>5, <1>6, <1>7 DEF HeldInProgress

\* The job handed out was in the queue, so its id is not in progress anywhere.
LEMMA AssignKeepsHeld ==
    ASSUME JobInv, HeldInProgress, NEW w \in Worker, Assign(w)
    PROVE  HeldInProgress'
  <1> DEFINE job == jobQueue[cursor]
  <1>0. PICK sent : sent = [type |-> job.type, id |-> job.id, data |-> request[job.key].data]
    OBVIOUS
  <1>1. /\ wip' = [wip EXCEPT ![w] = @ \cup {job}]
        /\ held' = [held EXCEPT ![w] = Append(@, sent)]
        /\ w \in connected
        /\ UNCHANGED <<connected, hellos>>
    BY <1>0 DEF Assign, Eligible
  <1>2. /\ jobQueue \in Seq(Job) /\ cursor \in DOMAIN jobQueue
        /\ wip \in [Worker -> SUBSET Job]
        /\ held \in [Worker -> Seq(JobMsg)] /\ held[w] \in Seq(JobMsg)
        /\ Len(held[w]) \in Nat /\ Live \subseteq Job
    BY LenProperties, QueueDomain DEF JobInv, TypeOK, Assign
  <1>3. /\ \A j \in wip[w] : j.id # job.id
        /\ job.key \in Key /\ job \in Job
    <2>1. job \in Live
      BY <1>2 DEF Live, Queued
    <2> QED
      BY <1>2, <2>1 DEF JobInv, OnePlacePerJob, Job
  <1> HIDE DEF job
  <1>4. sent \in JobMsg /\ sent.id = job.id
    <2>1. request[job.key].data \in Payload
      BY <1>3 DEF JobInv, TypeOK, Request
    <2> QED
      BY <1>0, <1>3, <2>1 DEF Job, JobMsg
  <1>5. /\ held'[w] = Append(held[w], sent)
        /\ wip'[w] = wip[w] \cup {job}
        /\ \A v \in Worker : v # w => held'[v] = held[v] /\ wip'[v] = wip[v]
    BY <1>1, <1>2
  <1>6. /\ Len(held'[w]) = Len(held[w]) + 1
        /\ \A i \in 1..Len(held[w]) : held'[w][i] = held[w][i]
        /\ held'[w][Len(held[w]) + 1] = sent
    BY <1>2, <1>4, <1>5, AppendProperties
  <1>7. /\ \A i \in 1..Len(held[w]) : \E j \in wip[w] : j.id = held[w][i].id
        /\ \A i, j \in 1..Len(held[w]) : held[w][i].id = held[w][j].id => i = j
        /\ hellos[w] # 0
    BY <1>1 DEF HeldInProgress
  <1>8. ASSUME NEW i \in 1..Len(held'[w])
        PROVE  \E j \in wip'[w] : j.id = held'[w][i].id
    <2>1. CASE i \in 1..Len(held[w])
      BY <1>5, <1>6, <1>7, <2>1
    <2>2. CASE i = Len(held[w]) + 1
      BY <1>4, <1>5, <1>6, <2>2
    <2> QED
      BY <1>2, <1>6, <2>1, <2>2
  <1>9. \A i \in 1..Len(held[w]) : held[w][i].id # sent.id
    BY <1>3, <1>4, <1>7
  <1>10. ASSUME NEW i \in 1..Len(held'[w]), NEW j \in 1..Len(held'[w]),
                held'[w][i].id = held'[w][j].id
         PROVE  i = j
    <2>1. CASE i \in 1..Len(held[w]) /\ j \in 1..Len(held[w])
      BY <1>6, <1>7, <1>10, <2>1
    <2>2. CASE i \in 1..Len(held[w]) /\ j = Len(held[w]) + 1
      BY <1>6, <1>9, <1>10, <2>2
    <2>3. CASE i = Len(held[w]) + 1 /\ j \in 1..Len(held[w])
      BY <1>6, <1>9, <1>10, <2>3
    <2> QED
      BY <1>2, <1>6, <2>1, <2>2, <2>3
  <1> QED
    BY <1>1, <1>5, <1>7, <1>8, <1>10 DEF HeldInProgress

\* A worker that has said its one HELLO never connects again.
LEMMA NextConnectedOnceInv ==
    ASSUME MaxHellos <= 1, JobInv, ConnectedOnceInv, [Next]_vars
    PROVE  ConnectedOnceInv'
  <1>1. ASSUME UNCHANGED <<connected, wip, held, hellos, crashed>> PROVE ConnectedOnceInv'
    BY <1>1 DEF ConnectedOnceInv, HeldInProgress, NeverCrashes
  <1>2. ASSUME NEW w \in Worker, Hello(w) PROVE ConnectedOnceInv'
    <2>1. /\ hellos \in [Worker -> 0..MaxHellos] /\ MaxHellos \in Nat
          /\ hellos[w] < MaxHellos /\ hellos' = [hellos EXCEPT ![w] = @ + 1]
          /\ UNCHANGED <<wip, held, crashed>>
          /\ \A v \in Worker : v # w => (v \in connected' <=> v \in connected)
      BY <1>2, DelegatorAssumption DEF Hello, JobInv, TypeOK
    <2>2. hellos[w] = 0 /\ held[w] = <<>> /\ hellos'[w] # 0
      BY <2>1 DEF ConnectedOnceInv, HeldInProgress
    <2>3. 1..Len(held[w]) = {}
      BY <2>2, EmptySeq
    <2>4. \A v \in Worker : v # w => hellos'[v] = hellos[v]
      BY <2>1
    <2> QED
      BY <2>1, <2>2, <2>3, <2>4 DEF ConnectedOnceInv, HeldInProgress, NeverCrashes
  <1>3. ASSUME NEW w \in Worker, DisconnectWorker(w) PROVE ConnectedOnceInv'
    <2>1. /\ connected' = connected \ {w} /\ UNCHANGED <<held, hellos, crashed>>
          /\ \A v \in Worker : v # w => wip'[v] = wip[v]
      BY <1>3 DEF DisconnectWorker, envVars, JobInv, TypeOK
    <2> QED
      BY <2>1 DEF ConnectedOnceInv, HeldInProgress, NeverCrashes
  <1>4. ASSUME NEW w \in Worker, ReceiveResult(w) PROVE ConnectedOnceInv'
    <2>1. HeldInProgress'
      BY <1>4, ReceiveResultKeepsHeld DEF ConnectedOnceInv
    <2>2. crashed' = crashed
      BY <1>4, ResultIsKnown DEF ReceiveResult, ConnectedOnceInv
    <2> QED
      BY <2>1, <2>2 DEF ConnectedOnceInv, NeverCrashes
  <1>5. ASSUME NEW w \in Worker, Assign(w) PROVE ConnectedOnceInv'
    <2>1. HeldInProgress'
      BY <1>5, AssignKeepsHeld DEF ConnectedOnceInv
    <2> QED
      BY <1>5, <2>1 DEF ConnectedOnceInv, NeverCrashes, Assign, controlVars
  <1>6. ASSUME NEW k \in Key, ReceiveRequest(k) \/ Retrieve(k) PROVE ConnectedOnceInv'
    BY <1>1, <1>6 DEF ReceiveRequest, Retrieve, workerVars, controlVars
  <1>7. CASE NoMessage \/ SkipJob \/ EndPass \/ UNCHANGED vars
    BY <1>1, <1>7 DEF NoMessage, SkipJob, EndPass, vars, workerVars, controlVars, envVars
  <1> QED
    BY <1>2, <1>3, <1>4, <1>5, <1>6, <1>7
       DEF Next, Pass, WorkerStep, HeartbeatGoodbye, NetworkGoodbye

LEMMA InitConnectedOnceInv == Init => ConnectedOnceInv
  <1> SUFFICES ASSUME Init PROVE ConnectedOnceInv
    OBVIOUS
  <1>1. connected = {} /\ ~crashed /\ \A w \in Worker : held[w] = <<>>
    BY DEF Init
  <1> QED
    BY <1>1 DEF ConnectedOnceInv, HeldInProgress, NeverCrashes

\* As long as no socket identity is used for a second HELLO, receiveResult never
\* looks up a job or a request that is not there.
THEOREM NoCrashWhenConnectedOnce ==
    ASSUME MaxHellos <= 1
    PROVE  Spec => []NeverCrashes
  <1>1. JobInv /\ ConnectedOnceInv /\ [Next]_vars => ConnectedOnceInv'
    BY NextConnectedOnceInv
  <1>2. ConnectedOnceInv => NeverCrashes
    BY DEF ConnectedOnceInv
  <1> QED
    BY <1>1, <1>2, InitConnectedOnceInv, JobsInvariant, PTL DEF Spec

-----------------------------------------------------------------------------
(* Delegator implements RequestReply.  The proof adds to JobInv what makes *)
(* answers right: the messages workers hold say of a job what the          *)
(* Delegator knows of it, so every result filled in is the one its slot is *)
(* for.                                                                    *)

Answer == UNION {[types -> Value] : types \in SUBSET JobType}

\* A message that a worker holds is about a job that has been given out.  As long
\* as that job lives, with this worker or, after a disconnection, anywhere else,
\* the message has its type and its data.
MessageFits(m) ==
    /\ m.id < nextJobId
    /\ \A job \in Live : job.id = m.id =>
          m.type = job.type /\ m.data = request[job.key].data

MessagesFit == \A w \in Worker : \A i \in 1..Len(held[w]) : MessageFits(held[w][i])

\* What is filled in is what the worker computes for the slot.
ResultsAreRight ==
    \A k \in pending : \A t \in request[k].types :
        request[k].results[t] # NoResult =>
            request[k].results[t] = Compute(t, request[k].data)

\* A requester has its answer or a pending request, not both.
ReplyEndsRequest ==
    /\ reply \in [Key -> Answer \cup {NoReply}]
    /\ \A k \in pending : reply[k] = NoReply

AnswerInv == MessagesFit /\ ResultsAreRight /\ ReplyEndsRequest

-----------------------------------------------------------------------------
(* The messages *)

\* Steps that give out no new jobs and keep the data of those that live.
LEMMA MessagesStayFit ==
    ASSUME MessagesFit,
           nextJobId' = nextJobId, Live' \subseteq Live,
           \A job \in Live' : request'[job.key].data = request[job.key].data,
           held' = held
    PROVE  MessagesFit'
  <1> SUFFICES ASSUME NEW w \in Worker, NEW i \in 1..Len(held[w])
               PROVE  MessageFits(held[w][i])'
    BY DEF MessagesFit
  <1>1. MessageFits(held[w][i])
    BY DEF MessagesFit
  <1> QED
    BY <1>1 DEF MessageFits

\* New jobs have new ids, which no message has; the old ones keep their data.
LEMMA ReceiveRequestKeepsMessages ==
    ASSUME JobInv, MessagesFit, NEW k \in Key, ReceiveRequest(k)
    PROVE  MessagesFit'
  <1>1. TypeOK
    BY DEF JobInv
  <1>0. PICK types \in SUBSET JobType, data \in Data :
          \E order \in SetToSeqs(types) :
            /\ request' = [request EXCEPT ![k] = NewRequest(types, data)]
            /\ jobQueue' = jobQueue \o NewJobs(k, order)
            /\ nextJobId' = nextJobId + Cardinality(types)
    BY DEF ReceiveRequest
  <1>2. PICK order \in SetToSeqs(types) :
          /\ request' = [request EXCEPT ![k] = NewRequest(types, data)]
          /\ jobQueue' = jobQueue \o NewJobs(k, order)
          /\ nextJobId' = nextJobId + Cardinality(types)
    BY <1>0
  <1>3. k \notin pending /\ wip' = wip /\ held' = held
    BY DEF ReceiveRequest, workerVars
  <1> DEFINE n == Len(jobQueue)
             m == Len(order)
  <1>4. /\ m \in Nat /\ m = Cardinality(types) /\ Len(NewJobs(k, order)) = m
        /\ NewJobs(k, order) \in Seq(Job)
        /\ \A a \in 1..m : NewJobs(k, order)[a].id = nextJobId + a - 1
    <2>1. /\ m \in Nat /\ m = Cardinality(types) /\ Len(NewJobs(k, order)) = m
          /\ NewJobs(k, order) \in Seq(Job)
          /\ \A a \in 1..m : NewJobs(k, order)[a] =
                                [type |-> order[a], id |-> nextJobId + a - 1, key |-> k]
      BY <1>1, NewJobsProperties
    <2> QED
      BY <2>1
  <1>5. /\ jobQueue \in Seq(Job) /\ n \in Nat /\ DOMAIN jobQueue = 1..n
        /\ Live \subseteq Job /\ nextJobId \in Nat /\ request \in [Key -> Request]
    BY <1>1, QueueDomain DEF TypeOK
  <1>6. /\ DOMAIN jobQueue' = 1..(n + m)
        /\ \A a \in 1..n : jobQueue'[a] = jobQueue[a]
        /\ \A a \in (n + 1)..(n + m) : a - n \in 1..m /\ jobQueue'[a] = NewJobs(k, order)[a - n]
    <2> HIDE DEF n, m
    <2>1. Len(jobQueue) = n /\ Len(NewJobs(k, order)) = m
      BY <1>4 DEF n
    <2> QED
      BY <1>2, <1>4, <1>5, <2>1, Concatenation
  <1> HIDE DEF n, m
  <1>7. \A job \in Live' : job \in Live \/ job.id >= nextJobId
    <2>1. ASSUME NEW a \in 1..(n + m)
          PROVE  jobQueue'[a] \in Queued \/ jobQueue'[a].id >= nextJobId
      <3>1. CASE a \in 1..n
        BY <1>5, <1>6, <3>1 DEF Queued
      <3>2. CASE a \in (n + 1)..(n + m)
        <4> DEFINE b == a - n
        <4>1. b \in 1..m /\ jobQueue'[a] = NewJobs(k, order)[b]
          BY <1>6, <3>2
        <4> HIDE DEF b
        <4>2. jobQueue'[a].id = nextJobId + b - 1
          BY <1>4, <4>1
        <4> QED
          BY <1>4, <1>5, <4>1, <4>2
      <3> QED
        BY <1>4, <1>5, <3>1, <3>2
    <2> QED
      BY <1>3, <1>6, <2>1 DEF Live, Queued
  <1>8. \A job \in Live : job.key \in Key /\ job.key # k
    BY <1>3, <1>5 DEF JobInv, JobsMatchOpenSlots, Open, Job
  <1>9. \A job \in Live : request'[job.key] = request[job.key]
    BY <1>2, <1>5, <1>8
  <1>10. nextJobId' \in Nat /\ nextJobId <= nextJobId'
    BY <1>2, <1>4, <1>5
  <1>11. ASSUME NEW w \in Worker, NEW i \in 1..Len(held[w])
         PROVE  MessageFits(held[w][i])'
    <2>0. held[w][i].id \in Nat
      <3>1. held[w] \in Seq(JobMsg)
        BY <1>1 DEF TypeOK
      <3>2. held[w][i] \in JobMsg
        BY <3>1, ElementOfSeq
      <3> QED
        BY <3>2 DEF JobMsg
    <2>1. /\ held[w][i].id < nextJobId
          /\ \A job \in Live : job.id = held[w][i].id =>
                held[w][i].type = job.type /\ held[w][i].data = request[job.key].data
      BY DEF MessagesFit, MessageFits
    <2>2. held'[w][i].id < nextJobId'
      BY <1>3, <1>5, <1>10, <2>0, <2>1
    <2>3. ASSUME NEW job \in Live', job.id = held[w][i].id
          PROVE  job \in Live
      BY <1>5, <1>7, <2>0, <2>1, <2>3
    <2> QED
      BY <1>3, <1>9, <2>1, <2>2, <2>3 DEF MessageFits
  <1> QED
    BY <1>3, <1>11 DEF MessagesFit

LEMMA DisconnectKeepsLive ==
    ASSUME TypeOK, NEW w \in Worker, DisconnectWorker(w)
    PROVE  Live' \subseteq Live
  <1>1. PICK order \in SetToSeqs(wip[w]) : jobQueue' = order \o jobQueue
    BY DEF DisconnectWorker
  <1>2. /\ wip[w] \subseteq Job /\ IsFiniteSet(wip[w])
        /\ wip' = [wip EXCEPT ![w] = {}] /\ wip \in [Worker -> SUBSET Job]
    BY DEF TypeOK, DisconnectWorker
  <1>3. /\ order \in Seq(wip[w])
        /\ \A i \in 1..Len(order) : order[i] \in wip[w]
    BY <1>2, OrderingIsSeq
  <1>4. order \in Seq(Job) /\ jobQueue \in Seq(Job)
    <2>1. \A i \in 1..Len(order) : order[i] \in Job
      BY <1>2, <1>3
    <2>2. order \in [1..Len(order) -> Job] /\ Len(order) \in Nat
      BY <1>3, <2>1, LenProperties
    <2>3. order \in Seq(Job)
      BY <2>2, IsASeq
    <2> QED
      BY <2>3 DEF TypeOK
  <1>5. /\ DOMAIN jobQueue' = 1..(Len(order) + Len(jobQueue))
        /\ \A i \in 1..Len(order) : jobQueue'[i] = order[i]
        /\ \A i \in (Len(order) + 1)..(Len(order) + Len(jobQueue)) :
              i - Len(order) \in 1..Len(jobQueue) /\ jobQueue'[i] = jobQueue[i - Len(order)]
    BY <1>1, <1>4, Concatenation
  <1>6. /\ DOMAIN jobQueue = 1..Len(jobQueue) /\ Len(jobQueue) \in Nat /\ Len(order) \in Nat
    BY <1>4, LenProperties
  <1>7. ASSUME NEW i \in DOMAIN jobQueue' PROVE jobQueue'[i] \in Live
    <2>1. CASE i \in 1..Len(order)
      BY <1>3, <1>5, <2>1 DEF Live
    <2>2. CASE i \in (Len(order) + 1)..(Len(order) + Len(jobQueue))
      BY <1>5, <1>6, <2>2 DEF Live, Queued
    <2> QED
      BY <1>5, <1>6, <1>7, <2>1, <2>2
  <1>8. \A v \in Worker : wip'[v] \subseteq wip[v]
    BY <1>2
  <1> QED
    BY <1>7, <1>8 DEF Live, Queued

\* The message of an assignment is written from the job and its request.
LEMMA AssignKeepsMessages ==
    ASSUME JobInv, MessagesFit, NEW w \in Worker, Assign(w)
    PROVE  MessagesFit' /\ pending' = pending
  <1> DEFINE job == jobQueue[cursor]
  <1>0. PICK sent : sent = [type |-> job.type, id |-> job.id, data |-> request[job.key].data]
    OBVIOUS
  <1>1. /\ wip' = [wip EXCEPT ![w] = @ \cup {job}]
        /\ held' = [held EXCEPT ![w] = Append(@, sent)]
        /\ jobQueue' = RemoveAt(jobQueue, cursor)
        /\ pending' = pending \cup {job.key}
        /\ nextJobId' = nextJobId /\ request' = request
    BY <1>0 DEF Assign
  <1>2. /\ jobQueue \in Seq(Job) /\ cursor \in 1..Len(jobQueue) /\ Len(jobQueue) \in Nat
        /\ DOMAIN jobQueue = 1..Len(jobQueue)
        /\ wip \in [Worker -> SUBSET Job]
        /\ held \in [Worker -> Seq(JobMsg)] /\ Live \subseteq Job
    BY LenProperties, QueueDomain DEF JobInv, TypeOK, Assign
  <1>3. job \in Queued /\ job \in Live
    BY <1>2 DEF Live, Queued
  <1> HIDE DEF job
  <1>4. Queued' \subseteq Queued
    <2>1. /\ jobQueue' \in Seq(Job) /\ Len(jobQueue') = Len(jobQueue) - 1
          /\ \A j \in 1..(Len(jobQueue) - 1) :
                jobQueue'[j] = IF j < cursor THEN jobQueue[j] ELSE jobQueue[j + 1]
      BY <1>1, <1>2, WithoutIndexProperties
    <2>2. DOMAIN jobQueue' = 1..(Len(jobQueue) - 1)
      BY <2>1, LenProperties
    <2>3. ASSUME NEW j \in DOMAIN jobQueue' PROVE jobQueue'[j] \in Queued
      <3>1. j \in 1..Len(jobQueue) /\ j + 1 \in 1..Len(jobQueue)
        BY <1>2, <2>2
      <3>2. jobQueue'[j] = jobQueue[j] \/ jobQueue'[j] = jobQueue[j + 1]
        BY <2>1, <2>2
      <3> QED
        BY <1>2, <3>1, <3>2 DEF Queued
    <2> QED
      BY <2>3 DEF Queued
  <1>5. Live' \subseteq Live
    <2>1. \A v \in Worker : wip'[v] \subseteq wip[v] \cup {job}
      BY <1>1, <1>2
    <2> QED
      BY <1>3, <1>4, <2>1 DEF Live
  <1>6. pending' = pending
    BY <1>1, <1>3 DEF JobInv, JobsMatchOpenSlots, Open
  <1>7. MessageFits(sent)'
    <2>1. \A j \in Live : j.id = job.id => j = job
      BY <1>3 DEF JobInv, OnePlacePerJob, Live, Queued
    <2>2. job.id < nextJobId
      BY <1>3 DEF JobInv, OnePlacePerJob
    <2>3. /\ sent.id = job.id /\ sent.type = job.type /\ sent.data = request[job.key].data
      BY <1>0
    <2>4. /\ sent.id < nextJobId'
          /\ \A j \in Live' : j.id = sent.id =>
                sent.type = j.type /\ sent.data = request'[j.key].data
      BY <1>1, <1>5, <2>1, <2>2, <2>3
    <2> QED
      BY <2>4 DEF MessageFits
  <1>8. sent \in JobMsg
    <2>1. job \in Job /\ request[job.key].data \in Payload
      BY <1>2, <1>3 DEF JobInv, TypeOK, Job, Request
    <2> QED
      BY <1>0, <2>1 DEF Job, JobMsg
  <1>9. ASSUME NEW v \in Worker, NEW i \in 1..Len(held'[v])
        PROVE  MessageFits(held[v][i])'
    <2>1. held[v] \in Seq(JobMsg) /\ Len(held[v]) \in Nat
      BY <1>2, LenProperties
    <2>2. CASE v = w /\ i = Len(held[v]) + 1
      <3>1. held'[v] = Append(held[v], sent)
        BY <1>1, <1>2, <2>2
      <3>2. held'[v][i] = sent
        BY <1>8, <2>1, <2>2, <3>1, AppendProperties
      <3> QED
        BY <1>7, <3>2 DEF MessageFits
    <2>3. CASE ~(v = w /\ i = Len(held[v]) + 1)
      <3>1. i \in 1..Len(held[v]) /\ held'[v][i] = held[v][i]
        <4>1. CASE v = w
          <5>1. held'[v] = Append(held[v], sent)
            BY <1>1, <1>2, <4>1
          <5>2. /\ Len(Append(held[v], sent)) = Len(held[v]) + 1
                /\ \A j \in 1..Len(held[v]) : Append(held[v], sent)[j] = held[v][j]
            BY <1>8, <2>1, AppendProperties
          <5> QED
            BY <2>1, <2>3, <4>1, <5>1, <5>2
        <4>2. CASE v # w
          BY <1>1, <1>2, <4>2
        <4> QED
          BY <4>1, <4>2
      <3>2. MessageFits(held[v][i])
        BY <3>1 DEF MessagesFit
      <3> QED
        BY <1>1, <1>5, <3>1, <3>2 DEF MessageFits
    <2> QED
      BY <2>2, <2>3
  <1> QED
    BY <1>6, <1>9 DEF MessagesFit

-----------------------------------------------------------------------------
(* Results and answers *)

\* What an accepted result makes of its request: every slot filled so far is
\* right, and if nDone says that it was the last then every slot is filled.
LEMMA AcceptedResult ==
    ASSUME JobInv, JobInv', ResultsAreRight, NEW w \in Worker, NEW job \in wip[w],
           AcceptResult(w, job, Compute(job.type, request[job.key].data)),
           jobQueue' = jobQueue,
           NEW r, r = Filled(request[job.key], job,
                             Compute(job.type, request[job.key].data))
    PROVE  /\ job \in Live /\ job.key \in pending /\ job.key \in Key
           /\ Live' \subseteq Live
           /\ r \in Request
           /\ r.types = request[job.key].types /\ r.data = request[job.key].data
           /\ \A t \in r.types : r.results[t] # NoResult => r.results[t] = Compute(t, r.data)
           /\ r.nDone = Cardinality(r.types) => \A t \in r.types : r.results[t] # NoResult
  <1> DEFINE q == request[job.key]
             value == Compute(job.type, q.data)
  <1>1. /\ job \in Live /\ Live \subseteq Job
        /\ job.key \in pending /\ job.key \in Key /\ job.type \in JobType
        /\ job.type \in q.types
    <2>1. job \in Live /\ Live \subseteq Job
      BY QueueDomain DEF JobInv, Live
    <2> QED
      BY <2>1 DEF JobInv, JobsMatchOpenSlots, Open, Job
  <1>2. /\ q \in Request /\ q.types \subseteq JobType /\ q.data \in Payload
        /\ q.results \in [JobType -> Value \cup {NoResult}]
    BY <1>1 DEF JobInv, TypeOK, Request
  <1>3. value \in Value /\ value # NoResult
    BY <1>1, <1>2, DelegatorAssumption DEF Compute, Value, Payload
  <1>4. /\ r \in Request /\ r.types = q.types /\ r.data = q.data
        /\ r.results = [q.results EXCEPT ![job.type] = value]
    BY <1>1, <1>2, <1>3, FilledProperties
  <1>5. wip'[w] = wip[w] \ {job} /\ \A v \in Worker : v # w => wip'[v] = wip[v]
    BY DEF AcceptResult, JobInv, TypeOK
  <1>6. Queued' = Queued
    BY DEF Queued
  <1>7. Live' \subseteq Live /\ Live \ {job} \subseteq Live'
    BY <1>5, <1>6 DEF Live
  <1>8. ASSUME NEW t \in r.types, r.results[t] # NoResult
        PROVE  r.results[t] = Compute(t, r.data)
    <2>1. CASE t = job.type
      BY <1>1, <1>2, <1>4, <2>1
    <2>2. CASE t # job.type
      <3>1. r.results[t] = q.results[t]
        BY <1>1, <1>2, <1>4, <2>2
      <3> QED
        BY <1>1, <1>4, <1>8, <3>1 DEF ResultsAreRight
    <2> QED
      BY <2>1, <2>2
  <1>9. ASSUME r.nDone = Cardinality(r.types), NEW t \in r.types, r.results[t] = NoResult
        PROVE  FALSE
    <2>1. t # job.type /\ t \in JobType
      BY <1>1, <1>2, <1>3, <1>4, <1>9
    <2>2. Open(job.key, t)
      BY <1>1, <1>2, <1>4, <1>9, <2>1 DEF Open
    <2>3. PICK other \in Live : other.key = job.key /\ other.type = t
      BY <1>1, <2>1, <2>2 DEF JobInv, JobsMatchOpenSlots
    <2>4. other \in Live'
      BY <1>7, <2>1, <2>3
    <2>5. job.key \in pending'
      BY <2>3, <2>4 DEF JobInv, JobsMatchOpenSlots, Open
    <2>6. pending' = pending \ {job.key}
      BY <1>9 DEF AcceptResult
    <2> QED
      BY <2>5, <2>6
  <1> QED
    BY <1>1, <1>4, <1>7, <1>8, <1>9

\* The job that a result is accepted for is the one its message was about.
LEMMA AcceptedIsRight ==
    ASSUME JobInv, MessagesFit, NEW w \in Worker, held[w] # <<>>,
           NEW job \in Known(w, Head(held[w]).id)
    PROVE  /\ job \in wip[w]
           /\ Compute(Head(held[w]).type, Head(held[w]).data)
                 = Compute(job.type, request[job.key].data)
  <1>1. held[w] \in Seq(JobMsg)
    BY DEF JobInv, TypeOK
  <1>2. 1 \in 1..Len(held[w]) /\ Head(held[w]) = held[w][1]
    BY <1>1, EmptySeq, LenProperties, HeadTailProperties
  <1>3. job \in wip[w] /\ job \in Live /\ job.id = held[w][1].id
    BY <1>2 DEF Known, Live
  <1>4. MessageFits(held[w][1])
    BY <1>2 DEF MessagesFit
  <1> QED
    BY <1>2, <1>3, <1>4 DEF MessageFits

LEMMA TailKeepsMessages ==
    ASSUME TypeOK, MessagesFit, NEW w \in Worker, held[w] # <<>>,
           held' = [held EXCEPT ![w] = Tail(@)],
           nextJobId' = nextJobId, Live' \subseteq Live,
           \A job \in Live' : request'[job.key].data = request[job.key].data
    PROVE  MessagesFit'
  <1>1. held \in [Worker -> Seq(JobMsg)]
    BY DEF TypeOK
  <1>2. ASSUME NEW v \in Worker, NEW i \in 1..Len(held'[v])
        PROVE  \E j \in 1..Len(held[v]) : held'[v][i] = held[v][j]
    <2>1. CASE v = w
      <3>1. held[w] \in Seq(JobMsg) /\ held'[w] = Tail(held[w])
        BY <1>1
      <3>2. /\ Len(Tail(held[w])) = Len(held[w]) - 1 /\ Len(held[w]) \in Nat
            /\ \A j \in 1..Len(Tail(held[w])) : Tail(held[w])[j] = held[w][j + 1]
        BY <3>1, HeadTailProperties, LenProperties
      <3>3. i \in 1..Len(Tail(held[w])) /\ held'[v][i] = Tail(held[w])[i]
        BY <1>2, <2>1, <3>1
      <3>4. i + 1 \in 1..Len(held[w]) /\ held'[v][i] = held[w][i + 1]
        BY <3>2, <3>3
      <3> QED
        BY <2>1, <3>4
    <2>2. CASE v # w
      BY <1>1, <1>2, <2>2
    <2> QED
      BY <2>1, <2>2
  <1>3. ASSUME NEW v \in Worker, NEW i \in 1..Len(held'[v])
        PROVE  MessageFits(held[v][i])'
    <2>1. PICK j \in 1..Len(held[v]) : held'[v][i] = held[v][j]
      BY <1>2
    <2>2. MessageFits(held[v][j])
      BY DEF MessagesFit
    <2> QED
      BY <2>1, <2>2 DEF MessageFits
  <1> QED
    BY <1>3 DEF MessagesFit

\* The request of k becomes r, or is answered with what r has.
FillsOrAnswers(k, r) ==
    /\ r.types = request[k].types /\ r.data = request[k].data
    /\ \A t \in r.types : r.results[t] # NoResult => r.results[t] = Compute(t, r.data)
    /\ \/ /\ UNCHANGED <<pending, reply>>
          /\ request' = [request EXCEPT ![k] = r]
       \/ /\ pending' = pending \ {k}
          /\ request' = [request EXCEPT ![k] = EmptyRequest]
          /\ \A t \in r.types : r.results[t] # NoResult
          /\ reply' = [reply EXCEPT ![k] = [t \in r.types |-> r.results[t]]]

\* A result either changes nothing but held, or fills in a slot, or fills in the
\* last slot and makes the answer.
LEMMA ReceiveResultCases ==
    ASSUME JobInv, JobInv', AnswerInv, NEW w \in Worker, ReceiveResult(w)
    PROVE  /\ Live' \subseteq Live
           /\ \/ UNCHANGED <<pending, request, reply>>
              \/ \E k \in pending \cap Key, r \in Request : FillsOrAnswers(k, r)
  <1>1. jobQueue' = jobQueue /\ held[w] # <<>>
    BY DEF ReceiveResult
  <1>2. CASE UNCHANGED <<pending, request, reply, wip>>
    BY <1>1, <1>2 DEF Live, Queued
  <1>3. ASSUME NEW job \in Known(w, Head(held[w]).id),
               AcceptResult(w, job, Compute(Head(held[w]).type, Head(held[w]).data))
        PROVE  /\ Live' \subseteq Live
               /\ \E k \in pending \cap Key, r \in Request : FillsOrAnswers(k, r)
    <2>1. /\ job \in wip[w]
          /\ Compute(Head(held[w]).type, Head(held[w]).data)
                = Compute(job.type, request[job.key].data)
      BY <1>1, AcceptedIsRight DEF AnswerInv
    <2>2. AcceptResult(w, job, Compute(job.type, request[job.key].data))
      BY <1>3, <2>1
    <2>3. PICK r : r = Filled(request[job.key], job, Compute(job.type, request[job.key].data))
      OBVIOUS
    <2>4. /\ job.key \in pending /\ job.key \in Key
          /\ Live' \subseteq Live
          /\ r \in Request
          /\ r.types = request[job.key].types /\ r.data = request[job.key].data
          /\ \A t \in r.types : r.results[t] # NoResult => r.results[t] = Compute(t, r.data)
          /\ r.nDone = Cardinality(r.types) => \A t \in r.types : r.results[t] # NoResult
      BY <1>1, <2>1, <2>2, <2>3, AcceptedResult DEF AnswerInv
    <2>5. \/ /\ r.nDone = Cardinality(r.types)
             /\ reply' = [reply EXCEPT ![job.key] = [t \in r.types |-> r.results[t]]]
             /\ pending' = pending \ {job.key}
             /\ request' = [request EXCEPT ![job.key] = EmptyRequest]
          \/ /\ request' = [request EXCEPT ![job.key] = r]
             /\ UNCHANGED <<pending, reply>>
      BY <2>2, <2>3 DEF AcceptResult
    <2> QED
      BY <2>4, <2>5 DEF FillsOrAnswers
  <1> QED
    BY <1>2, <1>3 DEF ReceiveResult

LEMMA ReceiveResultKeepsAnswers ==
    ASSUME JobInv, JobInv', AnswerInv, NEW w \in Worker, ReceiveResult(w)
    PROVE  AnswerInv'
  <1>0. /\ held[w] # <<>> /\ held' = [held EXCEPT ![w] = Tail(@)] /\ nextJobId' = nextJobId
        /\ request \in [Key -> Request] /\ pending \subseteq Key
        /\ reply \in [Key -> Answer \cup {NoReply}]
    BY DEF ReceiveResult, JobInv, TypeOK, AnswerInv, ReplyEndsRequest
  <1>1. Live' \subseteq Live
    BY ReceiveResultCases
  <1>2. \A job \in Live' : job.key \in pending'
    BY DEF JobInv, JobsMatchOpenSlots, Open
  <1>3. ASSUME UNCHANGED <<pending, request, reply>> PROVE AnswerInv'
    <2>1. MessagesFit'
      BY <1>0, <1>1, <1>3, TailKeepsMessages DEF JobInv, AnswerInv
    <2> QED
      BY <1>3, <2>1 DEF AnswerInv, ResultsAreRight, ReplyEndsRequest
  <1>4. ASSUME NEW k \in pending \cap Key, NEW r \in Request,
               r.types = request[k].types, r.data = request[k].data,
               \A t \in r.types : r.results[t] # NoResult => r.results[t] = Compute(t, r.data),
               UNCHANGED <<pending, reply>>, request' = [request EXCEPT ![k] = r]
        PROVE  AnswerInv'
    <2>1. request'[k] = r /\ \A x \in Key : x # k => request'[x] = request[x]
      BY <1>0, <1>4
    <2>2. \A x \in Key : request'[x].data = request[x].data
      BY <1>4, <2>1
    <2>3. MessagesFit'
      BY <1>0, <1>1, <1>2, <1>4, <2>2, TailKeepsMessages DEF JobInv, AnswerInv
    <2>4. ASSUME NEW x \in pending', NEW t \in request'[x].types,
                 request'[x].results[t] # NoResult
          PROVE  request'[x].results[t] = Compute(t, request'[x].data)
      BY <1>0, <1>4, <2>1, <2>4 DEF AnswerInv, ResultsAreRight
    <2> QED
      BY <1>4, <2>3, <2>4 DEF AnswerInv, ResultsAreRight, ReplyEndsRequest
  <1>5. ASSUME NEW k \in pending \cap Key, NEW r \in Request,
               r.types = request[k].types,
               pending' = pending \ {k},
               request' = [request EXCEPT ![k] = EmptyRequest],
               \A t \in r.types : r.results[t] # NoResult,
               reply' = [reply EXCEPT ![k] = [t \in r.types |-> r.results[t]]]
        PROVE  AnswerInv'
    <2>1. \A x \in pending' : x \in pending /\ x \in Key /\ x # k /\ request'[x] = request[x]
      BY <1>0, <1>5
    <2>2. \A job \in Live' : request'[job.key].data = request[job.key].data
      BY <1>2, <2>1
    <2>3. MessagesFit'
      BY <1>0, <1>1, <2>2, TailKeepsMessages DEF JobInv, AnswerInv
    <2>4. ResultsAreRight'
      BY <2>1 DEF AnswerInv, ResultsAreRight
    <2> DEFINE a == [t \in r.types |-> r.results[t]]
    <2>5. a \in Answer
      <3>1. r.types \in SUBSET JobType /\ r.results \in [JobType -> Value \cup {NoResult}]
        BY DEF Request
      <3>2. \A t \in r.types : r.results[t] \in Value
        BY <1>5, <3>1
      <3>3. a \in [r.types -> Value]
        BY <3>2
      <3> HIDE DEF a
      <3> QED
        BY <3>1, <3>3 DEF Answer
    <2> HIDE DEF a
    <2>6. reply' = [reply EXCEPT ![k] = a]
      BY <1>5 DEF a
    <2>7. reply' \in [Key -> Answer \cup {NoReply}]
      BY <1>0, <2>5, <2>6
    <2>8. \A x \in pending' : reply'[x] = NoReply
      BY <1>0, <2>1, <2>6 DEF AnswerInv, ReplyEndsRequest
    <2> QED
      BY <2>3, <2>4, <2>7, <2>8 DEF AnswerInv, ReplyEndsRequest
  <1> QED
    BY <1>3, <1>4, <1>5, ReceiveResultCases DEF FillsOrAnswers

LEMMA NextAnswerInv ==
    ASSUME JobInv, JobInv', AnswerInv, [Next]_vars
    PROVE  AnswerInv'
  <1>0. pending \subseteq Key /\ request \in [Key -> Request]
    BY DEF JobInv, TypeOK
  <1>1. ASSUME MessagesFit', UNCHANGED <<pending, request, reply>> PROVE AnswerInv'
    BY <1>1 DEF AnswerInv, ResultsAreRight, ReplyEndsRequest
  <1>2. ASSUME Live' \subseteq Live, UNCHANGED <<pending, request, reply, nextJobId, held>>
        PROVE  AnswerInv'
    BY <1>1, <1>2, MessagesStayFit DEF AnswerInv
  <1>3. ASSUME UNCHANGED <<queueVars, wip, held, reply>> PROVE AnswerInv'
    <2>1. Live' = Live
      BY <1>3 DEF Live, Queued, queueVars
    <2> QED
      BY <1>2, <1>3, <2>1 DEF queueVars
  <1>4. ASSUME NEW k \in Key, ReceiveRequest(k) PROVE AnswerInv'
    <2>1. MessagesFit'
      BY <1>4, ReceiveRequestKeepsMessages DEF AnswerInv
    <2>2. PICK types \in SUBSET JobType, data \in Data :
            request' = [request EXCEPT ![k] = NewRequest(types, data)]
      BY <1>4 DEF ReceiveRequest
    <2>3. /\ k \notin pending /\ pending' = pending \cup {k}
          /\ reply[k] = NoReply /\ reply' = reply
      BY <1>4 DEF ReceiveRequest
    <2>4. /\ request'[k].types = types
          /\ \A t \in JobType : request'[k].results[t] = NoResult
          /\ \A x \in pending : request'[x] = request[x]
      BY <1>0, <2>2, <2>3 DEF NewRequest, EmptyRequest
    <2> QED
      BY <2>1, <2>3, <2>4 DEF AnswerInv, ResultsAreRight, ReplyEndsRequest
  <1>5. ASSUME NEW k \in Key, Retrieve(k) PROVE AnswerInv'
    <2>1. UNCHANGED <<queueVars, wip, held>> /\ reply' = [reply EXCEPT ![k] = NoReply]
      BY <1>5 DEF Retrieve, workerVars
    <2>2. UNCHANGED <<pending, request, nextJobId>> /\ Live' = Live
      BY <2>1 DEF Live, Queued, queueVars
    <2>3. MessagesFit'
      BY <2>1, <2>2, MessagesStayFit DEF AnswerInv
    <2>4. reply' \in [Key -> Answer \cup {NoReply}] /\ \A x \in pending' : reply'[x] = NoReply
      BY <1>0, <2>1, <2>2 DEF AnswerInv, ReplyEndsRequest
    <2> QED
      BY <2>2, <2>3, <2>4 DEF AnswerInv, ResultsAreRight, ReplyEndsRequest
  <1>6. ASSUME NEW w \in Worker, Assign(w) PROVE AnswerInv'
    <2>1. MessagesFit' /\ pending' = pending
      BY <1>6, AssignKeepsMessages DEF AnswerInv
    <2> QED
      BY <1>1, <1>6, <2>1 DEF Assign
  <1>7. ASSUME NEW w \in Worker, WorkerStep(w) PROVE AnswerInv'
    <2>1. ASSUME DisconnectWorker(w) PROVE AnswerInv'
      <3>1. Live' \subseteq Live
        BY <2>1, DisconnectKeepsLive DEF JobInv
      <3> QED
        BY <1>2, <2>1, <3>1 DEF DisconnectWorker, envVars
    <2>2. CASE Hello(w)
      BY <1>3, <2>2 DEF Hello
    <2>3. CASE ReceiveResult(w)
      BY <2>3, ReceiveResultKeepsAnswers
    <2> QED
      BY <1>7, <2>1, <2>2, <2>3 DEF WorkerStep, HeartbeatGoodbye, NetworkGoodbye
  <1>8. CASE NoMessage \/ SkipJob \/ EndPass \/ UNCHANGED vars
    BY <1>3, <1>8 DEF NoMessage, SkipJob, EndPass, vars, workerVars, envVars
  <1> QED
    BY <1>4, <1>5, <1>6, <1>7, <1>8 DEF Next, Pass

LEMMA InitAnswerInv == Init => AnswerInv
  <1> SUFFICES ASSUME Init PROVE AnswerInv
    OBVIOUS
  <1>1. pending = {} /\ reply \in [Key -> Answer \cup {NoReply}]
    BY DEF Init
  <1>2. \A w \in Worker : 1..Len(held[w]) = {}
    <2>1. \A w \in Worker : held[w] = <<>>
      BY DEF Init
    <2> QED
      BY <2>1, EmptySeq
  <1> QED
    BY <1>1, <1>2 DEF AnswerInv, MessagesFit, ResultsAreRight, ReplyEndsRequest

LEMMA AnswersInvariant == Spec => [](JobInv /\ AnswerInv)
  <1>1. JobInv /\ JobInv' /\ AnswerInv /\ [Next]_vars => AnswerInv'
    BY NextAnswerInv
  <1> QED
    BY <1>1, InitAnswerInv, JobsInvariant, PTL DEF Spec

-----------------------------------------------------------------------------
(* The steps, as RequestReply sees them *)

\* What a key's call is, case by case.
LEMMA CallCases ==
    ASSUME NEW k \in Key
    PROVE  /\ k \in pending =>
                Call[k] = Promise!Asked(request[k].types, request[k].data)
           /\ k \notin pending /\ reply[k] # NoReply =>
                Call[k] = Promise!Answered(reply[k])
           /\ k \notin pending /\ reply[k] = NoReply => Call[k] = NoCall
  BY DEF Call, Promise!Asked, Promise!Answered

\* A step that changes the call of k alone.
LEMMA OneCallChanges ==
    ASSUME NEW k \in Key,
           \A x \in Key : x # k =>
              /\ x \in pending' <=> x \in pending
              /\ request'[x] = request[x]
              /\ reply'[x] = reply[x]
    PROVE  Call' = [Call EXCEPT ![k] = Call'[k]]
  <1>1. ASSUME NEW x \in Key, x # k PROVE Call'[x] = Call[x]
    BY <1>1 DEF Call
  <1>2. Call = [x \in Key |-> Call[x]] /\ Call' = [x \in Key |-> Call'[x]]
    BY DEF Call
  <1> QED
    BY <1>1, <1>2

LEMMA ReceiveRequestIsAsk ==
    ASSUME JobInv, AnswerInv, NEW k \in Key, ReceiveRequest(k)
    PROVE  Promise!Ask(k)
  <1>1. PICK types \in (SUBSET JobType) \ {{}}, data \in Data :
          request' = [request EXCEPT ![k] = NewRequest(types, data)]
    BY DEF ReceiveRequest
  <1>2. /\ request \in [Key -> Request]
        /\ pending' = pending \cup {k} /\ k \notin pending
        /\ reply[k] = NoReply /\ reply' = reply
    BY DEF ReceiveRequest, JobInv, TypeOK
  <1>3. request'[k].types = types /\ request'[k].data = data
    BY <1>1, <1>2 DEF NewRequest, EmptyRequest
  <1>4. Call[k] = NoCall
    BY <1>2, CallCases
  <1>5. Call'[k] = Promise!Asked(types, data)
    BY <1>2, <1>3 DEF Call, Promise!Asked
  <1>6. Call' = [Call EXCEPT ![k] = Call'[k]]
    BY <1>1, <1>2, OneCallChanges
  <1> QED
    BY <1>4, <1>5, <1>6 DEF Promise!Ask

LEMMA FillIsAnswer ==
    ASSUME JobInv, AnswerInv, NEW k \in pending \cap Key, NEW r \in Request,
           FillsOrAnswers(k, r)
    PROVE  Promise!Answer(k) \/ UNCHANGED Call
  <1>0. request \in [Key -> Request] /\ reply \in [Key -> Answer \cup {NoReply}]
    BY DEF JobInv, TypeOK, AnswerInv, ReplyEndsRequest
  <1>1. r.types = request[k].types /\ r.data = request[k].data
    BY DEF FillsOrAnswers
  <1>2. ASSUME UNCHANGED <<pending, reply>>, request' = [request EXCEPT ![k] = r]
        PROVE  UNCHANGED Call
    <2>1. \A x \in Key : /\ request'[x].types = request[x].types
                         /\ request'[x].data = request[x].data
      BY <1>0, <1>1, <1>2
    <2> QED
      BY <1>2, <2>1 DEF Call
  <1>3. ASSUME pending' = pending \ {k},
               request' = [request EXCEPT ![k] = EmptyRequest],
               \A t \in r.types : r.results[t] # NoResult,
               reply' = [reply EXCEPT ![k] = [t \in r.types |-> r.results[t]]]
        PROVE  Promise!Answer(k)
    <2> DEFINE a == [t \in r.types |-> r.results[t]]
               b == [t \in r.types |-> Compute(t, r.data)]
    <2>1. a = b
      BY <1>3 DEF FillsOrAnswers
    <2>2. a # NoReply
      <3>1. /\ r.types \in SUBSET JobType
            /\ r.results \in [JobType -> Value \cup {NoResult}]
        BY DEF Request
      <3>2. a \in [r.types -> Value]
        BY <1>3, <3>1
      <3>3. NoReply \notin [r.types -> Value]
        BY <3>1, DelegatorAssumption DEF Value, Payload
      <3> QED
        BY <3>2, <3>3
    <2>3. reply'[k] = a /\ k \notin pending'
      BY <1>0, <1>3
    <2> HIDE DEF a
    <2>4. Call'[k] = Promise!Answered(a)
      BY <2>2, <2>3 DEF Call, Promise!Answered
    <2>5. Call[k] = Promise!Asked(r.types, r.data)
      BY <1>1, CallCases
    <2>6. Call' = [Call EXCEPT ![k] = Call'[k]]
      BY <1>0, <1>3, OneCallChanges
    <2>7. /\ Call[k] # NoCall /\ Call[k].stage = "asked"
          /\ Call[k].types = r.types /\ Call[k].data = r.data
      BY <2>5 DEF NoCall, Promise!Asked
    <2>8. b = [t \in Call[k].types |-> Promise!Compute(t, Call[k].data)]
      BY <2>7 DEF Compute, Promise!Compute
    <2> HIDE DEF b
    <2> QED
      BY <2>1, <2>4, <2>6, <2>7, <2>8 DEF Promise!Answer
  <1> QED
    BY <1>2, <1>3 DEF FillsOrAnswers

LEMMA RetrieveIsTake ==
    ASSUME JobInv, AnswerInv, NEW k \in Key, Retrieve(k)
    PROVE  Promise!Take(k)
  <1>1. /\ reply[k] # NoReply /\ reply' = [reply EXCEPT ![k] = NoReply]
        /\ UNCHANGED <<pending, request>>
        /\ reply \in [Key -> Answer \cup {NoReply}] /\ k \notin pending
    BY DEF Retrieve, queueVars, AnswerInv, ReplyEndsRequest
  <1>2. Call[k] = Promise!Answered(reply[k])
    BY <1>1, CallCases
  <1>3. Call'[k] = NoCall
    BY <1>1 DEF Call
  <1>4. Call' = [Call EXCEPT ![k] = Call'[k]]
    BY <1>1, OneCallChanges
  <1>5. Call[k] # NoCall /\ Call[k].stage = "answered"
    BY <1>2 DEF NoCall, Promise!Answered
  <1> QED
    BY <1>3, <1>4, <1>5 DEF Promise!Take

\* Every step is one of RequestReply's, or none of its business.
LEMMA StepSimulation ==
    ASSUME JobInv, JobInv', AnswerInv, [Next]_vars
    PROVE  [Promise!Next]_Call
  <1>1. ASSUME UNCHANGED <<pending, request, reply>> PROVE UNCHANGED Call
    BY <1>1 DEF Call
  <1>2. ASSUME NEW k \in Key, ReceiveRequest(k) PROVE Promise!Next
    BY <1>2, ReceiveRequestIsAsk DEF Promise!Next
  <1>3. ASSUME NEW k \in Key, Retrieve(k) PROVE Promise!Next
    BY <1>3, RetrieveIsTake DEF Promise!Next
  <1>4. ASSUME NEW w \in Worker, ReceiveResult(w) PROVE [Promise!Next]_Call
    <2>1. ASSUME NEW k \in pending \cap Key, NEW r \in Request, FillsOrAnswers(k, r)
          PROVE  [Promise!Next]_Call
      BY <2>1, FillIsAnswer DEF Promise!Next
    <2> QED
      BY <1>1, <1>4, <2>1, ReceiveResultCases
  <1>5. ASSUME NEW w \in Worker, Assign(w) PROVE UNCHANGED Call
    <2>1. pending' = pending
      BY <1>5, AssignKeepsMessages DEF AnswerInv
    <2> QED
      BY <1>1, <1>5, <2>1 DEF Assign
  <1>6. ASSUME NEW w \in Worker, HeartbeatGoodbye(w) \/ NetworkGoodbye(w) \/ Hello(w)
        PROVE  UNCHANGED Call
    BY <1>1, <1>6 DEF HeartbeatGoodbye, NetworkGoodbye, DisconnectWorker, Hello,
                      queueVars, envVars
  <1>7. CASE NoMessage \/ SkipJob \/ EndPass \/ UNCHANGED vars
    BY <1>1, <1>7 DEF NoMessage, SkipJob, EndPass, vars, queueVars, envVars
  <1> QED
    BY <1>2, <1>3, <1>4, <1>5, <1>6, <1>7 DEF Next, Pass, WorkerStep

LEMMA InitSimulation == Init => Promise!Init
  BY DEF Init, Call, NoCall, Promise!Init

\* The Delegator implements RequestReply: each request is answered once, with the
\* results of all its types on its own data, whatever becomes of the workers in
\* between (receiveRequest, receiveResult, disconnectWorker and onPoll together).
THEOREM AnswersAreRight == Spec => ImplementsRequestReply
  <1>1. JobInv /\ JobInv' /\ AnswerInv /\ [Next]_vars => [Promise!Next]_Call
    BY StepSimulation
  <1> QED
    BY <1>1, InitSimulation, AnswersInvariant, PTL DEF Spec, ImplementsRequestReply, Promise!Spec
=============================================================================
