----------------------------- MODULE Delegator ------------------------------
(***************************************************************************)
(* The Delegator (src/comms/delegator.cpp) and the poll loop that drives   *)
(* it (src/comms/router.cpp): one thread that turns requests into jobs,    *)
(* hands the jobs to workers, collects the results and re-queues the jobs  *)
(* of the workers it loses.  Every pass of the loop handles at most one    *)
(* message of each socket, in socket order, and then runs onPoll, whose    *)
(* walk over the job queue is modelled one job at a time.                  *)
(*                                                                         *)
(* The requesters, the workers and the heartbeat thread are the            *)
(* environment: a requester asks again only once it has its answer         *)
(* (infer/sampler.cpp does so), a worker answers its jobs in the order it  *)
(* got them (comms/worker.cpp), and a GOODBYE may come at any time.        *)
(***************************************************************************)
EXTENDS Naturals, FiniteSets, SequencesExt

CONSTANTS Key,          \* requester keys, "batch id : socket identity"
          Data,         \* request payloads
          Worker,       \* worker socket identities
          JobType,      \* job types the requesters use
          NJobTypes,    \* nJobTypes_: the range meant by an empty HELLO
          MaxJobs,      \* maxJobs of onPoll: jobs in progress per worker
          Hellos,       \* Hellos[w]: the HELLO payloads w may send, <<>> or <<lo, hi>>
          MaxHellos,    \* bound: HELLOs per worker
          MaxRequests,  \* bound: requests submitted in all
          NoData, NoResult, NoReply

ASSUME DelegatorAssumption ==
    /\ JobType \subseteq Nat /\ IsFiniteSet(JobType)
    /\ NJobTypes \in Nat
    /\ MaxJobs \in Nat \ {0}
    /\ \A w \in Worker : Hellos[w] \subseteq {<<>>} \cup (Nat \X Nat)
    /\ MaxHellos \in Nat /\ MaxRequests \in Nat
    /\ NoData \notin Data
    /\ NoResult \notin JobType \X (Data \cup {NoData})
    /\ \A types \in SUBSET JobType : NoReply \notin [types -> JobType \X (Data \cup {NoData})]

VARIABLES
    pending,     \* the keys of requests_
    request,     \* request[k]: the Request kept under k (EmptyRequest if none)
    jobQueue,    \* jobQueue_
    nextJobId,   \* nextJobId_
    connected,   \* the keys of workers_
    range,       \* range[w]: jobTypesRange of w, [lo, hi)
    wip,         \* wip[w]: the jobs in workInProgress of w
    phase,       \* where the pass of the poll loop stands
    cursor,      \* the position onPoll's iterator i has reached in jobQueue
    crashed,     \* the thread has run into undefined behaviour or an exception
    held,        \* held[w]: JOB messages sent to w and not answered yet
    reply,       \* reply[k]: the RESULT message on its way to requester k
    hellos,      \* hellos[w]: HELLOs w has sent (bound)
    requests     \* number of requests submitted (bound)

queueVars   == <<pending, request, jobQueue, nextJobId>>
workerVars  == <<connected, range, wip>>
controlVars == <<phase, cursor, crashed>>
envVars     == <<held, reply, hellos, requests>>
vars        == <<queueVars, workerVars, controlVars, envVars>>

-----------------------------------------------------------------------------
\* What a worker computes for a job.
Compute(type, data) == <<type, data>>

Payload == Data \cup {NoData}
Value   == JobType \X Payload
Job     == [type : JobType, id : Nat, key : Key]
JobMsg  == [type : JobType, id : Nat, data : Payload]
JobRange == [lo : Nat, hi : Nat]
Request == [types   : SUBSET JobType,
            data    : Payload,
            results : [JobType -> Value \cup {NoResult}],
            nDone   : Nat]

\* What requests_[key] makes up for a key it does not hold.
EmptyRequest == [types |-> {}, data |-> NoData,
                 results |-> [t \in JobType |-> NoResult], nDone |-> 0]

NewRequest(types, data) == [EmptyRequest EXCEPT !.types = types, !.data = data]

\* jobTypesRange: an empty HELLO means every type the server knows of.
RangeOf(hello) == IF hello = <<>> THEN [lo |-> 0, hi |-> NJobTypes]
                                  ELSE [lo |-> hello[1], hi |-> hello[2]]

\* std::set<uint> iterates upwards.
Ascending(q) == \A i, j \in DOMAIN q : i < j => q[i] < q[j]

\* Mutant of Eligible: a worker may get one job more than MaxJobs.
EligibleWhenFull(w, type) ==
    /\ w \in connected
    /\ range[w].lo <= type /\ type < range[w].hi
    /\ Cardinality(wip[w]) <= MaxJobs

\* The worker tests of bestWorker.  Which of the eligible workers is the best
\* depends on measured times only, so any of them may be.
Eligible(w, type) ==
    /\ w \in connected
    /\ range[w].lo <= type /\ type < range[w].hi
    /\ Cardinality(wip[w]) < MaxJobs


-----------------------------------------------------------------------------
Init ==
    /\ pending = {}
    /\ request = [k \in Key |-> EmptyRequest]
    /\ jobQueue = <<>>
    /\ nextJobId = 0
    /\ connected = {}
    /\ range = [w \in Worker |-> [lo |-> 0, hi |-> 0]]
    /\ wip = [w \in Worker |-> {}]
    /\ phase = "requester"
    /\ cursor = 1
    /\ crashed = FALSE
    /\ held = [w \in Worker |-> <<>>]
    /\ reply = [k \in Key |-> NoReply]
    /\ hellos = [w \in Worker |-> 0]
    /\ requests = 0

-----------------------------------------------------------------------------
(* The requester socket *)

\* Mutant of NewJobs: the id goes up once per request, not once per job.
JobsWithOneId(k, order) ==
    [i \in DOMAIN order |-> [type |-> order[i], id |-> nextJobId, key |-> k]]

\* The jobs of a request of key k, one per type, in the given order of types.
NewJobs(k, order) ==
    [i \in DOMAIN order |-> [type |-> order[i], id |-> nextJobId + i - 1, key |-> k]]

\* receiveRequest: one job per type, in ascending order, at the queue's back.
\* The requester's own discipline keeps k from being pending already.
ReceiveRequest(k) ==
    /\ ~crashed /\ phase = "requester"
    /\ requests < MaxRequests
    /\ k \notin pending /\ reply[k] = NoReply
    /\ \E types \in (SUBSET JobType) \ {{}}, data \in Data :
       \E order \in SetToSeqs(types) :
          /\ Ascending(order)
          /\ request' = [request EXCEPT ![k] = NewRequest(types, data)]
          /\ jobQueue' = jobQueue \o NewJobs(k, order)
          /\ nextJobId' = nextJobId + Cardinality(types)
    /\ pending' = pending \cup {k}
    /\ phase' = "heartbeat"
    /\ requests' = requests + 1
    /\ UNCHANGED <<workerVars, cursor, crashed, held, reply, hellos>>

-----------------------------------------------------------------------------
(* The heartbeat and network sockets *)

\* Mutant of DisconnectWorker: the jobs of w are forgotten.
DisconnectLosingJobs(w) ==
    /\ w \in connected
    /\ connected' = connected \ {w}
    /\ wip' = [wip EXCEPT ![w] = {}]
    /\ range' = [range EXCEPT ![w] = [lo |-> 0, hi |-> 0]]
    /\ UNCHANGED <<queueVars, cursor, crashed, envVars>>

\* Mutant of DisconnectWorker: w stays connected when its jobs are taken away.
DisconnectKeepingWorker(w) ==
    /\ w \in connected
    /\ \E order \in SetToSeqs(wip[w]) : jobQueue' = order \o jobQueue
    /\ wip' = [wip EXCEPT ![w] = {}]
    /\ UNCHANGED <<pending, request, nextJobId, connected, range, cursor, crashed, envVars>>

\* disconnectWorker: the jobs of w go back to the front of the queue, each
\* pushed before the last one, in the order of their ids as strings.
DisconnectWorker(w) ==
    /\ w \in connected
    /\ \E order \in SetToSeqs(wip[w]) : jobQueue' = order \o jobQueue
    /\ connected' = connected \ {w}
    /\ wip' = [wip EXCEPT ![w] = {}]
    /\ range' = [range EXCEPT ![w] = [lo |-> 0, hi |-> 0]]
    /\ UNCHANGED <<pending, request, nextJobId, cursor, crashed, envVars>>

\* The heartbeat thread says GOODBYE on behalf of w.
HeartbeatGoodbye(w) ==
    /\ ~crashed /\ phase = "heartbeat"
    /\ DisconnectWorker(w)
    /\ phase' = "network"

\* w itself says GOODBYE.
NetworkGoodbye(w) ==
    /\ ~crashed /\ phase = "network"
    /\ DisconnectWorker(w)
    /\ phase' = "onPoll"

\* fNewWorker and connectWorker: a HELLO from a connected worker is forwarded
\* to the heartbeat thread but changes nothing here.
Hello(w) ==
    /\ ~crashed /\ phase = "network"
    /\ hellos[w] < MaxHellos
    /\ hellos' = [hellos EXCEPT ![w] = @ + 1]
    /\ \/ /\ w \in connected
          /\ UNCHANGED <<connected, range>>
       \/ /\ w \notin connected
          /\ connected' = connected \cup {w}
          /\ \E h \in Hellos[w] : range' = [range EXCEPT ![w] = RangeOf(h)]
    /\ phase' = "onPoll"
    /\ UNCHANGED <<queueVars, wip, cursor, crashed, held, reply, requests>>

\* Mutant of Filled: the result is stored but not counted.
FilledUncounted(r, job, value) == [r EXCEPT !.results = [@ EXCEPT ![job.type] = value]]

\* The request a result belongs to, with the result filled in.
Filled(r, job, value) ==
    [r EXCEPT !.results = [@ EXCEPT ![job.type] = value], !.nDone = @ + 1]

\* Mutant of AcceptResult: the answer goes out one result too early.
AnswerEarly(w, job, value) ==
    LET r == Filled(request[job.key], job, value) IN
    /\ wip' = [wip EXCEPT ![w] = @ \ {job}]
    /\ \/ /\ r.nDone + 1 >= Cardinality(r.types)
          /\ reply' = [reply EXCEPT ![job.key] = [t \in r.types |-> r.results[t]]]
          /\ pending' = pending \ {job.key}
          /\ request' = [request EXCEPT ![job.key] = EmptyRequest]
       \/ /\ r.nDone + 1 < Cardinality(r.types)
          /\ request' = [request EXCEPT ![job.key] = r]
          /\ UNCHANGED <<pending, reply>>

\* receiveResult for a job that w has in progress.
AcceptResult(w, job, value) ==
    LET r == Filled(request[job.key], job, value) IN
    /\ wip' = [wip EXCEPT ![w] = @ \ {job}]
    /\ \/ /\ r.nDone = Cardinality(r.types)
          /\ reply' = [reply EXCEPT ![job.key] = [t \in r.types |-> r.results[t]]]
          /\ pending' = pending \ {job.key}
          /\ request' = [request EXCEPT ![job.key] = EmptyRequest]
       \/ /\ r.nDone # Cardinality(r.types)
          /\ request' = [request EXCEPT ![job.key] = r]
          /\ UNCHANGED <<pending, reply>>

\* The job that workInProgress[id] and then requests_[requesterID] find for a
\* result, if both lookups succeed.
Known(w, id) == {job \in wip[w] : job.id = id /\ job.key \in pending}

\* receiveResult.  A result from a worker that is not connected is dropped.
\* For an id w does not have in progress, operator[] makes up an empty job
\* and the handler goes on to write the result into an empty vector (or, if
\* the worker does not serve type 0, times.at throws): the thread is gone.
ReceiveResult(w) ==
    /\ ~crashed /\ phase = "network"
    /\ held[w] # <<>>
    /\ held' = [held EXCEPT ![w] = Tail(@)]
    /\ phase' = "onPoll"
    /\ LET msg == Head(held[w]) IN
       \/ /\ w \notin connected
          /\ UNCHANGED <<pending, request, reply, wip, crashed>>
       \/ /\ w \in connected
          /\ \E job \in Known(w, msg.id) :
                AcceptResult(w, job, Compute(msg.type, msg.data))
          /\ UNCHANGED crashed
       \/ /\ w \in connected
          /\ Known(w, msg.id) = {}
          /\ crashed' = TRUE
          /\ UNCHANGED <<pending, request, reply, wip>>
    /\ UNCHANGED <<jobQueue, nextJobId, connected, range, cursor, hellos, requests>>

-----------------------------------------------------------------------------
(* The poll loop and onPoll *)

\* SocketRouter::poll finds no message on the socket it looks at.
NoMessage ==
    /\ ~crashed /\ phase \in {"requester", "heartbeat", "network"}
    /\ phase' = CASE phase = "requester" -> "heartbeat"
                  [] phase = "heartbeat" -> "network"
                  [] phase = "network"   -> "onPoll"
    /\ UNCHANGED <<queueVars, workerVars, cursor, crashed, envVars>>

\* Mutant of Assign: the iterator moves on past the job that follows.
AssignAndSkipNext(w) ==
    /\ ~crashed /\ phase = "onPoll"
    /\ cursor <= Len(jobQueue)
    /\ LET job == jobQueue[cursor] IN
       /\ Eligible(w, job.type)
       /\ pending' = pending \cup {job.key}
       /\ held' = [held EXCEPT ![w] =
             Append(@, [type |-> job.type, id |-> job.id, data |-> request[job.key].data])]
       /\ wip' = [wip EXCEPT ![w] = @ \cup {job}]
    /\ jobQueue' = RemoveAt(jobQueue, cursor)
    /\ cursor' = cursor + 1
    /\ UNCHANGED <<request, nextJobId, connected, range, phase, crashed,
                   reply, hellos, requests>>

\* onPoll hands the job at the cursor to w.  requests_[...] would add a
\* request that is not there.
Assign(w) ==
    /\ ~crashed /\ phase = "onPoll"
    /\ cursor <= Len(jobQueue)
    /\ LET job == jobQueue[cursor] IN
       /\ Eligible(w, job.type)
       /\ pending' = pending \cup {job.key}
       /\ held' = [held EXCEPT ![w] =
             Append(@, [type |-> job.type, id |-> job.id, data |-> request[job.key].data])]
       /\ wip' = [wip EXCEPT ![w] = @ \cup {job}]
    /\ jobQueue' = RemoveAt(jobQueue, cursor)
    /\ UNCHANGED <<request, nextJobId, connected, range, controlVars,
                   reply, hellos, requests>>

\* onPoll finds no worker for the job at the cursor.
SkipJob ==
    /\ ~crashed /\ phase = "onPoll"
    /\ cursor <= Len(jobQueue)
    /\ \A w \in Worker : ~Eligible(w, jobQueue[cursor].type)
    /\ cursor' = cursor + 1
    /\ UNCHANGED <<queueVars, workerVars, phase, crashed, envVars>>

\* onPoll is through; the next pass begins.
EndPass ==
    /\ ~crashed /\ phase = "onPoll"
    /\ cursor > Len(jobQueue)
    /\ cursor' = 1
    /\ phase' = "requester"
    /\ UNCHANGED <<queueVars, workerVars, crashed, envVars>>

-----------------------------------------------------------------------------
\* Requester::retrieve at the other end of the requester socket.
Retrieve(k) ==
    /\ reply[k] # NoReply
    /\ reply' = [reply EXCEPT ![k] = NoReply]
    /\ UNCHANGED <<queueVars, workerVars, controlVars, held, hellos, requests>>

Pass == NoMessage \/ (\E w \in Worker : Assign(w)) \/ SkipJob \/ EndPass

WorkerStep(w) == HeartbeatGoodbye(w) \/ NetworkGoodbye(w) \/ Hello(w) \/ ReceiveResult(w)

Next ==
    \/ Pass
    \/ \E w \in Worker : WorkerStep(w)
    \/ \E k \in Key : ReceiveRequest(k) \/ Retrieve(k)

Spec == Init /\ [][Next]_vars

\* The thread never stops polling (router.cpp:49).  Nothing is assumed of the
\* workers: EveryRequestAnswered names what it needs of them.
Fairness == WF_vars(Pass)

FairSpec == Spec /\ Fairness

-----------------------------------------------------------------------------
(* Properties *)

\* Every variable has the type of the code's member it stands for; no worker
\* has more than MaxJobs jobs, nor a job outside the range of its HELLO
\* (delegator.cpp:211-213); a worker that is not connected has none.
TypeOK ==
    /\ pending \subseteq Key
    /\ request \in [Key -> Request]
    /\ jobQueue \in Seq(Job)
    /\ nextJobId \in Nat
    /\ connected \subseteq Worker
    /\ range \in [Worker -> JobRange]
    /\ wip \in [Worker -> SUBSET Job]
    /\ \A w \in Worker :
          /\ IsFiniteSet(wip[w]) /\ Cardinality(wip[w]) <= MaxJobs
          /\ w \notin connected => wip[w] = {}
          /\ \A job \in wip[w] : range[w].lo <= job.type /\ job.type < range[w].hi
    /\ phase \in {"requester", "heartbeat", "network", "onPoll"}
    /\ cursor \in Nat \ {0}
    /\ crashed \in BOOLEAN
    /\ held \in [Worker -> Seq(JobMsg)]
    /\ hellos \in [Worker -> 0..MaxHellos]
    /\ requests \in 0..MaxRequests

Queued == {jobQueue[i] : i \in DOMAIN jobQueue}
Live == Queued \cup UNION {wip[w] : w \in Worker}

\* A job, known by the id it was given, is in one place only: one position of the
\* queue or one worker's work in progress, whatever the order of results,
\* disconnections and re-queueing.
OnePlacePerJob ==
    /\ \A job \in Live : job.id < nextJobId
    /\ \A i, j \in DOMAIN jobQueue : jobQueue[i].id = jobQueue[j].id => i = j
    /\ \A i \in DOMAIN jobQueue, w \in Worker :
          \A job \in wip[w] : job.id # jobQueue[i].id
    /\ \A v, w \in Worker : \A a \in wip[v], b \in wip[w] :
          a.id = b.id => v = w /\ a = b

Open(k, t) == k \in pending /\ t \in request[k].types /\ request[k].results[t] = NoResult

\* The live jobs are exactly the open slots of the pending requests: no slot is
\* forgotten when a worker is lost, none is computed twice, and no job
\* outlives its request (what receiveResult's unchecked lookups rely on).
JobsMatchOpenSlots ==
    /\ \A job \in Live : Open(job.key, job.type)
    /\ \A a, b \in Live : a.key = b.key /\ a.type = b.type => a = b
    /\ \A k \in Key, t \in JobType :
          Open(k, t) => \E job \in Live : job.key = k /\ job.type = t

\* nDone counts the filled slots, so the RESULT goes out when the last slot is
\* filled and never with one still empty (delegator.cpp:192-199).
DoneCountsFilledSlots ==
    \A k \in pending :
        LET filled == {t \in request[k].types : request[k].results[t] # NoResult}
        IN  /\ request[k].nDone = Cardinality(filled)
            /\ request[k].nDone < Cardinality(request[k].types)

\* No result ever reaches a handler that has no job for it (delegator.cpp:182).
NeverCrashes == ~crashed

\* When onPoll returns, no job is left in the queue that some worker could take.
WorkConserving ==
    phase = "requester" =>
        \A i \in DOMAIN jobQueue, w \in Worker : ~Eligible(w, jobQueue[i].type)

\* Jobs of one type leave the queue in the order they stand in it: onPoll never
\* hands out a job while an earlier job of that type stays queued.
AssignedInOrder ==
    [][\A i, j \in DOMAIN jobQueue :
          /\ i < j
          /\ jobQueue[i].type = jobQueue[j].type
          /\ \E w \in Worker : jobQueue[j] \in wip'[w] \ wip[w]
          => jobQueue[i] \notin Queued']_vars

\* Where the request of each key stands, as RequestReply sees it.
NoCall == [stage |-> "idle"]
Call == [k \in Key |->
            IF k \in pending
            THEN [stage |-> "asked", types |-> request[k].types, data |-> request[k].data]
            ELSE IF reply[k] # NoReply
            THEN [stage |-> "answered", answer |-> reply[k]]
            ELSE NoCall]

Promise == INSTANCE RequestReply WITH call <- Call, Idle <- NoCall

\* The Delegator implements RequestReply: a requester gets exactly one answer,
\* made of the results for its own types and data, even if its key was used
\* before and workers were lost on the way.
ImplementsRequestReply == Promise!Spec

\* w is connected and takes jobs of every type.
ServesAll(w) == w \in connected /\ \A t \in JobType : range[w].lo <= t /\ t < range[w].hi

\* Every request is answered, whichever workers come and go and however often its
\* jobs are taken, handed back and queued again, provided that no worker
\* keeps a job for ever (each is answered or, when its worker is given up,
\* taken from it) and that some worker that serves every type stays in the
\* end; unless a late result takes the lookup of delegator.cpp:182 down.  The
\* first condition is one the Delegator cannot bring about: a worker
\* that is connected and never answers holds up the request.
EveryRequestAnswered ==
    /\ \A w \in Worker, k \in Key : []<>(\A job \in wip[w] : job.key # k)
    /\ \E w \in Worker : <>[]ServesAll(w)
    => \A k \in Key : k \in pending ~> k \notin pending \/ crashed
=============================================================================
