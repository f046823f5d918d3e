------------------------------ MODULE Routing -------------------------------
(***************************************************************************)
(* The way of a request through the sockets, as frames: from a Requester   *)
(* (src/comms/requester.cpp) to the Delegator, as jobs to clients and      *)
(* their minions, and back.  What travels is text; who gets an answer is   *)
(* decided by the address frames alone.                                    *)
(*                                                                         *)
(* Every callback is bound to a socket and a subject as in the             *)
(* constructors; messages may overtake each other, and any worker of the   *)
(* right range may get a job: Delegator and Worker have the order, the     *)
(* queues and the loss of workers.                                         *)
(***************************************************************************)
EXTENDS Integers, SequencesExt, FiniteSetsExt, TLC, Messages

CONSTANTS Client,       \* socket identities of stateline-clients
          JobTypeRange, \* jobTypesRange of each client's minion
          Submissions   \* bound: the calls of submit, in their order: the identity of
                        \* the requester's socket, id, jobTypes and data

ASSUME RoutingAssumption ==
    /\ JobTypeRange \in [Client -> Nat \X Nat]
    /\ DOMAIN Submissions = 1..Len(Submissions) /\ Len(Submissions) \in Nat
    /\ \A i \in DOMAIN Submissions :
          LET s == Submissions[i]
          IN  /\ s.id \in Numbers
              /\ s.jobTypes \in Seq(Nat \cap Numbers) /\ s.jobTypes # <<>>
              /\ s.data \in Seq(Int)
              /\ \A k \in DOMAIN s.data : SixDecimals(s.data[k]) \in Numbers

VARIABLES
    wire,        \* the messages on their way: the frames, and the socket they reach
    asked,       \* number of submissions so far
    pending,     \* what requesters wait for: requester and id
    answers,     \* what requesters have retrieved
    workers,     \* workers_ of the Delegator
    requests,    \* requests_
    jobQueue,    \* jobQueue_
    wip,         \* workInProgress of all workers
    nextJobId,
    monitored,   \* clients_ of the heartbeat thread
    alive,       \* the clients that have had a HEARTBEAT of the server
    currentJob   \* currentJob[c]: what the minion of client c computes, or NoJob

delegatorVars == <<workers, requests, jobQueue, wip, nextJobId>>
routingVars ==
    <<wire, asked, pending, answers, delegatorVars, monitored, alive, currentJob>>

NoJob == <<>>
Identity(name) == <<name>>

\* The end of a socket that receives, and the owner of it if there are several.
At(socket, owner) == <<socket, owner>>
Server(socket) == At(socket, Empty)
Packet(at, frames) == [at |-> at, frames |-> frames]

\* A message a ROUTER sends reaches the peer its first frame names.
Routed(socket, m) == Packet(At(socket, PeerOf(Frames(m))), ToPeer(Frames(m)))
\* A DEALER's message reaches a ROUTER with the DEALER's identity in front.
Dealt(socket, name, m) == Packet(Server(socket), FromPeer(Identity(name), Frames(m)))
\* Between two PAIRs or DEALERs nothing is added.
Plain(at, m) == Packet(at, Frames(m))

\* router_.bind(socket, subject, callback): the messages the callback would be given,
\* each with what is left on the wire.
bind(at, subject) ==
    {[m |-> Received(p.frames), rest |-> wire \ {p}] :
        p \in {q \in wire : q.at = at /\ Received(q.frames).subject = subject}}

RoutingIdle ==
    /\ wire = {} /\ answers = {} /\ asked = 0 /\ pending = {}
    /\ workers = <<>> /\ requests = <<>> /\ jobQueue = {} /\ wip = {} /\ nextJobId = 0
    /\ monitored = {} /\ alive = {}
    /\ currentJob = [c \in Client |-> NoJob]

-----------------------------------------------------------------------------
(* The requesters *)

Requester == {Submissions[i].requester : i \in DOMAIN Submissions}

\* submit: who uses a Requester asks for an id again only when it has the answer
\* (Sampler!OneOutstandingPerChain).
submit(s) ==
    LET jobTypes == joinStr([i \in DOMAIN s.jobTypes |-> Text(s.jobTypes[i])])
        data     == joinStr([i \in DOMAIN s.data |-> PrintedDouble(s.data[i])])
    IN  /\ <<s.requester, s.id>> \notin pending
        /\ pending' = pending \cup {<<s.requester, s.id>>}
        /\ asked' = asked + 1
        /\ wire' = wire \cup
              {Dealt("requests", s.requester,
                     Message(<<Text(s.id)>>, "REQUEST", <<jobTypes, data>>))}
        /\ UNCHANGED <<answers, delegatorVars, monitored, alive, currentJob>>

\* retrieve
retrieve(r) ==
    LET Take(m, rest) ==
            /\ wire' = rest
            /\ pending' = pending \ {<<r, Number(m.address[1])>>}
            /\ answers' = answers \cup
                  {[requester |-> r, id |-> Number(m.address[1]),
                    results |-> [i \in DOMAIN m.data |-> ParsedDouble(m.data[i])]]}
            /\ UNCHANGED <<asked, delegatorVars, monitored, alive, currentJob>>
    IN  \E b \in bind(At("answers", Identity(r)), "RESULT") : Take(b.m, b.rest)

-----------------------------------------------------------------------------
(* The Delegator *)

\* What a std::set of numbers holds, in its order.
Ascending(S) ==
    CHOOSE q \in SetToSeqs(S) : \A i, j \in DOMAIN q : i < j => q[i] < q[j]

\* std::map::insert: a key that is there keeps its value.
inserted(map, key, value) ==
    [k \in DOMAIN map \cup {key} |-> IF k \in DOMAIN map THEN map[k] ELSE value]

\* receiveRequest: the types as a set, so ascending and each of them once.  Ids count
\* up; Numbers bounds them.
receiveRequest(m, rest) ==
    LET key   == joinStr(m.address)
        types == Ascending({Number(t) : t \in ToSet(splitStr(m.data[1]))})
    IN  /\ \A i \in DOMAIN types : nextJobId + i - 1 \in Numbers
        /\ requests' = inserted(requests, key,
              [address |-> m.address, data |-> m.data[2], nDone |-> 0,
               results |-> [i \in DOMAIN types |-> Empty]])
        /\ jobQueue' = jobQueue \cup
              {[type |-> types[i], id |-> nextJobId + i - 1, key |-> key, index |-> i] :
                  i \in DOMAIN types}
        /\ nextJobId' = nextJobId + Len(types)
        /\ wire' = rest
        /\ UNCHANGED <<asked, pending, answers, workers, wip, monitored, alive, currentJob>>

\* fNewWorker and connectWorker
fNewWorker(m, rest) ==
    LET bounds == splitStr(m.data[1])
    IN  /\ wire' = rest \cup {Plain(Server("heartbeat"), m)}
        /\ workers' = inserted(workers, m.address[1],
              [address |-> m.address, lo |-> Number(bounds[1]), hi |-> Number(bounds[2])])
        /\ UNCHANGED <<asked, pending, answers, requests, jobQueue, wip, nextJobId,
                       monitored, alive, currentJob>>

\* onPoll gives job to worker w.
sendJob(w, job) ==
    /\ workers[w].lo <= job.type /\ job.type < workers[w].hi
    /\ jobQueue' = jobQueue \ {job}
    /\ wip' = wip \cup {[worker |-> w, job |-> job]}
    /\ wire' = wire \cup
          {Routed("client", Message(workers[w].address, "JOB",
                      <<Text(job.type), Text(job.id), requests[job.key].data>>))}
    /\ UNCHANGED <<asked, pending, answers, workers, requests, nextJobId, monitored, alive, currentJob>>

\* Mutant of receiveResult: results are kept in the order in which they come.
ResultsAsTheyCome(m, rest) ==
    \E entry \in wip :
        LET job == entry.job
            r   == [requests[job.key] EXCEPT !.results[requests[job.key].nDone + 1] = m.data[2],
                                             !.nDone = @ + 1]
        IN  /\ entry.worker = m.address[1] /\ Text(job.id) = m.data[1]
            /\ wip' = wip \ {entry}
            /\ IF r.nDone = Len(r.results)
               THEN /\ wire' = rest \cup {Routed("answers", Message(r.address, "RESULT", r.results))}
                    /\ requests' = [k \in DOMAIN requests \ {job.key} |-> requests[k]]
               ELSE wire' = rest /\ requests' = [requests EXCEPT ![job.key] = r]
            /\ UNCHANGED <<asked, pending, answers, workers, jobQueue, nextJobId, monitored, alive, currentJob>>

\* receiveResult of a job in progress (Delegator has the others).
receiveResult(m, rest) ==
    \E entry \in wip :
        LET job == entry.job
            r   == [requests[job.key] EXCEPT !.results[job.index] = m.data[2], !.nDone = @ + 1]
        IN  /\ entry.worker = m.address[1] /\ Text(job.id) = m.data[1]
            /\ wip' = wip \ {entry}
            /\ IF r.nDone = Len(r.results)
               THEN /\ wire' = rest \cup {Routed("answers", Message(r.address, "RESULT", r.results))}
                    /\ requests' = [k \in DOMAIN requests \ {job.key} |-> requests[k]]
               ELSE wire' = rest /\ requests' = [requests EXCEPT ![job.key] = r]
            /\ UNCHANGED <<asked, pending, answers, workers, jobQueue, nextJobId, monitored, alive, currentJob>>

\* fForwardToNetwork: a heartbeat of the heartbeat thread goes to the client it names.
fForwardToNetwork(m, rest) ==
    /\ wire' = rest \cup {Routed("client", m)}
    /\ UNCHANGED <<asked, pending, answers, delegatorVars, monitored, alive, currentJob>>

DelegatorStep ==
    \/ \E b \in bind(Server("requests"), "REQUEST") : receiveRequest(b.m, b.rest)
    \/ \E b \in bind(Server("network"), "HELLO") : fNewWorker(b.m, b.rest)
    \/ \E b \in bind(Server("network"), "RESULT") : receiveResult(b.m, b.rest)
    \/ \E b \in bind(Server("fromHeartbeat"), "HEARTBEAT") : fForwardToNetwork(b.m, b.rest)
    \/ \E w \in DOMAIN workers, job \in jobQueue : sendJob(w, job)

\* insertClient; the first heartbeat of sendHeartbeats stands for all.
insertClient(m, rest) ==
    /\ monitored' = monitored \cup {Last(m.address)}
    /\ wire' = rest \cup
          {Plain(Server("fromHeartbeat"), Message(<<Last(m.address)>>, "HEARTBEAT", <<>>))}
    /\ UNCHANGED <<asked, pending, answers, delegatorVars, alive, currentJob>>

-----------------------------------------------------------------------------
(* A client and its minion *)

\* The minion's constructor says HELLO.
SayHello(c) ==
    LET range == joinStr([i \in 1..2 |-> Text(JobTypeRange[c][i])])
        hello == Plain(At("fromMinion", c), Message(<<>>, "HELLO", <<range>>))
    IN  /\ Identity(c) \notin DOMAIN workers
        /\ \A p \in wire : p.at # hello.at /\ Received(p.frames).subject # "HELLO"
        /\ wire' = wire \cup {hello}
        /\ UNCHANGED <<asked, pending, answers, delegatorVars, monitored, alive, currentJob>>

\* nextJob
nextJob(c) ==
    LET Take(m, rest) ==
            LET sample == splitStr(m.data[3])
            IN  /\ currentJob[c] = NoJob
                /\ currentJob' = [currentJob EXCEPT ![c] =
                      [id |-> m.data[2], type |-> Number(m.data[1]),
                       sample |-> [i \in DOMAIN sample |-> ParsedDouble(sample[i])]]]
                /\ wire' = rest
                /\ UNCHANGED <<asked, pending, answers, delegatorVars, monitored, alive>>
    IN  \E b \in bind(At("minion", c), "JOB") : Take(b.m, b.rest)

Likelihood(type, sample) == 7 * type + FoldLeft(+, 0, sample)

\* submitResult
submitResult(c) ==
    LET result == PrintedDouble(Likelihood(currentJob[c].type, currentJob[c].sample))
    IN  /\ currentJob[c] # NoJob
        /\ currentJob' = [currentJob EXCEPT ![c] = NoJob]
        /\ wire' = wire \cup
              {Plain(At("fromMinion", c), Message(<<>>, "RESULT", <<currentJob[c].id, result>>))}
        /\ UNCHANGED <<asked, pending, answers, delegatorVars, monitored, alive>>

\* The client: jobs go to the minion and its messages to the server as they are, but
\* for the address, which a HELLO loses; heartbeats go to the client's own thread.
ClientStep(c) ==
    LET Forward(m, rest, p) ==
            /\ wire' = rest \cup {p}
            /\ UNCHANGED <<asked, pending, answers, delegatorVars, monitored, alive, currentJob>>
        onJobFromNetwork(m, rest) == Forward(m, rest, Plain(At("minion", c), m))
        onResultFromMinion(m, rest) == Forward(m, rest, Dealt("network", c, m))
        forwardToNetwork(m, rest) ==
            Forward(m, rest, Dealt("network", c, Message(<<>>, m.subject, m.data)))
        forwardToHB(m, rest) ==
            /\ wire' = rest /\ alive' = alive \cup {c}
            /\ UNCHANGED <<asked, pending, answers, delegatorVars, monitored, currentJob>>
    IN  \/ \E b \in bind(At("client", Identity(c)), "JOB") : onJobFromNetwork(b.m, b.rest)
        \/ \E b \in bind(At("fromMinion", c), "RESULT") : onResultFromMinion(b.m, b.rest)
        \/ \E b \in bind(At("fromMinion", c), "HELLO") : forwardToNetwork(b.m, b.rest)
        \/ \E b \in bind(At("client", Identity(c)), "HEARTBEAT") : forwardToHB(b.m, b.rest)

RoutingNext ==
    \/ asked < Len(Submissions) /\ submit(Submissions[asked + 1])
    \/ \E r \in Requester : retrieve(r)
    \/ DelegatorStep
    \/ \E b \in bind(Server("heartbeat"), "HELLO") : insertClient(b.m, b.rest)
    \/ \E c \in Client : SayHello(c) \/ ClientStep(c) \/ nextJob(c) \/ submitResult(c)

-----------------------------------------------------------------------------
(* Property *)

Rounded(x) == ParsedDouble(PrintedDouble(x))

\* What a submission must bring: a result per type, in ascending order of the
\* types, of the sample as it is printed.
Expected(s) ==
    LET types   == Ascending(ToSet(s.jobTypes))
        printed == [i \in DOMAIN s.data |-> Rounded(s.data[i])]
    IN  [i \in DOMAIN types |-> Rounded(Likelihood(types[i], printed))]

\* The callbacks of all the routers, and the two loops that receive by themselves.
Understood ==
    {<<"requests", "REQUEST">>, <<"network", "HELLO">>, <<"network", "RESULT">>,
     <<"fromHeartbeat", "HEARTBEAT">>, <<"heartbeat", "HELLO">>, <<"answers", "RESULT">>,
     <<"client", "JOB">>, <<"client", "HEARTBEAT">>, <<"minion", "JOB">>,
     <<"fromMinion", "RESULT">>, <<"fromMinion", "HELLO">>}

\* An answer comes to the requester, and under the id, it was asked for, and holds
\* the results of that request's own sample in the order of the types, whatever
\* else is under way; and every message on the way is addressed to someone who
\* exists and has a callback for it (socket.cpp:92-165, router.cpp:71).
AnswersReachAsker ==
    /\ \A a \in answers : \E i \in 1..asked :
          /\ a.requester = Submissions[i].requester /\ a.id = Submissions[i].id
          /\ a.results = Expected(Submissions[i])
    /\ \A p \in wire :
          /\ <<p.at[1], Received(p.frames).subject>> \in Understood
          /\ p.at[1] = "answers" => p.at[2] \in {Identity(r) : r \in Requester}
          /\ p.at[1] = "client" => p.at[2] \in {Identity(c) : c \in Client}
=============================================================================
